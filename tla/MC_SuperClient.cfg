CONSTANTS
  Package = {p}
  NoPackage = NoPackage
  MaxVersion = 1
  Client = {c1, c2}
  Dispatch = {d1, d2}
  Offered <- MCOffered
  ChannelSize = 1
  MaxFailures = 2
SPECIFICATION FairSpec
INVARIANTS TypeOK EachResultOnce OrderSurvivesOneFailure ServerKnowsState SilentForEver
PROPERTIES DispatchAnswered  ShutdownFlushesOrPanics
CHECK_DEADLOCK FALSE
