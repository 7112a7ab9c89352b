CONSTANTS
  Client = {c1, c2}
  LastRun = 2
  Status = {success, fail}
  Success = success
  NoResult = NoResult
  MaxFaults = 0
SPECIFICATION Spec
INVARIANT CompletedMeansAllResultsIn
CHECK_DEADLOCK FALSE
