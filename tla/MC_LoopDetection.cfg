CONSTANTS
  LastWorkflow = 2
  Type = {"t"}
  Schedule <- MCSchedule
  Client = {"c"}
  NoTime = NoTime
  MaxTime = 4
  MaxRuns = 3
  MaxActs = 3
  MaxTotal = 5
  LoopThreshold <- MCLoopThreshold
  Slack = 0
SPECIFICATION Spec
INVARIANTS TypeOK ChainEnds BannedOnlyForLoop LoopsAreBanned PunctualRunsBanNobody
PROPERTY DueTimesFireOnce
