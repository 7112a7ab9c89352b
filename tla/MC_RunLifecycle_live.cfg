CONSTANTS
  Client = {c1, c2}
  LastRun = 2
  Status = {success}
  Success = success
  NoResult = NoResult
  MaxFaults = 0
SPECIFICATION FairSpec
PROPERTY LateAnswerCompletes
CHECK_DEADLOCK FALSE
