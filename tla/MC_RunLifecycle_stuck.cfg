CONSTANTS
  Client = {c1}
  LastRun = 1
  Status = {success, fail}
  Success = success
  NoResult = NoResult
  MaxFaults = 0
SPECIFICATION Spec
INVARIANT AllResultsInMeansCompleted
CHECK_DEADLOCK FALSE
