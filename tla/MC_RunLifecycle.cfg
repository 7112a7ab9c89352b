CONSTANTS
  Client = {c1, c2}
  LastRun = 2
  Status = {success}
  Success = success
  NoResult = NoResult
  MaxFaults = 1
SPECIFICATION Spec
SYMMETRY Symmetry
INVARIANTS CompletedIsAccountedFor SuccessWithinEffective HealthReflectsResults LastAnswerSuffices Inv
 
CHECK_DEADLOCK FALSE
