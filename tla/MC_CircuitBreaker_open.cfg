CONSTANTS
  Workflow = {w1}
  NoWorkflow = NoWorkflow
  Evaluator = {"event", "ticker"}
  Admin = {}
  Level = {1, 3}
  NoRuns = NoRuns
  NoHealth = NoHealth
  Threshold = {0, 2}
  DefaultThreshold = 4
  MaxFaults = 0
SPECIFICATION Spec
INVARIANT OpenMeansDeactivated
CHECK_DEADLOCK FALSE
