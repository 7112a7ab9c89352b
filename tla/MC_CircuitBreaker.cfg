CONSTANTS
  Workflow = {w1}
  NoWorkflow = NoWorkflow
  Evaluator = {"event", "ticker"}
  Admin = {a1}
  Level = {3}
  NoRuns = NoRuns
  NoHealth = NoHealth
  Threshold = {0, 2}
  DefaultThreshold = 4
  MaxFaults = 1
SPECIFICATION FairSpec
INVARIANT Inv
PROPERTIES OnlyOpenedAreReopened CircuitSettles SerialEvaluationsAgree
CHECK_DEADLOCK FALSE
