CONSTANTS
  Workflow = {w1}
  NoWorkflow = NoWorkflow
  Evaluator = {"event", "ticker"}
  Admin = {}
  Level <- MCLevel
  NoRuns = NoRuns
  NoHealth = NoHealth
  Threshold = {0}
  DefaultThreshold = 50
  MaxFaults = 1
  MaxRuns = 2
  Pct = {0, 60}
  Windows = {1}
  MaxList = 4
SPECIFICATION RecoverySpec
INVARIANTS RecoveryTypeOK RunsCountOnce HealthIsWindow TrendIsFair
PROPERTIES  ImplementsCircuitBreaker
CHECK_DEADLOCK FALSE
