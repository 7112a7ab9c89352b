CONSTANTS
  Client = {c1, c2}
  WorkflowType = {upgrade, reboot}
  Global = global
  Admin = {a1}
  Caller = {f1}
  NoClient = NoClient
SPECIFICATION Spec
SYMMETRY Symmetry
INVARIANTS NoDispatchThroughBan Inv
PROPERTY ImplementsLedger
