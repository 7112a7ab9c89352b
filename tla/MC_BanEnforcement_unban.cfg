CONSTANTS
  Client = {c1}
  WorkflowType = {upgrade}
  Global = global
  Admin = {a1}
  Caller = {f1}
  NoClient = NoClient
SPECIFICATION Spec
PROPERTY BanNotFoundMeansNotBlocked
