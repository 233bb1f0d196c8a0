SPECIFICATION Spec
CONSTANTS
  MaxReceipts = 12
  LagTolerance = 65536
  Severity <- MCSeverity
  Dependents <- MCDependents
  MaxTtl = 60000
  ApprovalFreshness = 60000
  Trials <- MCTrials
INVARIANTS
  HarmHasItsCause
CHECK_DEADLOCK FALSE
