SPECIFICATION Spec
CONSTANTS
  MaxReceipts = 12
  LagTolerance = 65536
  Severity <- MCSeverity
  Dependents <- MCDependents
  MaxTtl = 2
  ApprovalFreshness = 3
  Policies <- TwoSourcePolicies
  Proposals <- MCProposals
  Profiles <- MCProfiles
  Worlds <- MCWorlds
  SensorsFor <- TwoSourcesFor
  Lies <- MCLies
  FaultSets <- MCFaultSets
  UniqueIds = FALSE
  InitialPools <- NoEvidence
  InitialGrants <- MCInitialGrants
  MaxTurns = 3
  TurnBudget = 5
  Deadline = 3
  MaxTime = 4
  MaxMoves = 1
INVARIANTS
  CertificateWithinWitness
CHECK_DEADLOCK FALSE
