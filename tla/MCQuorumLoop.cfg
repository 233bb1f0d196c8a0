SPECIFICATION MCSpec
CONSTANTS
  MaxReceipts = 12
  LagTolerance = 65536
  Severity <- AllSeverity
  Dependents <- AllDependents
  MaxTtl = 2
  ApprovalFreshness = 3
  Policies <- AllPolicies
  Proposals <- AllProposals
  Profiles <- QuorumProfiles
  Worlds <- AllWorlds
  SensorsFor <- AllSensorsFor
  Lies <- AllLies
  FaultSets <- AllFaultSets
  UniqueIds = TRUE
  InitialPools <- AllInitialPools
  InitialGrants <- AllGrants
  MaxTurns = 3
  TurnBudget = 5
  Deadline = 2
  MaxTime = 3
  MaxMoves = 1
INVARIANTS
  TypeOK
  ExecutedOnFreshTruth
  CertificateWithinWitness
  ForgeriesAreInert
  UncontestedWhenIssued
CHECK_DEADLOCK FALSE
