SPECIFICATION Spec
CONSTANTS
  ClusterName = "k8s-prod"
  Mediated = TRUE
  MaxReceipts = 12
  LagTolerance = 65536
  Severity <- MCSeverity
  Dependents <- MCDependents
  MaxTtl = 2
  ApprovalFreshness = 2
  Agents = {a1, a2}
  Proposals <- MCProposals
  InitialClusters <- MCInitialClusters
  NewPods <- MCNewPods
  RuleFreshness <- MCRuleFreshness
  MaxTime = 1
  MaxMoves = 1
INVARIANTS
  VersionedUpdatesSerialise
  CurrentVersionIsTrue
PROPERTIES
  TokenPerMutation
  DrainIsAtomic
SYMMETRY AgentSymmetry
CHECK_DEADLOCK FALSE
