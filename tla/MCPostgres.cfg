SPECIFICATION Spec
CONSTANTS
  ClusterId = "prod-cluster-a"
  Nodes = {"replica-01", "replica-02", "replica-09"}
  DefaultLag = 512
  SpikeLag = 2097152
  MaxReceipts = 12
  LagTolerance = 65536
  Severity <- MCSeverity
  Dependents <- MCDependents
  MaxTtl = 3
  ApprovalFreshness = 2
  Agents = {a1, a2}
  Proposals <- MCProposals
  InitialClusters <- MCInitialClusters
  RuleFreshness <- MCRuleFreshness
  InjectedFaults <- MCInjectedFaults
  MaxTime = 2
  MaxFaults = 1
INVARIANTS
  SinglePrimary
  PromotionsAccounted
  PromotedWasFit
SYMMETRY AgentSymmetry
CHECK_DEADLOCK FALSE
