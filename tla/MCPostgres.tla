------------------------------ MODULE MCPostgres ------------------------------
(* Values for PostgresLoop: the cluster of the demo, and two agents that   *)
(* fail it over, fail it back, or name a node there is not.                *)
EXTENDS PostgresLoop, TLC

Proposed(candidate) ==
  [ principal |-> "agent", action |-> "FailoverDatabase", scope |-> Scope,
    params |-> [clusterId |-> ClusterId, candidateStandby |-> candidate],
    observedVersion |-> Lsn ]
MCProposals == {Proposed(n) : n \in Nodes}
MCInitialClusters ==
  LET new == NewCluster("replica-01", "replica-02") IN
    {new, InjectFault(new, [NoFaults EXCEPT !.lagSpike = TRUE, !.standbyCrash = TRUE])}
MCRuleFreshness ==
  [ id \in {"omega-1-replication-lag", "omega-2-standby-health"} |-> 1 ] @@
  [ id \in {"omega-3-rollback-artifact"} |-> 3 ]
MCInjectedFaults ==
  { [NoFaults EXCEPT !.lagSpike = TRUE],
    [NoFaults EXCEPT !.standbyCrash = TRUE],
    [NoFaults EXCEPT !.roleDrift = "primary", !.networkDrop = TRUE],
    [NoFaults EXCEPT !.promotionTimeout = TRUE] }
MCSeverity == [e \in {ClusterId} |-> 2]
MCDependents == [e \in {ClusterId} |-> 0]
AgentSymmetry == Permutations(Agents)

=============================================================================
