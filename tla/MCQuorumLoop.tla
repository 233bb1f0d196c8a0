---------------------------- MODULE MCQuorumLoop ----------------------------
(* Values for WorkLoop: the failovers of MCWorkLoop, and a network policy  *)
(* whose effect is vouched for by a quorum of verifiers with common faults *)
(* (the shape of the repository's reachability profiles), under each kind  *)
(* of coalition policy, with and without the human approval that a stale   *)
(* proposal needs.  A run is of the one or of the other.                   *)
EXTENDS MCWorkLoop, TLC

QuorumCluster == "k8s-prod"
QuorumScope == {<<"kubernetes", QuorumCluster>>}

QuorumRule(profile, minCut, disallowed) ==
  [ id |-> "omega-reachability", kind |-> "QUORUM", required |-> TRUE, scope |-> QuorumScope,
    maxFreshness |-> 1, classes |-> {"STATIC_VERIFICATION"},
    predicate |-> {[field |-> "unreachable", typed |-> BOOLEAN, holds |-> {TRUE},
                    comparable |-> TRUE]},
    priorities |-> <<>>, minCardinality |-> 2, minPrincipals |-> 2, reconcile |-> FALSE,
    efd |-> {[profile |-> profile, minCut |-> minCut, disallowed |-> disallowed]},
    guardTemplates |-> {} ]

QuorumPolicy(rule) ==
  [ epoch |-> "q3", rules |-> <<rule>>, invariants |-> {"deployment_in_cluster_scope"},
    threshold |-> [Threshold EXCEPT !.blastRadius = 2, !.epistemicUncertainty = 0] ]
QuorumPolicies ==
  { QuorumPolicy(QuorumRule("k-of-n", 2, {})), QuorumPolicy(QuorumRule("all-of", 2, {})),
    QuorumPolicy(QuorumRule("explicit", 2, {})), QuorumPolicy(QuorumRule("k-of-n", 2, {"probe"})),
    QuorumPolicy(QuorumRule("dangling", 1, {})), QuorumPolicy(QuorumRule("missing", 1, {})) }

Exposures == [v1 |-> {"model"}, v2 |-> {"model"}, v3 |-> {"probe"}]
Profile(type, exposures, coalitions) ==
  [ faults |-> {"model", "probe"}, exposures |-> exposures,
    verifierOf |-> [s \in DOMAIN exposures |-> s],
    type |-> type, k |-> 2, n |-> 3, coalitions |-> coalitions ]
QuorumProfiles ==
  [ id \in {"k-of-n", "all-of", "explicit", "dangling"} |->
      CASE id = "k-of-n" -> Profile("K_OF_N", Exposures, {})
        [] id = "all-of" -> Profile("ALL_OF", [v1 |-> {"model"}, v3 |-> {"probe"}], {})
        [] id = "explicit" -> Profile("EXPLICIT", Exposures, {{"v1", "v3"}, {"v1", "v2"}})
        [] id = "dangling" -> Profile("K_OF_N", [Exposures EXCEPT !["v3"] = {"other"}], {}) ]

QuorumProposal(version) ==
  [ principal |-> "agent", action |-> "ApplyNetworkPolicy", scope |-> QuorumScope,
    params |-> [clusterId |-> QuorumCluster], observedVersion |-> version ]

(* The facts of the one cluster, and of the other one's any.               *)
QuorumWorld(unreachable) ==
  [ facts |-> [replicationLagBytes |-> 512, role |-> "standby", is_in_recovery |-> TRUE,
               valid_rollback_snapshot |-> TRUE, unreachable |-> unreachable],
    view |-> [clusterId |-> QuorumCluster, observedVersion |-> "v1", activeNodes |-> {},
              firstNode |-> "", candidateRole |-> "unknown", replicationEpoch |-> 1,
              schedulable |-> <<>>] ]
QuorumWorlds == {QuorumWorld(TRUE), QuorumWorld(FALSE)}
Extended(w) == [w EXCEPT !.facts = @ @@ [unreachable |-> FALSE]]

QuorumSensors ==
  { [ source |-> v, class |-> "STATIC_VERIFICATION", scope |-> QuorumScope,
      fields |-> {"unreachable"}, principal |-> v, exposures |-> Exposures[v] ] :
      v \in DOMAIN Exposures }

Approval(id, principal, authentic) ==
  [ id |-> <<id>>, source |-> "iam", class |-> "DUAL_SIGNATURE_RECEIPT", scope |-> QuorumScope,
    principal |-> principal, authentic |-> authentic, version |-> "v1", observedAt |-> 0,
    claim |-> [human_sre_dual_authorization |-> TRUE] ]
Approvals ==
  { {}, {Approval("x", "ann", TRUE), Approval("y", "ben", TRUE)},
    {Approval("x", "ann", TRUE), Approval("y", "ann", TRUE), Approval("z", "ben", FALSE)} }

(* Both.                                                                   *)
AllPolicies == MCPolicies \cup QuorumPolicies
AllProposals == MCProposals \cup {QuorumProposal("v1"), QuorumProposal("v0")}
AllWorlds == {Extended(w) : w \in MCWorlds} \cup QuorumWorlds
AllSensorsFor == MCSensorsFor @@ [id \in {"omega-reachability"} |-> QuorumSensors]
AllInitialPools ==
  [w \in QuorumWorlds |-> Approvals] @@
  [x \in {Extended(w) : w \in MCWorlds} |->
     MCInitialPools[CHOOSE w \in MCWorlds : Extended(w) = x]]
AllGrants == [p \in {"agent"} |->
  MCInitialGrants[p] \cup {<<"ApplyNetworkPolicy", item>> : item \in QuorumScope}]
AllLies == [unreachable : BOOLEAN]
AllFaultSets == {{}, {"model"}, {"probe"}}
AllSeverity == MCSeverity @@ [e \in {QuorumCluster} |-> 2]
AllDependents == MCDependents @@ [e \in {QuorumCluster} |-> 6]

(* Policy, proposal and world are of one cluster; the failover's sensors   *)
(* have no faults, and the quorum's clock stops before the deadline.       *)
OneCluster ==
  /\ world.view.clusterId = proposal.params.clusterId
  /\ IF world \in QuorumWorlds THEN policy \in QuorumPolicies /\ now <= Deadline
     ELSE policy \in MCPolicies /\ faults = {}

MCInit == Init /\ OneCluster
MCMoves == Moves /\ OneCluster'
MCNext == Evaluate \/ Fetch \/ Dispatch \/ MCMoves
MCSpec == MCInit /\ [][MCNext]_vars

=============================================================================
