--------------------------- MODULE PostgresCluster ---------------------------
(***************************************************************************)
(* The PostgreSQL cluster model (adapters/postgres/src/clusterModel.ts),   *)
(* its observer (observer.ts) and the failover adapter                     *)
(* (failoverAdapter.ts), as functions of a cluster.  promoteStandby is     *)
(* async but awaits nothing, so a call of the adapter is one step.         *)
(*                                                                         *)
(* A cluster is a record of                                                *)
(*   primary   primaryNode                                                 *)
(*   order     the names of its two nodes, in the order they were added    *)
(*   nodes     name -> [role, isInRecovery, lag, timeline]                 *)
(*   epoch     replicationEpoch                                            *)
(*   faults    [lagSpike, standbyCrash, roleDrift, promotionTimeout,       *)
(*              networkDrop]: roleDrift is the role drifted to, or "none"  *)
(* walLsn never changes: every node, and every receipt, has Lsn.           *)
(***************************************************************************)
EXTENDS Integers, FiniteSets, Sequences

CONSTANTS
  ClusterId,
  Nodes,          \* the names a candidate may have, of nodes or not
  DefaultLag,     \* the lag of the standby, in bytes
  SpikeLag        \* replicationLagSpikeBytes of an injected lag

Lsn == "lsn:0/3000000"

NoFaults ==
  [ lagSpike |-> FALSE, standbyCrash |-> FALSE, roleDrift |-> "none",
    promotionTimeout |-> FALSE, networkDrop |-> FALSE ]
FaultStates ==
  [ lagSpike : BOOLEAN, standbyCrash : BOOLEAN, roleDrift : {"none", "primary", "offline"},
    promotionTimeout : BOOLEAN, networkDrop : BOOLEAN ]

(* The constructor.                                                        *)
NewCluster(primary, standby) ==
  [ primary |-> primary, order |-> <<primary, standby>>, epoch |-> 1, faults |-> NoFaults,
    nodes |-> [n \in {primary, standby} |->
      [ role |-> IF n = primary THEN "primary" ELSE "standby",
        isInRecovery |-> n # primary,
        lag |-> IF n = primary THEN 0 ELSE DefaultLag,
        timeline |-> 1 ]] ]

(* injectFault: over the faults there are; clearFaults.                    *)
InjectFault(c, faults) ==
  [c EXCEPT !.faults = [f \in DOMAIN NoFaults |->
     IF faults[f] = NoFaults[f] THEN c.faults[f] ELSE faults[f]]]
ClearFaults(c) == [c EXCEPT !.faults = NoFaults]

(* getNode, for a node there is: what an observer sees of it; the primary  *)
(* of the moment is exposed to no fault.                                   *)
GetNode(c, name) ==
  LET node == c.nodes[name]
      exposed == name # c.primary
      drifted == exposed /\ c.faults.roleDrift # "none"
      down == exposed /\ c.faults.standbyCrash
  IN  [ role |-> IF drifted THEN c.faults.roleDrift
                 ELSE IF down THEN "offline" ELSE node.role,
        isInRecovery |-> node.isInRecovery /\ ~drifted /\ ~down,
        lag |-> IF exposed /\ c.faults.lagSpike THEN SpikeLag ELSE node.lag,
        timeline |-> node.timeline ]

(* getControllerVisibleState.                                              *)
VisibleState(c, candidate) ==
  [ clusterId |-> ClusterId, observedVersion |-> Lsn,
    activeNodes |-> DOMAIN c.nodes, firstNode |-> c.order[1],
    candidateRole |-> IF candidate \in DOMAIN c.nodes THEN GetNode(c, candidate).role
                      ELSE "unknown",
    replicationEpoch |-> c.epoch, schedulable |-> <<>> ]

------------------------------------------------------------------------------
(* The claims of the observer's three receipts, for any name.              *)
ReplicationClaim(c, candidate) ==
  [ replicationLagBytes |->
      IF candidate \in DOMAIN c.nodes THEN GetNode(c, candidate).lag ELSE 0 ]

StandbyHealthClaim(c, candidate) ==
  LET there == candidate \in DOMAIN c.nodes IN
    [ is_in_recovery |-> there /\ GetNode(c, candidate).isInRecovery,
      role |-> IF there THEN GetNode(c, candidate).role ELSE "offline" ]

(* The backup artifact is valid from the constructor on.                   *)
RollbackClaim == [valid_rollback_snapshot |-> TRUE]

------------------------------------------------------------------------------
TimesOut(c) == c.faults.promotionTimeout \/ c.faults.networkDrop

(* promoteStandby looks at the stored node, not at what observers see.     *)
Promotable(c, candidate) ==
  /\ candidate \in DOMAIN c.nodes
  /\ c.nodes[candidate].role = "standby"
  /\ c.nodes[candidate].isInRecovery

(* Mutant: the old primary is not stepped down.                            *)
Promoted_TwoPrimaries(c, candidate) ==
  [c EXCEPT
     !.nodes[candidate] = [@ EXCEPT !.role = "primary", !.isInRecovery = FALSE,
                                    !.timeline = @ + 1],
     !.primary = candidate,
     !.epoch = @ + 1]

(* The cluster after the old primary stepped down and the candidate took   *)
(* over.                                                                   *)
Promoted(c, candidate) ==
  [c EXCEPT
     !.nodes = [n \in DOMAIN c.nodes |->
       CASE n = candidate -> [c.nodes[n] EXCEPT !.role = "primary", !.isInRecovery = FALSE,
                                                !.timeline = c.nodes[n].timeline + 1]
         [] n = c.primary /\ n # candidate ->
              [c.nodes[n] EXCEPT !.role = "standby", !.isInRecovery = TRUE]
         [] OTHER -> c.nodes[n]],
     !.primary = candidate,
     !.epoch = c.epoch + 1]

Outcome(outcome, c) == [outcome |-> outcome, cluster |-> c]

(* Mutant: a promotion that times out may have happened.                   *)
Execute_TimeoutPromotes(c, action, params, dryRun) ==
  IF action # "FailoverDatabase" \/ ~({"clusterId", "candidateStandby"} \subseteq DOMAIN params)
    THEN Outcome("FAILED", c)
  ELSE IF params.clusterId # ClusterId THEN Outcome("FAILED", c)
  ELSE IF dryRun THEN Outcome("SUCCESS", c)
  ELSE IF ~Promotable(c, params.candidateStandby) THEN Outcome("FAILED", c)
  ELSE Outcome(IF TimesOut(c) THEN "AMBIGUOUS" ELSE "SUCCESS",
               Promoted(c, params.candidateStandby))

(* execute, with promoteStandby: a timeout is noticed before anything is   *)
(* looked at, and reported as ambiguous.                                   *)
Execute(c, action, params, dryRun) ==
  IF action # "FailoverDatabase" \/ ~({"clusterId", "candidateStandby"} \subseteq DOMAIN params)
    THEN Outcome("FAILED", c)
  ELSE IF params.clusterId # ClusterId THEN Outcome("FAILED", c)
  ELSE IF dryRun THEN Outcome("SUCCESS", c)
  ELSE IF TimesOut(c) THEN Outcome("AMBIGUOUS", c)
  ELSE IF ~Promotable(c, params.candidateStandby) THEN Outcome("FAILED", c)
  ELSE Outcome("SUCCESS", Promoted(c, params.candidateStandby))

=============================================================================
