-------------------------- MODULE PostgresLoopProofs --------------------------
(***************************************************************************)
(* One primary, and one promotion per success, for any number of agents,   *)
(* proposals, faults and ticks and whatever the controller decides: those  *)
(* proofs look into the adapter and the cluster and nowhere else.  That    *)
(* the promoted node was fit takes the controller, the observer, the       *)
(* gateway's check of the expiry and the clock as well.                    *)
(***************************************************************************)
EXTENDS PostgresLoop, FiniteSetTheorems, TLAPS

ClusterShaped(c) ==
  /\ DOMAIN c = {"primary", "order", "nodes", "epoch", "faults"}
  /\ c.epoch \in Nat /\ c.faults \in FaultStates
  /\ c.primary \in DOMAIN c.nodes
  /\ \A n \in DOMAIN c.nodes :
       DOMAIN c.nodes[n] = {"role", "isInRecovery", "lag", "timeline"}

(* Who is primary can be read off the roles and off the recoveries.        *)
RolesAgree(c) ==
  \A n \in DOMAIN c.nodes :
    /\ c.nodes[n].role = IF n = c.primary THEN "primary" ELSE "standby"
    /\ c.nodes[n].isInRecovery <=> n # c.primary

LEMMA InjectionIsFault ==
  ASSUME NEW c, c.faults \in FaultStates, NEW faults \in FaultStates
  PROVE  [f \in DOMAIN NoFaults |->
            IF faults[f] = NoFaults[f] THEN c.faults[f] ELSE faults[f]] \in FaultStates
BY DEF NoFaults, FaultStates

LEMMA InjectionKeepsRoles ==
  ASSUME NEW c, ClusterShaped(c), RolesAgree(c), NEW faults \in FaultStates
  PROVE  LET d == InjectFault(c, faults) IN
           ClusterShaped(d) /\ RolesAgree(d) /\ d.epoch = c.epoch
BY InjectionIsFault DEF ClusterShaped, RolesAgree, InjectFault

LEMMA ClearingKeepsRoles ==
  ASSUME NEW c, ClusterShaped(c), RolesAgree(c)
  PROVE  LET d == ClearFaults(c) IN
           ClusterShaped(d) /\ RolesAgree(d) /\ d.epoch = c.epoch
<1>1. NoFaults \in FaultStates
  BY DEF NoFaults, FaultStates
<1>2. QED
  BY <1>1 DEF ClusterShaped, RolesAgree, ClearFaults

LEMMA NewClusterAgrees ==
  ASSUME NEW p, NEW s, p # s
  PROVE  LET c == NewCluster(p, s) IN
           ClusterShaped(c) /\ RolesAgree(c) /\ c.epoch = 1
<1>1. NoFaults \in FaultStates
  BY DEF NoFaults, FaultStates
<1>2. QED
  BY <1>1 DEF ClusterShaped, RolesAgree, NewCluster

(* The candidate was no primary, so exactly one steps down for it.         *)
LEMMA PromotionKeepsRoles ==
  ASSUME NEW c, ClusterShaped(c), RolesAgree(c), NEW candidate, Promotable(c, candidate)
  PROVE  LET d == Promoted(c, candidate) IN
           ClusterShaped(d) /\ RolesAgree(d) /\ d.epoch = c.epoch + 1
<1> DEFINE d == Promoted(c, candidate)
<1>1. /\ DOMAIN d = DOMAIN c /\ d.primary = candidate /\ d.epoch = c.epoch + 1
      /\ d.faults = c.faults /\ DOMAIN d.nodes = DOMAIN c.nodes
  BY DEF Promoted, ClusterShaped
<1>2. candidate \in DOMAIN c.nodes /\ candidate # c.primary
  BY DEF Promotable, RolesAgree
<1>3. \A n \in DOMAIN c.nodes :
        d.nodes[n] = IF n = candidate
          THEN [c.nodes[n] EXCEPT !.role = "primary", !.isInRecovery = FALSE,
                                  !.timeline = c.nodes[n].timeline + 1]
          ELSE IF n = c.primary
            THEN [c.nodes[n] EXCEPT !.role = "standby", !.isInRecovery = TRUE]
            ELSE c.nodes[n]
  BY <1>2 DEF Promoted, ClusterShaped
<1>4. ASSUME NEW n \in DOMAIN c.nodes
      PROVE  /\ DOMAIN d.nodes[n] = DOMAIN c.nodes[n]
             /\ d.nodes[n].role = IF n = candidate THEN "primary" ELSE "standby"
             /\ d.nodes[n].isInRecovery <=> n # candidate
  <2> HIDE DEF d
  <2>1. CASE n = candidate
    <3>1. d.nodes[n] = [c.nodes[n] EXCEPT !.role = "primary", !.isInRecovery = FALSE,
                                          !.timeline = c.nodes[n].timeline + 1]
      BY <1>3, <2>1
    <3>2. QED
      BY <2>1, <3>1 DEF ClusterShaped
  <2>2. CASE n # candidate /\ n = c.primary
    <3>1. d.nodes[n] = [c.nodes[n] EXCEPT !.role = "standby", !.isInRecovery = TRUE]
      BY <1>3, <2>2
    <3>2. QED
      BY <2>2, <3>1 DEF ClusterShaped
  <2>3. CASE n # candidate /\ n # c.primary
    <3>1. d.nodes[n] = c.nodes[n]
      BY <1>3, <2>3
    <3>2. QED
      BY <2>3, <3>1 DEF RolesAgree
  <2>4. QED
    BY <2>1, <2>2, <2>3
<1> HIDE DEF d
<1>5. ClusterShaped(d)
  BY <1>1, <1>2, <1>4 DEF ClusterShaped
<1>6. RolesAgree(d)
  BY <1>1, <1>4 DEF RolesAgree
<1>7. QED
  BY <1>1, <1>5, <1>6 DEF d

(* A success that is no rehearsal is a promotion; nothing else changes the *)
(* cluster.                                                                *)
LEMMA ExecutionPromotes ==
  ASSUME NEW c, NEW action, NEW params, NEW dry \in BOOLEAN
  PROVE  LET result == Execute(c, action, params, dry) IN
           /\ result.outcome \in {"SUCCESS", "FAILED", "AMBIGUOUS"}
           /\ (result.outcome = "SUCCESS" /\ ~dry) =>
                /\ Promotable(c, params.candidateStandby)
                /\ result.cluster = Promoted(c, params.candidateStandby)
           /\ ~(result.outcome = "SUCCESS" /\ ~dry) => result.cluster = c
BY DEF Execute, Outcome

------------------------------------------------------------------------------
OutcomeWhenDone == \A a \in Agents : outcome[a] # "NONE" => phase[a] = "done"

PostgresInv ==
  /\ TypeOK /\ OutcomeWhenDone
  /\ ClusterShaped(cluster) /\ RolesAgree(cluster) /\ PromotionsAccounted

LEMMA PostgresInvInit == Init => PostgresInv
<1> SUFFICES ASSUME Init PROVE PostgresInv
  OBVIOUS
<1>1. PICK p \in Nodes, s \in Nodes, f \in FaultStates :
        p # s /\ cluster = InjectFault(NewCluster(p, s), f)
  BY PostgresLoopAssumption DEF Init
<1>2. /\ ClusterShaped(NewCluster(p, s)) /\ RolesAgree(NewCluster(p, s))
      /\ NewCluster(p, s).epoch = 1
  BY <1>1, NewClusterAgrees
<1>3. ClusterShaped(cluster) /\ RolesAgree(cluster) /\ cluster.epoch = 1
  BY <1>1, <1>2, InjectionKeepsRoles
<1>4. TypeOK /\ OutcomeWhenDone
  BY <1>3, PostgresLoopAssumption DEF Init, TypeOK, OutcomeWhenDone, ClusterShaped
<1>5. Promotions = {}
  BY DEF Init, Promotions
<1>6. PromotionsAccounted
  BY <1>3, <1>5, FS_EmptySet DEF PromotionsAccounted
<1>7. QED
  BY <1>3, <1>4, <1>6 DEF PostgresInv

(* Steps of an agent before its dispatch, and of the clock, leave the      *)
(* cluster and the outcomes alone.                                         *)
LEMMA QuietStep ==
  ASSUME PostgresInv, UNCHANGED <<cluster, outcome, dryRun, proposal>>, TypeOK',
         OutcomeWhenDone'
  PROVE  PostgresInv'
<1>1. Promotions' = Promotions
  BY DEF Promotions
<1>2. PromotionsAccounted'
  BY <1>1 DEF PostgresInv, PromotionsAccounted
<1>3. ClusterShaped(cluster') /\ RolesAgree(cluster')
  BY DEF PostgresInv
<1>4. QED
  BY <1>2, <1>3 DEF PostgresInv

LEMMA PostgresInvStep ==
  ASSUME PostgresInv, [Next]_vars
  PROVE  PostgresInv'
<1> USE PostgresLoopAssumption DEF PostgresInv
<1>1. ASSUME NEW a \in Agents, Inspect(a) PROVE PostgresInv'
  <2>1. TypeOK' /\ OutcomeWhenDone'
    BY <1>1 DEF Inspect, runVars, TypeOK, OutcomeWhenDone
  <2>2. QED
    BY <1>1, <2>1, QuietStep DEF Inspect, runVars
<1>2. ASSUME NEW a \in Agents, Evaluate(a) PROVE PostgresInv'
  <2>1. PICK p \in {"present", "closed"} : phase' = [phase EXCEPT ![a] = p]
    BY <1>2 DEF Evaluate
  <2>2. phase[a] = "inspect" /\ UNCHANGED <<now, injections, cluster, runVars, outcome>>
    BY <1>2 DEF Evaluate
  <2>3. TypeOK' /\ OutcomeWhenDone'
    BY <2>1, <2>2 DEF runVars, TypeOK, OutcomeWhenDone
  <2>4. QED
    BY <2>2, <2>3, QuietStep DEF runVars
<1>3. ASSUME NEW a \in Agents, Present(a) PROVE PostgresInv'
  <2>1. PICK p \in {"execute", "blocked"} : phase' = [phase EXCEPT ![a] = p]
    BY <1>3 DEF Present
  <2>2. phase[a] = "present" /\ UNCHANGED <<now, injections, cluster, runVars, outcome>>
    BY <1>3 DEF Present
  <2>3. TypeOK' /\ OutcomeWhenDone'
    BY <2>1, <2>2 DEF runVars, TypeOK, OutcomeWhenDone
  <2>4. QED
    BY <2>2, <2>3, QuietStep DEF runVars
<1>4. ASSUME NEW a \in Agents, Dispatch(a) PROVE PostgresInv'
  <2> DEFINE result == Execute(cluster, proposal[a].action, proposal[a].params, dryRun)
  <2>1. /\ phase[a] = "execute" /\ phase' = [phase EXCEPT ![a] = "done"]
        /\ cluster' = result.cluster
        /\ outcome' = [outcome EXCEPT ![a] = result.outcome]
        /\ UNCHANGED <<now, injections, dryRun, proposal>>
    BY <1>4 DEF Dispatch, runVars
  <2>2. /\ result.outcome \in {"SUCCESS", "FAILED", "AMBIGUOUS"}
        /\ (result.outcome = "SUCCESS" /\ ~dryRun) =>
             /\ Promotable(cluster, proposal[a].params.candidateStandby)
             /\ result.cluster = Promoted(cluster, proposal[a].params.candidateStandby)
        /\ ~(result.outcome = "SUCCESS" /\ ~dryRun) => result.cluster = cluster
    BY ExecutionPromotes DEF TypeOK
  <2> HIDE DEF result
  <2>3. outcome[a] = "NONE" /\ a \notin Promotions
    BY <2>1 DEF OutcomeWhenDone, Promotions
  <2>4. IsFiniteSet(Promotions) /\ Cardinality(Promotions) \in Nat
    BY FS_Subset, FS_CardinalityType DEF Promotions
  <2>5. CASE result.outcome = "SUCCESS" /\ ~dryRun
    <3>1. /\ ClusterShaped(cluster') /\ RolesAgree(cluster')
          /\ cluster'.epoch = cluster.epoch + 1
      BY <2>1, <2>2, <2>5, PromotionKeepsRoles
    <3>2. Promotions' = Promotions \cup {a}
      BY <2>1, <2>5 DEF Promotions, TypeOK
    <3>3. Cardinality(Promotions') = Cardinality(Promotions) + 1
      BY <2>3, <2>4, <3>2, FS_AddElement
    <3>4. PromotionsAccounted'
      BY <2>4, <3>1, <3>3 DEF PromotionsAccounted
    <3>5. TypeOK' /\ OutcomeWhenDone'
      BY <2>1, <2>2, <3>1 DEF TypeOK, OutcomeWhenDone, ClusterShaped
    <3>6. QED
      BY <3>1, <3>4, <3>5
  <2>6. CASE ~(result.outcome = "SUCCESS" /\ ~dryRun)
    <3>1. cluster' = cluster
      BY <2>1, <2>2, <2>6
    <3>2. Promotions' = Promotions
      BY <2>1, <2>2, <2>3, <2>6 DEF Promotions, TypeOK
    <3>3. PromotionsAccounted'
      BY <3>1, <3>2 DEF PromotionsAccounted
    <3>4. TypeOK' /\ OutcomeWhenDone'
      BY <2>1, <2>2, <3>1 DEF TypeOK, OutcomeWhenDone
    <3>5. QED
      BY <3>1, <3>3, <3>4
  <2>7. QED
    BY <2>5, <2>6
<1>5. CASE Faults
  <2>1. /\ ClusterShaped(cluster') /\ RolesAgree(cluster')
        /\ cluster'.epoch = cluster.epoch
    <3>1. CASE \E faults \in InjectedFaults : cluster' = InjectFault(cluster, faults)
      BY <3>1, InjectionKeepsRoles
    <3>2. CASE cluster' = ClearFaults(cluster)
      BY <3>2, ClearingKeepsRoles
    <3>3. QED
      BY <1>5, <3>1, <3>2 DEF Faults
  <2>2. UNCHANGED <<now, runVars, agentVars>> /\ injections' \in 0..MaxFaults
    BY <1>5 DEF Faults, TypeOK
  <2>3. Promotions' = Promotions
    BY <2>2 DEF Promotions, runVars, agentVars
  <2>4. PromotionsAccounted'
    BY <2>1, <2>3 DEF PromotionsAccounted
  <2>5. TypeOK' /\ OutcomeWhenDone'
    BY <2>1, <2>2 DEF TypeOK, OutcomeWhenDone, ClusterShaped, runVars, agentVars
  <2>6. QED
    BY <2>1, <2>4, <2>5
<1>6. CASE Tick
  <2>1. TypeOK' /\ OutcomeWhenDone'
    BY <1>6 DEF Tick, runVars, agentVars, TypeOK, OutcomeWhenDone
  <2>2. QED
    BY <1>6, <2>1, QuietStep DEF Tick, runVars, agentVars
<1>7. CASE UNCHANGED vars
  <2>1. TypeOK' /\ OutcomeWhenDone'
    BY <1>7 DEF vars, runVars, agentVars, TypeOK, OutcomeWhenDone
  <2>2. QED
    BY <1>7, <2>1, QuietStep DEF vars, runVars, agentVars
<1>8. QED
  BY <1>1, <1>2, <1>3, <1>4, <1>5, <1>6, <1>7 DEF Next

------------------------------------------------------------------------------
(* The variables keep their types.                                         *)
THEOREM PostgresTyped == Spec => []TypeOK
<1>1. PostgresInv /\ [Next]_vars => PostgresInv'
  BY PostgresInvStep
<1>2. PostgresInv => TypeOK
  BY DEF PostgresInv
<1>3. QED
  BY PostgresInvInit, <1>1, <1>2, PTL DEF Spec

(* "single-primary": promoteStandby steps exactly one node down for the    *)
(* one that takes over, in any order of promotions, refusals, timeouts and *)
(* faults of any number of agents.                                         *)
THEOREM OnePrimary == Spec => []SinglePrimary
<1>1. PostgresInv /\ [Next]_vars => PostgresInv'
  BY PostgresInvStep
<1>2. PostgresInv => SinglePrimary
  BY DEF PostgresInv, ClusterShaped, RolesAgree, SinglePrimary
<1>3. QED
  BY PostgresInvInit, <1>1, <1>2, PTL DEF Spec

(* The replication epoch counts the agents that were told SUCCESS: an      *)
(* AMBIGUOUS or FAILED outcome never hides a promotion.                    *)
THEOREM SuccessIsPromotion == Spec => []PromotionsAccounted
<1>1. PostgresInv /\ [Next]_vars => PostgresInv'
  BY PostgresInvStep
<1>2. PostgresInv => PromotionsAccounted
  BY DEF PostgresInv
<1>3. QED
  BY PostgresInvInit, <1>1, <1>2, PTL DEF Spec

------------------------------------------------------------------------------
(* The promoted node was fit.  What the argument needs of an evaluation:   *)
(* a permit rests, for each rule, on the one receipt inspected for it, and *)
(* its certificate expires within the freshness of each.                   *)
RuleId(i) == PostgresFailoverPolicyProfile.rules[i].id
MaxFreshness(i) == PostgresFailoverPolicyProfile.rules[i].maxFreshness

ClassOf(i) == IF i = 3 THEN "ROLLBACK_ATTESTATION" ELSE "POSTGRES_TELEMETRY"
FieldsOf(i) ==
  IF i = 1 THEN {"replicationLagBytes"}
  ELSE IF i = 2 THEN {"is_in_recovery", "role"}
  ELSE {"valid_rollback_snapshot"}

(* The receipt of an inspection for rule i.                                *)
InspectedFor(r, a, i) ==
  /\ r.id = <<a, RuleId(i)>> /\ r.observedAt \in Int
  /\ r.class = ClassOf(i) /\ DOMAIN r.claim = FieldsOf(i)

Inspected(a, receipts, n) ==
  /\ \A r \in receipts : \E i \in 1..n : InspectedFor(r, a, i)
  /\ \A r, s \in receipts : r.id = s.id => r = s

LEMMA RulesOfThePolicy ==
  LET rules == PostgresFailoverPolicyProfile.rules IN
    /\ Len(rules) = 3 /\ DOMAIN rules = 1..3
    /\ rules[1].id = "omega-1-replication-lag"
    /\ rules[2].id = "omega-2-standby-health"
    /\ rules[3].id = "omega-3-rollback-artifact"
    /\ \A i \in 1..3 :
         /\ rules[i].required /\ rules[i].classes = {ClassOf(i)}
         /\ rules[i].maxFreshness \in Nat /\ rules[i].efd = {}
    /\ rules[1].predicate = {Clause("replicationLagBytes", Nat, 0..LagBound)}
    /\ rules[2].predicate = {Clause("is_in_recovery", BOOLEAN, {TRUE}),
                             Clause("role", STRING, {"standby"})}
    /\ rules[3].predicate = {Clause("valid_rollback_snapshot", BOOLEAN, {TRUE})}
<1> DEFINE rules == PostgresFailoverPolicyProfile.rules
<1>1. Len(rules) = 3 /\ DOMAIN rules = 1..3
  BY DEF PostgresFailoverPolicyProfile
<1>2. /\ rules[1] = Rule("omega-1-replication-lag", "OBSERVE", "POSTGRES_TELEMETRY",
           {Clause("replicationLagBytes", Nat, 0..LagBound)},
           {Template("guard-primary-cluster", "cluster.id", "params.clusterId")})
      /\ rules[2] = Rule("omega-2-standby-health", "OBSERVE", "POSTGRES_TELEMETRY",
           {Clause("is_in_recovery", BOOLEAN, {TRUE}), Clause("role", STRING, {"standby"})},
           {Template("guard-candidate-role", "candidate.role", "literal.standby"),
            Template("guard-candidate-identity", "candidate.identity",
                     "params.candidateStandby")})
      /\ rules[3] = Rule("omega-3-rollback-artifact", "VERIFY_ROLLBACK", "ROLLBACK_ATTESTATION",
           {Clause("valid_rollback_snapshot", BOOLEAN, {TRUE})}, {})
  BY DEF PostgresFailoverPolicyProfile
<1> HIDE DEF rules
<1>3. \A i \in 1..3 : i = 1 \/ i = 2 \/ i = 3
  OBVIOUS
<1>4. QED
  BY <1>1, <1>2, <1>3, PostgresLoopAssumption DEF Rule, ClassOf, rules

(* What a positive receipt says of the candidate.                          *)
SaysFit(r, i) ==
  /\ i = 1 => r.claim["replicationLagBytes"] \in 0..LagBound
  /\ i = 2 => r.claim["is_in_recovery"] = TRUE /\ r.claim["role"] = "standby"

(* A receipt speaks for the rule it was inspected for and for no other.    *)
LEMMA SpeaksForItsRule ==
  ASSUME NEW a, NEW r, NEW i \in 1..3, NEW j \in 1..3, InspectedFor(r, a, j), NEW o,
         o.classes = {ClassOf(i)}, r.class \in o.classes,
         o.predicate = PostgresFailoverPolicyProfile.rules[i].predicate,
         Entailment(r.claim, o) = "POSITIVE"
  PROVE  j = i /\ SaysFit(r, i)
<1> DEFINE Reported(c) == c.field \in DOMAIN r.claim /\ r.claim[c.field] \in c.typed
<1>1. /\ o.predicate # {}
      /\ \A c \in o.predicate : Reported(c) /\ r.claim[c.field] \in c.holds
  BY DEF Entailment
<1>2. ClassOf(j) = ClassOf(i) /\ DOMAIN r.claim = FieldsOf(j)
  BY DEF InspectedFor
<1>3. CASE i = 1
  <2>1. Clause("replicationLagBytes", Nat, 0..LagBound) \in o.predicate
    BY <1>3, RulesOfThePolicy
  <2>2. "replicationLagBytes" \in FieldsOf(j) /\ r.claim["replicationLagBytes"] \in 0..LagBound
    BY <1>1, <1>2, <2>1 DEF Clause
  <2>3. QED
    BY <1>3, <2>2 DEF FieldsOf, SaysFit
<1>4. CASE i = 2
  <2>1. /\ Clause("is_in_recovery", BOOLEAN, {TRUE}) \in o.predicate
        /\ Clause("role", STRING, {"standby"}) \in o.predicate
    BY <1>4, RulesOfThePolicy
  <2>2. "is_in_recovery" \in FieldsOf(j) /\ r.claim["is_in_recovery"] \in {TRUE}
    BY <1>1, <1>2, <2>1 DEF Clause
  <2>3. r.claim["role"] \in {"standby"}
    BY <1>1, <2>1 DEF Clause
  <2>4. QED
    BY <1>4, <2>2, <2>3 DEF FieldsOf, SaysFit
<1>5. CASE i = 3
  <2>1. j = 3
    <3>1. ClassOf(j) = "ROLLBACK_ATTESTATION"
      BY <1>2, <1>5 DEF ClassOf
    <3>2. QED
      BY <3>1 DEF ClassOf
  <2>2. j = i /\ ~(i = 1) /\ ~(i = 2)
    BY <1>5, <2>1
  <2>3. QED
    BY <2>2 DEF SaysFit
<1>6. i = 1 \/ i = 2 \/ i = 3
  OBVIOUS
<1>7. QED
  BY <1>3, <1>4, <1>5, <1>6

(* Among one witness of one receipt there is no choice.                    *)
LEMMA OnlyWitness ==
  ASSUME NEW r, r.observedAt \in Int, NEW o, o.efd = {}, NEW profiles
  PROVE  CanonicalWitness({{r}}, o, profiles) = {r}
<1> DEFINE Oldest(W) == Min({q.observedAt : q \in W})
           youngest == {W \in {{r}} : \A V \in {{r}} : Oldest(V) <= Oldest(W)}
           toughest == {W \in youngest : \A V \in youngest :
                          CutOf(V, o, profiles) <= CutOf(W, o, profiles)}
<1>1. Oldest({r}) \in Int
  <2>1. {q.observedAt : q \in {r}} = {r.observedAt}
    OBVIOUS
  <2>2. Min({r.observedAt}) = r.observedAt
    BY DEF Min
  <2>3. QED
    BY <2>1, <2>2
<1>2. youngest = {{r}}
  <2> HIDE DEF Oldest
  <2>1. QED
    BY <1>1
<1>3. toughest = {{r}}
  <2>1. CutOf({r}, o, profiles) = 0
    BY DEF CutOf
  <2> HIDE DEF youngest
  <2>2. \A V \in youngest : CutOf(V, o, profiles) = 0
    BY <1>2, <2>1
  <2>3. toughest = youngest
    BY <2>2
  <2>4. QED
    BY <1>2, <2>3
<1>4. Smallest({{r}}) = {{r}}
  <2>1. Cardinality({r}) = 1
    BY FS_Singleton
  <2>2. \A V, W \in {{r}} : Cardinality(V) <= Cardinality(W)
    BY <2>1
  <2>3. QED
    BY <2>2 DEF Smallest
<1>5. CanonicalWitness({{r}}, o, profiles) = CHOOSE W \in Smallest(toughest) : TRUE
  BY DEF CanonicalWitness
<1> HIDE DEF toughest
<1>6. QED
  BY <1>3, <1>4, <1>5

(* A rule that is satisfied is so by the receipt inspected for it.         *)
LEMMA DischargeOfRule ==
  ASSUME NEW a, NEW receipts, Inspected(a, receipts, 3), NEW i \in 1..3,
         NEW view, NEW time, NEW profiles, NEW o, o.classes = {ClassOf(i)}, o.efd = {},
         o.predicate = PostgresFailoverPolicyProfile.rules[i].predicate,
         Discharge(o, receipts, view, time, profiles).kind = "SATISFIED"
  PROVE  \E r \in receipts :
           /\ Discharge(o, receipts, view, time, profiles).witness = {r}
           /\ InspectedFor(r, a, i) /\ SaysFit(r, i)
<1> DEFINE eligible == {r \in receipts : Eligible(r, o, view, time)}
           Valid(polarity) ==
             {W \in SUBSET {r \in eligible : Entailment(r.claim, o) = polarity} :
                SetConstraintsHold(o, W, profiles)}
           positive == Valid("POSITIVE")
           top == Max({WitnessPriority(W, o) : W \in positive \cup Valid("NEGATIVE")})
           maximal == {W \in positive : WitnessPriority(W, o) = top}
<1>1. /\ maximal # {}
      /\ Discharge(o, receipts, view, time, profiles).witness
           = CanonicalWitness(maximal, o, profiles)
  BY DEF Discharge, DischargeFrom, Unknown
<1>2. ASSUME NEW r \in eligible, Entailment(r.claim, o) = "POSITIVE"
      PROVE  InspectedFor(r, a, i) /\ SaysFit(r, i)
  <2>1. r \in receipts /\ r.class \in o.classes
    BY <1>2 DEF Eligible
  <2>2. PICK j \in 1..3 : InspectedFor(r, a, j)
    BY <2>1 DEF Inspected
  <2>3. j = i /\ SaysFit(r, i)
    BY <1>2, <2>1, <2>2, SpeaksForItsRule
  <2>4. QED
    BY <2>2, <2>3
<1>3. \A r, s \in eligible :
        Entailment(r.claim, o) = "POSITIVE" /\ Entailment(s.claim, o) = "POSITIVE" => r = s
  BY <1>2 DEF Inspected, InspectedFor
<1>4. \A W \in maximal : /\ W # {}
                         /\ \A r \in W : r \in eligible /\ Entailment(r.claim, o) = "POSITIVE"
  BY DEF SetConstraintsHold
<1> HIDE DEF maximal
<1>5. PICK W \in maximal : TRUE
  BY <1>1
<1>6. PICK r \in W : TRUE
  BY <1>4
<1>7. r \in eligible /\ Entailment(r.claim, o) = "POSITIVE"
  BY <1>4
<1>8. maximal = {{r}}
  <2>1. ASSUME NEW V \in maximal PROVE V = {r}
    BY <1>3, <1>4, <1>7
  <2>2. \A V : V \in maximal <=> V = {r}
    BY <1>5, <2>1
  <2>3. QED
    BY <2>2
<1>9. InspectedFor(r, a, i) /\ SaysFit(r, i)
  BY <1>2, <1>7
<1>10. CanonicalWitness(maximal, o, profiles) = {r}
  BY <1>8, <1>9, OnlyWitness DEF InspectedFor
<1>11. QED
  BY <1>1, <1>7, <1>9, <1>10

(* No inspection is a human's approval.                                    *)
LEMMA ApprovalStaysOpen ==
  ASSUME NEW a, NEW receipts, Inspected(a, receipts, 3), NEW scope,
         NEW view, NEW time, NEW profiles
  PROVE  Discharge(HumanApproval(scope), receipts, view, time, profiles).kind = "UNKNOWN"
<1> DEFINE o == HumanApproval(scope)
           eligible == {r \in receipts : Eligible(r, o, view, time)}
           Valid(polarity) ==
             {W \in SUBSET {r \in eligible : Entailment(r.claim, o) = polarity} :
                SetConstraintsHold(o, W, profiles)}
<1>1. o.classes = {"DUAL_SIGNATURE_RECEIPT"}
  BY DEF HumanApproval
<1>2. \A r \in receipts : r.class # "DUAL_SIGNATURE_RECEIPT"
  BY DEF Inspected, InspectedFor, ClassOf
<1> HIDE DEF o
<1>3. eligible = {}
  BY <1>1, <1>2 DEF Eligible
<1>4. Valid("POSITIVE") \cup Valid("NEGATIVE") = {}
  <2> HIDE DEF eligible
  <2>1. QED
    BY <1>3 DEF SetConstraintsHold
<1>5. Discharge(o, receipts, view, time, profiles) = Unknown
  <2> HIDE DEF o
  <2>1. QED
    BY <1>4 DEF Discharge, DischargeFrom
<1>6. QED
  BY <1>5 DEF Unknown, o

LEMMA Appended ==
  ASSUME NEW S, NEW s \in Seq(S), NEW e \in S
  PROVE  /\ DOMAIN Append(s, e) = 1..(Len(s) + 1)
         /\ \A i \in 1..Len(s) : Append(s, e)[i] = s[i]
         /\ Append(s, e)[Len(s) + 1] = e
OBVIOUS

(* The obligations of the policy, by place: three rules, and perhaps the   *)
(* approval.                                                               *)
AsRuled(o, i) ==
  LET rule == PostgresFailoverPolicyProfile.rules[i] IN
    /\ o.required /\ o.classes = {ClassOf(i)} /\ o.efd = {}
    /\ o.predicate = rule.predicate /\ o.maxFreshness = rule.maxFreshness

LEMMA ObligationsOfThePolicy ==
  ASSUME NEW p, NEW view
  PROVE  LET obligations == Obligations(p, view, PostgresFailoverPolicyProfile) IN
             /\ \A i \in 1..3 : AsRuled(obligations[i], i)
             /\ \/ DOMAIN obligations = 1..3
                \/ /\ DOMAIN obligations = 1..4
                   /\ obligations[4] = HumanApproval(p.scope)
<1> DEFINE rules == PostgresFailoverPolicyProfile.rules
           bound == [i \in DOMAIN rules |-> [rules[i] EXCEPT !.scope = p.scope]]
           approval == HumanApproval(p.scope)
<1>1. DOMAIN rules = 1..3
  BY RulesOfThePolicy
<1>2. \A i \in 1..3 : AsRuled(bound[i], i)
  <2>1. TAKE i \in 1..3
  <2>2. rules[i].required /\ rules[i].classes = {ClassOf(i)} /\ rules[i].efd = {}
    BY RulesOfThePolicy
  <2>3. \E id, kind, class, predicate, templates :
          rules[i] = Rule(id, kind, class, predicate, templates)
    <3>1. i = 1 \/ i = 2 \/ i = 3
      OBVIOUS
    <3>2. QED
      BY <3>1 DEF PostgresFailoverPolicyProfile
  <2>4. bound[i] = [rules[i] EXCEPT !.scope = p.scope]
    BY <1>1
  <2> HIDE DEF rules, bound
  <2>5. /\ bound[i].required = rules[i].required /\ bound[i].classes = rules[i].classes
        /\ bound[i].efd = rules[i].efd /\ bound[i].predicate = rules[i].predicate
        /\ bound[i].maxFreshness = rules[i].maxFreshness
    BY <2>3, <2>4 DEF Rule
  <2>6. QED
    BY <2>2, <2>5 DEF AsRuled, rules
<1> DEFINE range == {bound[i] : i \in 1..3} \cup {approval}
<1>3. bound \in Seq(range) /\ Len(bound) = 3
  <2>1. bound = [i \in 1..3 |-> bound[i]]
    BY <1>1
  <2> HIDE DEF bound
  <2>2. QED
    BY <2>1
<1>4. \/ Obligations(p, view, PostgresFailoverPolicyProfile) = bound
      \/ Obligations(p, view, PostgresFailoverPolicyProfile) = Append(bound, approval)
  BY DEF Obligations
<1>5. DOMAIN bound = 1..3
  BY <1>1
<1>6. approval \in range
  OBVIOUS
<1> HIDE DEF bound, approval, rules, range
<1>7. /\ DOMAIN Append(bound, approval) = 1..4
      /\ \A i \in 1..3 : Append(bound, approval)[i] = bound[i]
      /\ Append(bound, approval)[4] = approval
  <2>1. bound \in Seq(range)
    BY <1>3
  <2>2. /\ DOMAIN Append(bound, approval) = 1..(Len(bound) + 1)
        /\ \A i \in 1..Len(bound) : Append(bound, approval)[i] = bound[i]
        /\ Append(bound, approval)[Len(bound) + 1] = approval
    BY <1>6, <2>1, Appended
  <2>3. Len(bound) = 3 /\ Len(bound) + 1 = 4
    BY <1>3
  <2>4. QED
    BY <2>2, <2>3, Zenon
<1>8. CASE Obligations(p, view, PostgresFailoverPolicyProfile) = bound
  BY <1>2, <1>5, <1>8
<1>9. CASE Obligations(p, view, PostgresFailoverPolicyProfile) = Append(bound, approval)
  BY <1>2, <1>7, <1>9 DEF approval
<1>10. QED
  BY <1>4, <1>8, <1>9

LEMMA LeastOfFour ==
  ASSUME NEW a \in Int, NEW b \in Int, NEW c \in Int, NEW d \in Int
  PROVE  LET least == Min({a} \cup {b, c, d}) IN
           /\ least \in Int /\ least <= b /\ least <= c /\ least <= d
<1> DEFINE S == {a} \cup {b, c, d}
<1>1. \E x \in S : \A y \in S : x <= y
  <2>1. \/ a <= b /\ a <= c /\ a <= d
        \/ b <= a /\ b <= c /\ b <= d
        \/ c <= a /\ c <= b /\ c <= d
        \/ d <= a /\ d <= b /\ d <= c
    OBVIOUS
  <2>2. QED
    BY <2>1
<1>2. Min(S) \in S /\ \A y \in S : Min(S) <= y
  <2>1. Min(S) = CHOOSE x \in S : \A y \in S : x <= y
    BY DEF Min
  <2> HIDE DEF S
  <2>2. QED
    BY <1>1, <2>1
<1>3. Min(S) <= b /\ Min(S) <= c /\ Min(S) <= d
  <2>1. b \in S /\ c \in S /\ d \in S
    OBVIOUS
  <2> HIDE DEF S
  <2>2. QED
    BY <1>2, <2>1
<1>4. S \subseteq Int
  OBVIOUS
<1> HIDE DEF S
<1>5. QED
  BY <1>2, <1>3, <1>4 DEF S

(* A permit of this policy rests on a receipt that speaks well of the      *)
(* candidate for each rule, and dies with each of them.                    *)
RestsOn(verdict, a, receipts) ==
  /\ verdict.certificate.expiresAt \in Int
  /\ \A i \in 1..3 : \E r \in receipts :
       /\ InspectedFor(r, a, i) /\ SaysFit(r, i)
       /\ verdict.certificate.expiresAt <= r.observedAt + MaxFreshness(i)

LEMMA PermitOfThePolicy ==
  ASSUME NEW a, NEW receipts, Inspected(a, receipts, 3), NEW p, NEW view,
         NEW context, context.time \in Int,
         Evaluation(p, view, PostgresFailoverPolicyProfile, receipts, context).kind = "PERMIT"
  PROVE  RestsOn(Evaluation(p, view, PostgresFailoverPolicyProfile, receipts, context),
                 a, receipts)
<1> DEFINE obligations == Obligations(p, view, PostgresFailoverPolicyProfile)
           Result(o) == Discharge(o, receipts, view, context.time, context.profiles)
           At(i) == [ index |-> i, obligation |-> obligations[i],
                      kind |-> Result(obligations[i]).kind,
                      witness |-> Result(obligations[i]).witness ]
           outcomes == {At(i) : i \in DOMAIN obligations}
           satisfied == {x \in outcomes : x.obligation.required /\ x.kind = "SATISFIED"}
           verdict == Evaluation(p, view, PostgresFailoverPolicyProfile, receipts, context)
           decided == Admission(p, view, PostgresFailoverPolicyProfile, context, outcomes)
           expiry == CertificateExpiry(satisfied, context.time)
<1>1. verdict = decided
  BY DEF Evaluation, Verdict
<1>2. /\ \A x \in outcomes : x.obligation.required => x.kind \notin {"VIOLATED", "UNKNOWN"}
      /\ verdict.certificate.expiresAt = expiry
  <2> HIDE DEF outcomes, verdict
  <2>1. decided.kind = "PERMIT"
    BY <1>1 DEF verdict
  <2>2. QED
    BY <1>1, <2>1 DEF Admission, Verdict, Certificate
<1>3. \A o : Result(o).kind \in {"SATISFIED", "VIOLATED", "UNKNOWN"}
  BY DEF Discharge, DischargeFrom, Unknown
<1>4. \A i \in DOMAIN obligations :
        obligations[i].required => Result(obligations[i]).kind = "SATISFIED"
  <2>1. TAKE i \in DOMAIN obligations
  <2>2. At(i) \in outcomes /\ At(i).obligation = obligations[i]
        /\ At(i).kind = Result(obligations[i]).kind
    OBVIOUS
  <2> HIDE DEF outcomes, At, Result, obligations
  <2>3. QED
    BY <1>2, <1>3, <2>2
<1>5. /\ \A i \in 1..3 : AsRuled(obligations[i], i)
      /\ \/ DOMAIN obligations = 1..3
         \/ DOMAIN obligations = 1..4 /\ obligations[4] = HumanApproval(p.scope)
  BY ObligationsOfThePolicy
<1> HIDE DEF obligations, verdict, decided
<1>6. DOMAIN obligations = 1..3
  <2>1. Result(HumanApproval(p.scope)).kind = "UNKNOWN"
    BY ApprovalStaysOpen
  <2>2. HumanApproval(p.scope).required
    BY DEF HumanApproval
  <2> HIDE DEF Result
  <2>3. QED
    BY <1>4, <1>5, <2>1, <2>2
<1>7. \A i \in 1..3 : \E r \in receipts :
        Result(obligations[i]).witness = {r} /\ InspectedFor(r, a, i) /\ SaysFit(r, i)
  <2>1. TAKE i \in 1..3
  <2>2. AsRuled(obligations[i], i) /\ Result(obligations[i]).kind = "SATISFIED"
    <3> HIDE DEF Result
    <3>1. QED
      BY <1>4, <1>5, <1>6 DEF AsRuled
  <2>3. QED
    BY <2>2, DischargeOfRule DEF AsRuled
<1> DEFINE ReceiptOf(i) == CHOOSE r \in receipts :
             Result(obligations[i]).witness = {r} /\ InspectedFor(r, a, i) /\ SaysFit(r, i)
<1>8. \A i \in 1..3 : /\ ReceiptOf(i) \in receipts
                      /\ Result(obligations[i]).witness = {ReceiptOf(i)}
                      /\ InspectedFor(ReceiptOf(i), a, i) /\ SaysFit(ReceiptOf(i), i)
  <2> HIDE DEF Result
  <2>1. QED
    BY <1>7
<1> HIDE DEF ReceiptOf
<1>9. \A i \in 1..3 : /\ At(i).index = i /\ At(i).witness = {ReceiptOf(i)}
                      /\ At(i).obligation.maxFreshness = MaxFreshness(i)
  <2> HIDE DEF Result
  <2>1. QED
    BY <1>5, <1>8 DEF AsRuled, MaxFreshness
<1>10. satisfied = {At(1), At(2), At(3)}
  <2>1. \A i \in 1..3 : At(i).obligation.required /\ At(i).kind = "SATISFIED"
    <3> HIDE DEF Result
    <3>1. QED
      BY <1>4, <1>5, <1>6 DEF AsRuled
  <2>2. outcomes = {At(i) : i \in 1..3}
    BY <1>6
  <2> HIDE DEF At, outcomes
  <2>3. \A x \in outcomes : x.obligation.required /\ x.kind = "SATISFIED"
    BY <2>1, <2>2
  <2>4. satisfied = outcomes
    BY <2>3
  <2>5. outcomes = {At(1), At(2), At(3)}
    <3>1. \A i \in 1..3 : i = 1 \/ i = 2 \/ i = 3
      OBVIOUS
    <3>2. 1 \in 1..3 /\ 2 \in 1..3 /\ 3 \in 1..3
      OBVIOUS
    <3>3. QED
      BY <2>2, <3>1, <3>2, Zenon
  <2>6. QED
    BY <2>4, <2>5
<1> HIDE DEF At, Result, outcomes, satisfied
<1>11. \A i \in 1..3 : ReceiptOfId(ReceiptOf(i).id, satisfied) = ReceiptOf(i)
  <2>1. TAKE i \in 1..3
  <2> DEFINE r == ReceiptOf(i)
             citing == {x \in satisfied : \E q \in x.witness : q.id = r.id}
  <2>2. ASSUME NEW j \in 1..3, NEW q \in At(j).witness, q.id = r.id
        PROVE  q = r
    BY <1>8, <1>9, <2>2 DEF Inspected
  <2>3. \A x \in citing : x.index = i /\ x.witness = {r}
    <3>1. TAKE x \in citing
    <3>2. PICK j \in 1..3 : x = At(j)
      BY <1>10
    <3>3. ReceiptOf(j) = r /\ x.witness = {r} /\ x.index = j
      BY <1>9, <2>2, <3>2
    <3>4. RuleId(j) = RuleId(i)
      BY <1>8, <3>3 DEF InspectedFor
    <3>5. j = i
      BY <3>4, RulesOfThePolicy DEF RuleId
    <3>6. QED
      BY <3>3, <3>5
  <2>4. At(i) \in citing
    <3>1. At(i) \in satisfied
      <4>1. i = 1 \/ i = 2 \/ i = 3
        OBVIOUS
      <4>2. QED
        BY <1>10, <4>1
    <3>2. QED
      BY <1>9, <3>1
  <2> DEFINE last == CHOOSE x \in citing : \A y \in citing : y.index <= x.index
  <2>5. last \in citing
    <3>1. \A y \in citing : y.index <= At(i).index
      BY <1>9, <2>3
    <3> HIDE DEF citing
    <3>2. QED
      BY <2>4, <3>1
  <2> HIDE DEF last
  <2>6. (CHOOSE q \in last.witness : q.id = r.id) = r
    BY <2>3, <2>5
  <2>7. QED
    BY <2>6 DEF ReceiptOfId, last
<1> DEFINE Limit(i) == ReceiptOf(i).observedAt + MaxFreshness(i)
<1>12. WitnessExpirations(satisfied) = {Limit(1), Limit(2), Limit(3)}
  <2> DEFINE Limits(x) ==
        {ReceiptOfId(r.id, satisfied).observedAt + x.obligation.maxFreshness : r \in x.witness}
  <2>1. \A i \in 1..3 : Limits(At(i)) = {Limit(i)}
    BY <1>9, <1>11
  <2>2. WitnessExpirations(satisfied) = UNION {Limits(x) : x \in satisfied}
    BY DEF WitnessExpirations
  <2> HIDE DEF Limits, Limit
  <2>3. Limits(At(1)) = {Limit(1)} /\ Limits(At(2)) = {Limit(2)} /\ Limits(At(3)) = {Limit(3)}
    <3>1. 1 \in 1..3 /\ 2 \in 1..3 /\ 3 \in 1..3
      OBVIOUS
    <3>2. QED
      BY <2>1, <3>1, Zenon
  <2>4. UNION {Limits(x) : x \in satisfied}
          = Limits(At(1)) \cup Limits(At(2)) \cup Limits(At(3))
    BY <1>10
  <2>5. QED
    BY <2>2, <2>3, <2>4
<1>13. \A i \in 1..3 : Limit(i) \in Int
  BY <1>8, RulesOfThePolicy DEF InspectedFor, MaxFreshness
<1>14. expiry \in Int /\ \A i \in 1..3 : expiry <= Limit(i)
  <2>1. context.time + MaxTtl \in Int
    BY PostgresLoopAssumption
  <2>2. Limit(1) \in Int /\ Limit(2) \in Int /\ Limit(3) \in Int
    BY <1>13
  <2>3. expiry = Min({context.time + MaxTtl} \cup {Limit(1), Limit(2), Limit(3)})
    BY <1>12 DEF CertificateExpiry
  <2> HIDE DEF expiry, Limit
  <2>4. expiry \in Int /\ expiry <= Limit(1) /\ expiry <= Limit(2) /\ expiry <= Limit(3)
    BY <2>1, <2>2, <2>3, LeastOfFour
  <2>5. \A i \in 1..3 : i = 1 \/ i = 2 \/ i = 3
    OBVIOUS
  <2>6. QED
    BY <2>4, <2>5
<1> HIDE DEF expiry
<1>15. RestsOn(verdict, a, receipts)
  BY <1>2, <1>8, <1>14 DEF RestsOn
<1>16. QED
  BY <1>15 DEF verdict

------------------------------------------------------------------------------
(* The history remembers what holds, and a step only adds to it.           *)
Remembered ==
  /\ DOMAIN cluster.nodes \subseteq Nodes
  /\ lastHeld = HeldNow(cluster, now, lastHeld)
  /\ \A i \in 1..2 : \A n \in Nodes : lastHeld[i][n] \in Int /\ lastHeld[i][n] <= now

(* What an agent has seen, been certified and had checked of its candidate *)
(* was true no longer ago than it says.                                    *)
FitFor(a) ==
  /\ seen[a] \in 0..3 /\ Inspected(a, pool[a], seen[a])
  /\ Candidate(a) \in DOMAIN cluster.nodes =>
       \A i \in 1..2 :
         /\ \A r \in pool[a] :
              InspectedFor(r, a, i) /\ SaysFit(r, i)
                => r.observedAt <= lastHeld[i][Candidate(a)]
         /\ phase[a] = "present" =>
              /\ certificate[a].expiresAt \in Int
              /\ certificate[a].expiresAt <= lastHeld[i][Candidate(a)] + MaxFreshness(i)
         /\ phase[a] \in {"execute", "done"} => truthAge[a][i] <= MaxFreshness(i)
  /\ a \in Promotions => Candidate(a) \in DOMAIN cluster.nodes

FitInv ==
  /\ DOMAIN seen = Agents /\ DOMAIN pool = Agents /\ DOMAIN certificate = Agents
  /\ DOMAIN truthAge = Agents
  /\ Remembered
  /\ \A a \in Agents : FitFor(a)

LEMMA HeldNowOf ==
  ASSUME NEW c, NEW time, NEW before, NEW i \in 1..2, NEW n \in Nodes
  PROVE  HeldNow(c, time, before)[i][n] = IF HoldsOf(i, c, n) THEN time ELSE before[i][n]
BY DEF HeldNow

(* Time and the clusters to come only add to what has held.                *)
Adds ==
  /\ Remembered'
  /\ DOMAIN cluster'.nodes = DOMAIN cluster.nodes
  /\ \A i \in 1..2 : \A n \in Nodes : lastHeld[i][n] <= lastHeld'[i][n]

LEMMA HistoryAdds ==
  ASSUME Remembered, now \in Int, now' \in Int, now <= now',
         DOMAIN cluster'.nodes = DOMAIN cluster.nodes,
         lastHeld' = HeldNow(cluster', now', lastHeld)
  PROVE  Adds
<1>1. ASSUME NEW i \in 1..2, NEW n \in Nodes
      PROVE  /\ lastHeld'[i][n] \in Int /\ lastHeld'[i][n] <= now'
             /\ lastHeld[i][n] <= lastHeld'[i][n]
             /\ HoldsOf(i, cluster', n) => lastHeld'[i][n] = now'
  <2>1. lastHeld'[i][n] = IF HoldsOf(i, cluster', n) THEN now' ELSE lastHeld[i][n]
    BY HeldNowOf
  <2>2. lastHeld[i][n] \in Int /\ lastHeld[i][n] <= now
    BY DEF Remembered
  <2>3. QED
    BY <2>1, <2>2
<1>2. lastHeld' = HeldNow(cluster', now', lastHeld')
  <2>1. \A i \in 1..2 : \A n \in Nodes :
          (IF HoldsOf(i, cluster', n) THEN now' ELSE lastHeld'[i][n])
            = (IF HoldsOf(i, cluster', n) THEN now' ELSE lastHeld[i][n])
    <3>1. ASSUME NEW i \in 1..2, NEW n \in Nodes
          PROVE  lastHeld'[i][n] = IF HoldsOf(i, cluster', n) THEN now' ELSE lastHeld[i][n]
      BY HeldNowOf
    <3>2. QED
      BY <3>1
  <2>2. HeldNow(cluster', now', lastHeld') = HeldNow(cluster', now', lastHeld)
    BY <2>1 DEF HeldNow
  <2>3. QED
    BY <2>2
<1>3. Remembered'
  BY <1>1, <1>2 DEF Remembered
<1>4. QED
  BY <1>1, <1>3 DEF Adds

(* A step that leaves the agent itself alone.                              *)
LEMMA BystanderStaysFit ==
  ASSUME NEW a \in Agents, FitFor(a), Remembered, Adds, Candidate(a)' = Candidate(a),
         UNCHANGED <<seen[a], pool[a], phase[a], certificate[a], truthAge[a]>>,
         a \in Promotions' => a \in Promotions
  PROVE  FitFor(a)'
<1>1. seen'[a] \in 0..3 /\ Inspected(a, pool'[a], seen'[a])
  BY DEF FitFor
<1>2. ASSUME Candidate(a) \in DOMAIN cluster.nodes, NEW i \in 1..2
      PROVE  /\ \A r \in pool[a] :
                  InspectedFor(r, a, i) /\ SaysFit(r, i)
                    => r.observedAt <= lastHeld'[i][Candidate(a)]
             /\ phase[a] = "present" =>
                  /\ certificate[a].expiresAt \in Int
                  /\ certificate[a].expiresAt
                       <= lastHeld'[i][Candidate(a)] + MaxFreshness(i)
             /\ phase[a] \in {"execute", "done"} => truthAge[a][i] <= MaxFreshness(i)
  <2>1. /\ lastHeld[i][Candidate(a)] \in Int /\ lastHeld'[i][Candidate(a)] \in Int
        /\ lastHeld[i][Candidate(a)] <= lastHeld'[i][Candidate(a)]
        /\ MaxFreshness(i) \in Int
    BY <1>2, RulesOfThePolicy DEF Remembered, Adds, MaxFreshness
  <2>2. ASSUME NEW r \in pool[a], InspectedFor(r, a, i), SaysFit(r, i)
        PROVE  r.observedAt <= lastHeld'[i][Candidate(a)]
    <3>1. r.observedAt \in Int /\ r.observedAt <= lastHeld[i][Candidate(a)]
      BY <1>2, <2>2 DEF FitFor, InspectedFor
    <3>2. QED
      BY <2>1, <3>1
  <2>3. ASSUME phase[a] = "present"
        PROVE  /\ certificate[a].expiresAt \in Int
               /\ certificate[a].expiresAt <= lastHeld'[i][Candidate(a)] + MaxFreshness(i)
    <3>1. /\ certificate[a].expiresAt \in Int
          /\ certificate[a].expiresAt <= lastHeld[i][Candidate(a)] + MaxFreshness(i)
      BY <1>2, <2>3 DEF FitFor
    <3>2. QED
      BY <2>1, <3>1
  <2>4. phase[a] \in {"execute", "done"} => truthAge[a][i] <= MaxFreshness(i)
    BY <1>2 DEF FitFor
  <2>5. QED
    BY <2>2, <2>3, <2>4
<1>3. DOMAIN cluster'.nodes = DOMAIN cluster.nodes
  BY DEF Adds
<1>4. a \in Promotions' => Candidate(a) \in DOMAIN cluster.nodes
  BY DEF FitFor
<1>5. /\ (seen[a] \in 0..3 /\ Inspected(a, pool[a], seen[a]))'
      /\ (Candidate(a) \in DOMAIN cluster.nodes)' = (Candidate(a) \in DOMAIN cluster.nodes)
      /\ (a \in Promotions)' = (a \in Promotions')
  BY <1>1, <1>3
<1>6. QED
  BY <1>2, <1>4, <1>5 DEF FitFor, InspectedFor, SaysFit, MaxFreshness

(* An inspection sees what is so now.                                      *)
LEMMA InspectionTellsTheTruth ==
  ASSUME NEW a \in Agents, NEW n \in 1..3, now \in Int
  PROVE  LET r == Receipt(a, RuleId(n)) IN
           /\ InspectedFor(r, a, n) /\ r.observedAt = now
           /\ SaysFit(r, n) /\ Candidate(a) \in DOMAIN cluster.nodes
                => HoldsOf(n, cluster, Candidate(a))
<1> DEFINE r == Receipt(a, RuleId(n))
<1>1. n = 1 \/ n = 2 \/ n = 3
  OBVIOUS
<1>2. /\ r.id = <<a, RuleId(n)>> /\ r.observedAt = now
      /\ r.claim = Claim(RuleId(n), cluster, Candidate(a))
      /\ r.class = IF RuleId(n) = "omega-3-rollback-artifact"
                     THEN "ROLLBACK_ATTESTATION" ELSE "POSTGRES_TELEMETRY"
  BY DEF Receipt
<1> HIDE DEF r
<1>3. CASE n = 1
  <2>1. RuleId(n) = "omega-1-replication-lag"
    BY <1>3, RulesOfThePolicy DEF RuleId
  <2>2. r.claim = ReplicationClaim(cluster, Candidate(a)) /\ r.class = ClassOf(n)
    BY <1>2, <1>3, <2>1 DEF Claim, ClassOf
  <2>3. DOMAIN r.claim = FieldsOf(n)
    BY <1>3, <2>2 DEF ReplicationClaim, FieldsOf
  <2>4. InspectedFor(r, a, n)
    BY <1>2, <2>2, <2>3 DEF InspectedFor
  <2>5. ASSUME SaysFit(r, n), Candidate(a) \in DOMAIN cluster.nodes
        PROVE  HoldsOf(n, cluster, Candidate(a))
    <3>1. r.claim["replicationLagBytes"] = GetNode(cluster, Candidate(a)).lag
      BY <2>2, <2>5 DEF ReplicationClaim
    <3>2. GetNode(cluster, Candidate(a)).lag \in 0..LagBound
      BY <1>3, <2>5, <3>1 DEF SaysFit
    <3>3. GetNode(cluster, Candidate(a)).lag <= LagBound
      BY <3>2
    <3>4. QED
      BY <1>3, <2>5, <3>3 DEF HoldsOf
  <2>6. QED
    BY <1>2, <2>4, <2>5 DEF r
<1>4. CASE n = 2
  <2>1. RuleId(n) = "omega-2-standby-health"
    BY <1>4, RulesOfThePolicy DEF RuleId
  <2>2. r.claim = StandbyHealthClaim(cluster, Candidate(a)) /\ r.class = ClassOf(n)
    BY <1>2, <1>4, <2>1 DEF Claim, ClassOf
  <2>3. DOMAIN r.claim = FieldsOf(n)
    BY <1>4, <2>2 DEF StandbyHealthClaim, FieldsOf
  <2>4. InspectedFor(r, a, n)
    BY <1>2, <2>2, <2>3 DEF InspectedFor
  <2>5. ASSUME SaysFit(r, n), Candidate(a) \in DOMAIN cluster.nodes
        PROVE  HoldsOf(n, cluster, Candidate(a))
    <3>1. r.claim["role"] = GetNode(cluster, Candidate(a)).role
      BY <2>2, <2>5 DEF StandbyHealthClaim
    <3>2. r.claim["is_in_recovery"] = TRUE /\ r.claim["role"] = "standby"
      BY <1>4, <2>5 DEF SaysFit
    <3>3. StandbyHealthClaim(cluster, Candidate(a)).is_in_recovery = TRUE
      BY <2>2, <3>2
    <3>4. GetNode(cluster, Candidate(a)).isInRecovery
      BY <3>3 DEF StandbyHealthClaim
    <3>5. QED
      BY <1>4, <2>5, <3>1, <3>2, <3>4 DEF HoldsOf
  <2>6. QED
    BY <1>2, <2>4, <2>5 DEF r
<1>5. CASE n = 3
  <2>1. RuleId(n) = "omega-3-rollback-artifact"
    BY <1>5, RulesOfThePolicy DEF RuleId
  <2>2. r.claim = RollbackClaim /\ r.class = ClassOf(n)
    BY <1>2, <1>5, <2>1 DEF Claim, ClassOf
  <2>3. DOMAIN r.claim = FieldsOf(n)
    BY <1>5, <2>2 DEF RollbackClaim, FieldsOf
  <2>4. InspectedFor(r, a, n)
    BY <1>2, <2>2, <2>3 DEF InspectedFor
  <2>5. QED
    BY <1>2, <1>5, <2>4 DEF r, HoldsOf
<1>6. QED
  BY <1>1, <1>3, <1>4, <1>5

LEMMA FitInvInit == Init => FitInv
<1> SUFFICES ASSUME Init PROVE FitInv
  OBVIOUS
<1>1. PICK p \in Nodes, s \in Nodes, f \in FaultStates :
        cluster = InjectFault(NewCluster(p, s), f)
  BY PostgresLoopAssumption DEF Init
<1>2. DOMAIN cluster.nodes \subseteq Nodes
  BY <1>1 DEF InjectFault, NewCluster
<1>3. now = 0 /\ lastHeld = HeldNow(cluster, now, Never)
  BY DEF Init
<1>4. ASSUME NEW i \in 1..2, NEW n \in Nodes
      PROVE  /\ lastHeld[i][n] = IF HoldsOf(i, cluster, n) THEN now ELSE Never[i][n]
             /\ lastHeld[i][n] \in Int /\ lastHeld[i][n] <= now
  <2>1. lastHeld[i][n] = IF HoldsOf(i, cluster, n) THEN now ELSE Never[i][n]
    BY <1>3, HeldNowOf
  <2>2. Never[i][n] \in Int /\ Never[i][n] <= 0
    BY PostgresLoopAssumption DEF Never
  <2>3. QED
    BY <1>3, <2>1, <2>2
<1>5. lastHeld = HeldNow(cluster, now, lastHeld)
  <2>1. \A i \in 1..2 : \A n \in Nodes :
          (IF HoldsOf(i, cluster, n) THEN now ELSE lastHeld[i][n])
            = (IF HoldsOf(i, cluster, n) THEN now ELSE Never[i][n])
    BY <1>4
  <2>2. HeldNow(cluster, now, lastHeld) = HeldNow(cluster, now, Never)
    BY <2>1 DEF HeldNow
  <2>3. QED
    BY <1>3, <2>2
<1>6. Remembered
  BY <1>2, <1>4, <1>5 DEF Remembered
<1>7. ASSUME NEW a \in Agents PROVE FitFor(a)
  BY DEF Init, FitFor, Inspected, Promotions
<1>8. QED
  BY <1>6, <1>7 DEF Init, FitInv

(* The agents that a step of one of them leaves alone.                     *)
LEMMA OthersStayFit ==
  ASSUME FitInv, Adds, NEW a \in Agents, proposal' = proposal, Promotions' \subseteq Promotions,
         NEW b \in Agents \ {a},
         UNCHANGED <<seen[b], pool[b], phase[b], certificate[b], truthAge[b]>>
  PROVE  FitFor(b)'
<1>1. Candidate(b)' = Candidate(b)
  BY DEF Candidate
<1>2. QED
  BY <1>1, BystanderStaysFit DEF FitInv

LEMMA InspectStaysFit ==
  ASSUME PostgresInv, FitInv, NEW a \in Agents, Inspect(a)
  PROVE  FitInv'
<1> DEFINE n == seen[a] + 1
           r == Receipt(a, RuleId(n))
<1>1. /\ n \in 1..3 /\ seen' = [seen EXCEPT ![a] = n]
      /\ pool' = [pool EXCEPT ![a] = pool[a] \cup {r}]
      /\ phase[a] = "inspect"
      /\ UNCHANGED <<now, cluster, dryRun, proposal, phase, certificate, outcome, lastHeld,
                     truthAge>>
  <2>1. n \in 1..3
    <3>1. seen[a] \in 0..3 /\ seen[a] < 3
      BY RulesOfThePolicy DEF Inspect, FitInv, FitFor
    <3>2. QED
      BY <3>1
  <2>2. seen'[a] = n
    BY DEF Inspect, FitInv
  <2>3. /\ seen' = [seen EXCEPT ![a] = n]
        /\ LET rule == PostgresFailoverPolicyProfile.rules[seen'[a]].id IN
             pool' = [pool EXCEPT ![a] = pool[a] \cup {Receipt(a, rule)}]
        /\ phase[a] = "inspect"
        /\ UNCHANGED <<now, cluster, dryRun, proposal, phase, certificate, outcome, lastHeld,
                       truthAge>>
    BY DEF Inspect, runVars
  <2>4. pool' = [pool EXCEPT ![a] = pool[a] \cup {r}]
    BY <2>2, <2>3 DEF RuleId
  <2> HIDE DEF r
  <2>5. QED
    BY <2>1, <2>3, <2>4
<1> HIDE DEF r
<1>2. now \in Int
  BY DEF PostgresInv, TypeOK
<1>3. Adds
  BY <1>1, <1>2, HistoryAdds DEF FitInv, Remembered
<1>4. Promotions' = Promotions
  BY <1>1 DEF Promotions
<1>5. Candidate(a)' = Candidate(a) /\ cluster' = cluster /\ lastHeld' = lastHeld
  BY <1>1 DEF Candidate
<1>6. /\ InspectedFor(r, a, n) /\ r.observedAt = now
      /\ SaysFit(r, n) /\ Candidate(a) \in DOMAIN cluster.nodes
           => HoldsOf(n, cluster, Candidate(a))
  BY <1>1, <1>2, InspectionTellsTheTruth DEF r
<1>7. FitFor(a)'
  <2>1. seen'[a] = n /\ pool'[a] = pool[a] \cup {r} /\ n \in 0..3
    BY <1>1 DEF FitInv
  <2>2. Inspected(a, pool[a], seen[a]) /\ seen[a] \in 0..3
    BY DEF FitInv, FitFor
  <2>3. Inspected(a, pool[a] \cup {r}, n)
    <3>1. \A q \in pool[a] : \E i \in 1..seen[a] : InspectedFor(q, a, i)
      BY <2>2 DEF Inspected
    <3>2. \A q \in pool[a] : q.id # r.id
      <4>1. TAKE q \in pool[a]
      <4>2. PICK i \in 1..seen[a] : InspectedFor(q, a, i)
        BY <3>1
      <4>3. i \in 1..3 /\ n \in 1..3 /\ i # n
        BY <1>1, <2>2
      <4>4. RuleId(i) # RuleId(n)
        <5>1. \A j \in 1..3 : j = 1 \/ j = 2 \/ j = 3
          OBVIOUS
        <5>2. QED
          BY <4>3, <5>1, RulesOfThePolicy DEF RuleId
      <4>5. QED
        BY <1>6, <4>2, <4>4 DEF InspectedFor
    <3>3. \A q \in pool[a] \cup {r} : \E i \in 1..n : InspectedFor(q, a, i)
      <4>1. 1..seen[a] \subseteq 1..n /\ n \in 1..n
        BY <2>2
      <4> HIDE DEF n
      <4>2. QED
        BY <1>6, <3>1, <4>1
    <3>4. QED
      BY <2>2, <3>2, <3>3 DEF Inspected
  <2>4. ASSUME Candidate(a) \in DOMAIN cluster.nodes, NEW i \in 1..2,
               NEW q \in pool[a] \cup {r}, InspectedFor(q, a, i), SaysFit(q, i)
        PROVE  q.observedAt <= lastHeld[i][Candidate(a)]
    <3>1. CASE q \in pool[a]
      BY <2>4, <3>1 DEF FitInv, FitFor
    <3>2. CASE q = r
      <4>1. i = n
        <5>1. RuleId(i) = RuleId(n)
          BY <1>6, <2>4, <3>2 DEF InspectedFor
        <5>2. \A j \in 1..3 : j = 1 \/ j = 2 \/ j = 3
          OBVIOUS
        <5>3. i \in 1..3
          OBVIOUS
        <5>4. QED
          BY <1>1, <5>1, <5>2, <5>3, RulesOfThePolicy DEF RuleId
      <4>2. HoldsOf(i, cluster, Candidate(a)) /\ Candidate(a) \in Nodes
        BY <1>6, <2>4, <3>2, <4>1 DEF FitInv, Remembered
      <4>3. lastHeld[i][Candidate(a)] = now
        <5>1. lastHeld = HeldNow(cluster, now, lastHeld)
          BY DEF FitInv, Remembered
        <5>2. HeldNow(cluster, now, lastHeld)[i][Candidate(a)] = now
          BY <4>2, HeldNowOf
        <5>3. QED
          BY <5>1, <5>2
      <4>4. QED
        BY <1>2, <1>6, <3>2, <4>3
    <3>3. QED
      BY <3>1, <3>2
  <2> HIDE DEF n
  <2>5. phase'[a] \notin {"present", "execute", "done"}
    BY <1>1
  <2>6. (a \in Promotions => Candidate(a) \in DOMAIN cluster.nodes)'
    BY <1>4, <1>5 DEF FitInv, FitFor
  <2>7. (\A i \in 1..2 : \A q \in pool[a] : Candidate(a) \in DOMAIN cluster.nodes
           /\ InspectedFor(q, a, i) /\ SaysFit(q, i)
              => q.observedAt <= lastHeld[i][Candidate(a)])'
    BY <1>5, <2>1, <2>4
  <2>8. (seen[a] \in 0..3 /\ Inspected(a, pool[a], seen[a]))'
    BY <2>1, <2>3
  <2>9. QED
    BY <2>5, <2>6, <2>7, <2>8 DEF FitFor
<1>8. \A b \in Agents \ {a} : FitFor(b)'
  <2>1. TAKE b \in Agents \ {a}
  <2>2. UNCHANGED <<seen[b], pool[b], phase[b], certificate[b], truthAge[b]>>
    BY <1>1 DEF FitInv
  <2>3. QED
    BY <1>1, <1>3, <1>4, <2>2, OthersStayFit
<1>9. QED
  BY <1>1, <1>3, <1>7, <1>8 DEF FitInv, Adds

LEMMA EvaluateStaysFit ==
  ASSUME PostgresInv, FitInv, NEW a \in Agents, Evaluate(a)
  PROVE  FitInv'
<1> DEFINE verdict == Evaluation(proposal[a], VisibleState(cluster, Candidate(a)),
                        PostgresFailoverPolicyProfile, pool[a], Context(a))
<1>1. /\ phase[a] = "inspect" /\ seen[a] = 3
      /\ UNCHANGED <<now, cluster, dryRun, proposal, seen, pool, outcome, lastHeld, truthAge>>
  BY RulesOfThePolicy DEF Evaluate, runVars
<1>2. \/ /\ verdict.kind = "PERMIT"
         /\ certificate' = [certificate EXCEPT ![a] = verdict.certificate]
         /\ phase' = [phase EXCEPT ![a] = "present"]
      \/ phase' = [phase EXCEPT ![a] = "closed"] /\ certificate' = certificate
  BY DEF Evaluate
<1>3. now \in Int /\ Inspected(a, pool[a], 3) /\ Context(a).time = now
  BY <1>1 DEF PostgresInv, TypeOK, FitInv, FitFor, Context
<1>4. verdict.kind = "PERMIT" => RestsOn(verdict, a, pool[a])
  BY <1>3, PermitOfThePolicy
<1> HIDE DEF verdict
<1>5. Adds
  BY <1>1, <1>3, HistoryAdds DEF FitInv, Remembered
<1>6. Promotions' = Promotions /\ Candidate(a)' = Candidate(a)
  BY <1>1 DEF Promotions, Candidate
<1>7. FitFor(a)'
  <2>1. (seen[a] \in 0..3 /\ Inspected(a, pool[a], seen[a]))'
    BY <1>1 DEF FitInv, FitFor
  <2>2. (a \in Promotions => Candidate(a) \in DOMAIN cluster.nodes)'
    BY <1>1, <1>6 DEF FitInv, FitFor
  <2>3. (Candidate(a) \in DOMAIN cluster.nodes =>
           \A i \in 1..2 : \A r \in pool[a] :
             InspectedFor(r, a, i) /\ SaysFit(r, i)
               => r.observedAt <= lastHeld[i][Candidate(a)])'
    BY <1>1, <1>6 DEF FitInv, FitFor, InspectedFor, SaysFit
  <2>4. phase'[a] \notin {"execute", "done"}
    BY <1>2 DEF PostgresInv, TypeOK
  <2>5. ASSUME phase'[a] = "present", Candidate(a) \in DOMAIN cluster.nodes, NEW i \in 1..2
        PROVE  /\ certificate'[a].expiresAt \in Int
               /\ certificate'[a].expiresAt <= lastHeld[i][Candidate(a)] + MaxFreshness(i)
    <3>1. verdict.kind = "PERMIT" /\ certificate'[a] = verdict.certificate
      BY <1>2, <2>5 DEF PostgresInv, TypeOK, FitInv
    <3>2. i \in 1..3
      OBVIOUS
    <3>3. PICK r \in pool[a] :
            /\ InspectedFor(r, a, i) /\ SaysFit(r, i)
            /\ verdict.certificate.expiresAt <= r.observedAt + MaxFreshness(i)
      BY <1>4, <3>1, <3>2 DEF RestsOn
    <3>4. r.observedAt <= lastHeld[i][Candidate(a)] /\ r.observedAt \in Int
      BY <2>5, <3>3 DEF FitInv, FitFor, InspectedFor
    <3>5. /\ lastHeld[i][Candidate(a)] \in Int /\ MaxFreshness(i) \in Int
          /\ verdict.certificate.expiresAt \in Int
      BY <1>4, <2>5, <3>1, <3>2, RulesOfThePolicy
         DEF FitInv, Remembered, RestsOn, MaxFreshness
    <3>6. QED
      BY <3>1, <3>3, <3>4, <3>5
  <2>6. (Candidate(a) \in DOMAIN cluster.nodes =>
           \A i \in 1..2 : phase[a] = "present" =>
             /\ certificate[a].expiresAt \in Int
             /\ certificate[a].expiresAt <= lastHeld[i][Candidate(a)] + MaxFreshness(i))'
    BY <1>1, <1>6, <2>5 DEF MaxFreshness
  <2>7. QED
    BY <2>1, <2>2, <2>3, <2>4, <2>6 DEF FitFor
<1>8. \A b \in Agents \ {a} : FitFor(b)'
  <2>1. TAKE b \in Agents \ {a}
  <2>2. phase'[b] = phase[b] /\ certificate'[b] = certificate[b]
    BY <1>2 DEF FitInv, PostgresInv, TypeOK
  <2>3. UNCHANGED <<seen[b], pool[b], phase[b], certificate[b], truthAge[b]>>
    BY <1>1, <2>2
  <2>4. QED
    BY <1>1, <1>5, <1>6, <2>3, OthersStayFit
<1>9. DOMAIN certificate' = Agents
  BY <1>2 DEF FitInv
<1>10. QED
  BY <1>1, <1>5, <1>7, <1>8, <1>9 DEF FitInv, Adds

(* The gateway lets nothing pass after the certificate's expiry.           *)
LEMMA PresentStaysFit ==
  ASSUME PostgresInv, FitInv, NEW a \in Agents, Present(a)
  PROVE  FitInv'
<1>1. /\ phase[a] = "present"
      /\ truthAge' = [truthAge EXCEPT
           ![a] = [i \in 1..2 |-> now - lastHeld[i][Candidate(a)]]]
      /\ UNCHANGED <<now, cluster, dryRun, proposal, seen, pool, certificate, outcome,
                     lastHeld>>
  BY DEF Present, runVars
<1>2. \/ phase' = [phase EXCEPT ![a] = "execute"] /\ now <= certificate[a].expiresAt
      \/ phase' = [phase EXCEPT ![a] = "blocked"]
  BY DEF Present, PresentationValid
<1>3. now \in Int
  BY DEF PostgresInv, TypeOK
<1>4. Adds
  BY <1>1, <1>3, HistoryAdds DEF FitInv, Remembered
<1>5. Promotions' = Promotions /\ Candidate(a)' = Candidate(a)
  BY <1>1 DEF Promotions, Candidate
<1>6. FitFor(a)'
  <2>1. (seen[a] \in 0..3 /\ Inspected(a, pool[a], seen[a]))'
    BY <1>1 DEF FitInv, FitFor
  <2>2. (a \in Promotions => Candidate(a) \in DOMAIN cluster.nodes)'
    BY <1>1, <1>5 DEF FitInv, FitFor
  <2>3. (Candidate(a) \in DOMAIN cluster.nodes =>
           \A i \in 1..2 : \A r \in pool[a] :
             InspectedFor(r, a, i) /\ SaysFit(r, i)
               => r.observedAt <= lastHeld[i][Candidate(a)])'
    BY <1>1, <1>5 DEF FitInv, FitFor, InspectedFor, SaysFit
  <2>4. phase'[a] # "present"
    BY <1>2 DEF PostgresInv, TypeOK
  <2>5. ASSUME phase'[a] \in {"execute", "done"}, Candidate(a) \in DOMAIN cluster.nodes,
               NEW i \in 1..2
        PROVE  truthAge'[a][i] <= MaxFreshness(i)
    <3>1. now <= certificate[a].expiresAt
      BY <1>2, <2>5 DEF PostgresInv, TypeOK
    <3>2. /\ certificate[a].expiresAt \in Int
          /\ certificate[a].expiresAt <= lastHeld[i][Candidate(a)] + MaxFreshness(i)
      BY <1>1, <2>5 DEF FitInv, FitFor
    <3>3. lastHeld[i][Candidate(a)] \in Int /\ MaxFreshness(i) \in Int
      BY <2>5, RulesOfThePolicy DEF FitInv, Remembered, MaxFreshness
    <3>4. truthAge'[a][i] = now - lastHeld[i][Candidate(a)]
      BY <1>1 DEF FitInv
    <3>5. QED
      BY <1>3, <3>1, <3>2, <3>3, <3>4
  <2>6. (Candidate(a) \in DOMAIN cluster.nodes =>
           \A i \in 1..2 : phase[a] \in {"execute", "done"} =>
             truthAge[a][i] <= MaxFreshness(i))'
    BY <1>1, <1>5, <2>5 DEF MaxFreshness
  <2>7. QED
    BY <2>1, <2>2, <2>3, <2>4, <2>6 DEF FitFor
<1>7. \A b \in Agents \ {a} : FitFor(b)'
  <2>1. TAKE b \in Agents \ {a}
  <2>2. phase'[b] = phase[b] /\ truthAge'[b] = truthAge[b]
    BY <1>1, <1>2 DEF FitInv, PostgresInv, TypeOK
  <2>3. UNCHANGED <<seen[b], pool[b], phase[b], certificate[b], truthAge[b]>>
    BY <1>1, <2>2
  <2>4. QED
    BY <1>1, <1>4, <1>5, <2>3, OthersStayFit
<1>8. DOMAIN truthAge' = Agents
  BY <1>1 DEF FitInv
<1>9. QED
  BY <1>1, <1>4, <1>6, <1>7, <1>8 DEF FitInv, Adds

(* What is dispatched successfully was promotable, so a node of the        *)
(* cluster; promotions remove no node.                                     *)
LEMMA DispatchStaysFit ==
  ASSUME PostgresInv, FitInv, NEW a \in Agents, Dispatch(a)
  PROVE  FitInv'
<1> DEFINE result == Execute(cluster, proposal[a].action, proposal[a].params, dryRun)
<1>1. /\ phase[a] = "execute" /\ phase' = [phase EXCEPT ![a] = "done"]
      /\ cluster' = result.cluster
      /\ outcome' = [outcome EXCEPT ![a] = result.outcome]
      /\ lastHeld' = HeldNow(cluster', now, lastHeld)
      /\ UNCHANGED <<now, dryRun, proposal, seen, pool, certificate, truthAge>>
  BY DEF Dispatch, runVars
<1>2. /\ (result.outcome = "SUCCESS" /\ ~dryRun) =>
           /\ Promotable(cluster, Candidate(a))
           /\ result.cluster = Promoted(cluster, Candidate(a))
      /\ ~(result.outcome = "SUCCESS" /\ ~dryRun) => result.cluster = cluster
  BY ExecutionPromotes DEF PostgresInv, TypeOK, Candidate
<1> HIDE DEF result
<1>3. DOMAIN cluster'.nodes = DOMAIN cluster.nodes
  <2>1. DOMAIN Promoted(cluster, Candidate(a)).nodes = DOMAIN cluster.nodes
    BY DEF PostgresInv, ClusterShaped, Promoted
  <2>2. QED
    BY <1>1, <1>2, <2>1
<1>4. now \in Int
  BY DEF PostgresInv, TypeOK
<1>5. Adds
  BY <1>1, <1>3, <1>4, HistoryAdds DEF FitInv
<1>6. Candidate(a)' = Candidate(a)
  BY <1>1 DEF Candidate
<1>7. a \in Promotions' => Candidate(a) \in DOMAIN cluster.nodes
  BY <1>1, <1>2 DEF Promotions, Promotable, PostgresInv, TypeOK
<1>8. FitFor(a)'
  <2>1. (seen[a] \in 0..3 /\ Inspected(a, pool[a], seen[a]))'
    BY <1>1 DEF FitInv, FitFor
  <2>2. (a \in Promotions => Candidate(a) \in DOMAIN cluster.nodes)'
    BY <1>3, <1>6, <1>7
  <2>3. ASSUME Candidate(a) \in DOMAIN cluster.nodes, NEW i \in 1..2, NEW r \in pool[a],
               InspectedFor(r, a, i), SaysFit(r, i)
        PROVE  r.observedAt <= lastHeld'[i][Candidate(a)]
    <3>1. r.observedAt <= lastHeld[i][Candidate(a)] /\ r.observedAt \in Int
      BY <2>3 DEF FitInv, FitFor, InspectedFor
    <3>2. /\ lastHeld[i][Candidate(a)] \in Int /\ lastHeld'[i][Candidate(a)] \in Int
          /\ lastHeld[i][Candidate(a)] <= lastHeld'[i][Candidate(a)]
      BY <1>5, <2>3 DEF FitInv, Remembered, Adds
    <3>3. QED
      BY <3>1, <3>2
  <2>4. phase'[a] # "present"
    BY <1>1 DEF PostgresInv, TypeOK
  <2>5. (Candidate(a) \in DOMAIN cluster.nodes =>
           \A i \in 1..2 : truthAge[a][i] <= MaxFreshness(i))'
    BY <1>1, <1>3, <1>6 DEF FitInv, FitFor, MaxFreshness
  <2>6. (Candidate(a) \in DOMAIN cluster.nodes =>
           \A i \in 1..2 : \A r \in pool[a] :
             InspectedFor(r, a, i) /\ SaysFit(r, i)
               => r.observedAt <= lastHeld[i][Candidate(a)])'
    BY <1>1, <1>3, <1>6, <2>3 DEF InspectedFor, SaysFit
  <2>7. QED
    BY <2>1, <2>2, <2>4, <2>5, <2>6 DEF FitFor
<1>9. \A b \in Agents \ {a} : FitFor(b)'
  <2>1. TAKE b \in Agents \ {a}
  <2>2. UNCHANGED <<seen[b], pool[b], phase[b], certificate[b], truthAge[b], outcome[b]>>
    BY <1>1 DEF PostgresInv, TypeOK
  <2>3. b \in Promotions' => b \in Promotions
    BY <1>1, <2>2 DEF Promotions
  <2>4. Candidate(b)' = Candidate(b)
    BY <1>1 DEF Candidate
  <2>5. QED
    BY <1>5, <2>2, <2>3, <2>4, BystanderStaysFit DEF FitInv
<1>10. QED
  BY <1>1, <1>5, <1>8, <1>9 DEF FitInv, Adds

LEMMA FitInvStep ==
  ASSUME PostgresInv, PostgresInv', FitInv, [Next]_vars
  PROVE  FitInv'
<1>1. ASSUME UNCHANGED <<runVars, agentVars>>, now <= now',
             DOMAIN cluster'.nodes = DOMAIN cluster.nodes,
             lastHeld' = HeldNow(cluster', now', lastHeld)
      PROVE  FitInv'
  <2>1. now \in Int /\ now' \in Int
    BY DEF PostgresInv, TypeOK
  <2>2. Adds
    BY <1>1, <2>1, HistoryAdds DEF FitInv
  <2>3. Promotions' = Promotions
    BY <1>1 DEF Promotions, runVars, agentVars
  <2>4. \A a \in Agents : FitFor(a)'
    <3>1. TAKE a \in Agents
    <3>2. /\ UNCHANGED <<seen[a], pool[a], phase[a], certificate[a], truthAge[a]>>
          /\ Candidate(a)' = Candidate(a)
      BY <1>1 DEF runVars, agentVars, Candidate
    <3>3. QED
      BY <2>2, <2>3, <3>2, BystanderStaysFit DEF FitInv
  <2>5. QED
    BY <1>1, <2>2, <2>4 DEF FitInv, Adds, agentVars
<1>2. CASE Faults
  <2>1. DOMAIN cluster'.nodes = DOMAIN cluster.nodes
    <3>1. CASE \E faults \in InjectedFaults : cluster' = InjectFault(cluster, faults)
      BY <3>1 DEF PostgresInv, ClusterShaped, InjectFault
    <3>2. CASE cluster' = ClearFaults(cluster)
      BY <3>2 DEF PostgresInv, ClusterShaped, ClearFaults
    <3>3. QED
      BY <1>2, <3>1, <3>2 DEF Faults
  <2>2. now' = now /\ now \in Int
    BY <1>2 DEF Faults, PostgresInv, TypeOK
  <2>3. QED
    BY <1>1, <1>2, <2>1, <2>2 DEF Faults
<1>3. CASE Tick
  BY <1>1, <1>3 DEF Tick, PostgresInv, TypeOK
<1>4. CASE UNCHANGED vars
  <2>1. now' = now /\ now \in Int /\ cluster' = cluster /\ lastHeld' = lastHeld
        /\ UNCHANGED <<runVars, agentVars>>
    BY <1>4 DEF vars, PostgresInv, TypeOK
  <2>2. QED
    BY <1>1, <2>1 DEF FitInv, Remembered
<1>5. QED
  BY <1>2, <1>3, <1>4, InspectStaysFit, EvaluateStaysFit, PresentStaysFit, DispatchStaysFit
     DEF Next

(* A node that is promoted had its lag within bounds, and was a standby in *)
(* recovery, no longer before the gateway's check than each rule allows:   *)
(* for any number of agents and faults, however old the inspections and    *)
(* whatever was promoted in between.                                       *)
THEOREM PromotedNodesWereFit == Spec => []PromotedWasFit
<1>1. PostgresInv /\ FitInv /\ [Next]_vars => PostgresInv' /\ FitInv'
  BY PostgresInvStep, FitInvStep
<1>2. PostgresInv /\ FitInv => PromotedWasFit
  <2> SUFFICES ASSUME PostgresInv, FitInv, NEW a \in Promotions, NEW i \in 1..2
               PROVE  truthAge[a][i] <= PostgresFailoverPolicyProfile.rules[i].maxFreshness
    BY DEF PromotedWasFit
  <2>1. a \in Agents /\ phase[a] = "done"
    BY DEF PostgresInv, OutcomeWhenDone, Promotions
  <2>2. QED
    BY <2>1 DEF FitInv, FitFor, MaxFreshness
<1>3. QED
  BY PostgresInvInit, FitInvInit, <1>1, <1>2, PTL DEF Spec

=============================================================================
