----------------------------- MODULE PostgresLoop -----------------------------
(***************************************************************************)
(* Several agents that fail one PostgreSQL cluster over through the        *)
(* controller and the gateway, as the demo (bin/cac-demo.ts) and the       *)
(* failover benchmark (bench/postgres-failover/src/runner.ts) drive one:   *)
(* three inspections, an evaluation, the live state, the dispatch.  In     *)
(* between, and in the awaits of the gateway after which the adapter runs, *)
(* the other agents promote, faults are injected and cleared, time passes. *)
(***************************************************************************)
EXTENDS PostgresCluster, Controller, AdmissionValidation

CONSTANTS
  Agents, Proposals, InitialClusters,
  RuleFreshness,         \* rule id -> maxFreshnessMs
  InjectedFaults,        \* the fault states a test may inject
  MaxTime, MaxFaults     \* bounds of the model

NoCertificate == [wellFormed |-> FALSE]

VARIABLES
  now, injections,
  cluster,
  dryRun,        \* the adapter's dryRun, fixed for the run
  proposal,      \* agent -> what it asks for
  seen,          \* agent -> the number of rules it has inspected for
  pool,          \* agent -> its receipts
  phase,
  certificate,
  outcome,       \* agent -> the adapter's outcome, once dispatched
  lastHeld,      \* history: rule -> node -> when it last held of that node
  truthAge       \* history: agent -> rule -> how long ago it last held of the
                 \* candidate when the gateway checked the certificate

runVars == <<dryRun, proposal>>
agentVars == <<seen, pool, phase, certificate, outcome, truthAge>>
vars == <<now, injections, cluster, runVars, agentVars, lastHeld>>

ASSUME PostgresLoopAssumption ==
  /\ MaxTime \in Nat /\ MaxFaults \in Nat
  /\ IsFiniteSet(Agents) /\ InjectedFaults \subseteq FaultStates
  /\ MaxTtl \in Nat /\ \A rule \in DOMAIN RuleFreshness : RuleFreshness[rule] \in Nat
  /\ {"omega-1-replication-lag", "omega-2-standby-health", "omega-3-rollback-artifact"}
       \subseteq DOMAIN RuleFreshness
  /\ \A c \in InitialClusters : \E p \in Nodes : \E s \in Nodes \ {p} :
                                \E f \in FaultStates : c = InjectFault(NewCluster(p, s), f)

------------------------------------------------------------------------------
Scope == {<<"postgres", ClusterId>>}

Clause(field, typed, holds) ==
  [field |-> field, typed |-> typed, holds |-> holds, comparable |-> TRUE]

Rule(id, kind, class, predicate, templates) ==
  [ id |-> id, kind |-> kind, required |-> TRUE, scope |-> Scope,
    maxFreshness |-> RuleFreshness[id], classes |-> {class}, predicate |-> predicate,
    priorities |-> <<>>, minCardinality |-> 0, minPrincipals |-> 0, reconcile |-> FALSE,
    efd |-> {}, guardTemplates |-> templates ]

(* The predicate of omega-1: at most 1 MiB behind.                         *)
LagBound == 1048576

Template(id, target, extractor) == [id |-> id, target |-> target, extractor |-> extractor]

PostgresFailoverPolicyProfile ==
  [ epoch |-> "epoch-2026-q3",
    threshold |->
      [ consequenceSeverity |-> 2, blastRadius |-> 1, irreversibility |-> 1,
        epistemicUncertainty |-> 1, dependencyExposure |-> 2, adversePlausibility |-> 1 ],
    invariants |-> {"cluster_matches_target_scope", "candidate_differs_from_active_primary"},
    rules |->
      << Rule("omega-1-replication-lag", "OBSERVE", "POSTGRES_TELEMETRY",
           {Clause("replicationLagBytes", Nat, 0..LagBound)},
           {Template("guard-primary-cluster", "cluster.id", "params.clusterId")}),
         Rule("omega-2-standby-health", "OBSERVE", "POSTGRES_TELEMETRY",
           {Clause("is_in_recovery", BOOLEAN, {TRUE}), Clause("role", STRING, {"standby"})},
           {Template("guard-candidate-role", "candidate.role", "literal.standby"),
            Template("guard-candidate-identity", "candidate.identity",
                     "params.candidateStandby")}),
         Rule("omega-3-rollback-artifact", "VERIFY_ROLLBACK", "ROLLBACK_ATTESTATION",
           {Clause("valid_rollback_snapshot", BOOLEAN, {TRUE})}, {}) >> ]

Candidate(a) == proposal[a].params.candidateStandby

Claim(rule, c, candidate) ==
  CASE rule = "omega-1-replication-lag" -> ReplicationClaim(c, candidate)
    [] rule = "omega-2-standby-health" -> StandbyHealthClaim(c, candidate)
    [] OTHER -> RollbackClaim

(* The receipt of the inspection that serves a rule; the rollback service  *)
(* is a source of its own.                                                 *)
Receipt(a, rule) ==
  LET rollback == rule = "omega-3-rollback-artifact" IN
    [ id |-> <<a, rule>>,
      source |-> IF rollback THEN "verifier.postgres.backup-service" ELSE "probe",
      class |-> IF rollback THEN "ROLLBACK_ATTESTATION" ELSE "POSTGRES_TELEMETRY",
      scope |-> Scope, principal |-> "probe", authentic |-> TRUE, version |-> Lsn,
      observedAt |-> now, claim |-> Claim(rule, cluster, Candidate(a)) ]

(* The rule is true of the candidate in this cluster, whoever asks.        *)
HoldsOf(i, c, candidate) ==
  /\ candidate \in DOMAIN c.nodes
  /\ i = 1 => GetNode(c, candidate).lag <= LagBound
  /\ i = 2 => GetNode(c, candidate).role = "standby" /\ GetNode(c, candidate).isInRecovery

HeldNow(c, time, before) ==
  [i \in 1..2 |-> [n \in Nodes |-> IF HoldsOf(i, c, n) THEN time ELSE before[i][n]]]

Never == [i \in 1..2 |-> [n \in Nodes |-> -1 - 10 * MaxTime]]

TypeOK ==
  /\ now \in 0..MaxTime /\ injections \in 0..MaxFaults /\ dryRun \in BOOLEAN
  /\ proposal \in [Agents -> Proposals]
  /\ phase \in [Agents -> {"inspect", "present", "execute", "done", "closed", "blocked"}]
  /\ outcome \in [Agents -> {"NONE", "SUCCESS", "FAILED", "AMBIGUOUS"}]
  /\ cluster.faults \in FaultStates

Init ==
  /\ now = 0 /\ injections = 0
  /\ cluster \in InitialClusters
  /\ dryRun \in BOOLEAN
  /\ proposal \in [Agents -> Proposals]
  /\ seen = [a \in Agents |-> 0]
  /\ pool = [a \in Agents |-> {}]
  /\ phase = [a \in Agents |-> "inspect"]
  /\ certificate = [a \in Agents |-> NoCertificate]
  /\ truthAge = [a \in Agents |-> <<>>]
  /\ outcome = [a \in Agents |-> "NONE"]
  /\ lastHeld = HeldNow(cluster, now, Never)

------------------------------------------------------------------------------
(* The demo's order: replication, standby health, rollback snapshot.       *)
Inspect(a) ==
  /\ phase[a] = "inspect" /\ seen[a] < Len(PostgresFailoverPolicyProfile.rules)
  /\ seen' = [seen EXCEPT ![a] = seen[a] + 1]
  /\ LET rule == PostgresFailoverPolicyProfile.rules[seen'[a]].id IN
       pool' = [pool EXCEPT ![a] = pool[a] \cup {Receipt(a, rule)}]
  /\ UNCHANGED <<now, injections, cluster, runVars, phase, certificate, outcome, lastHeld,
                 truthAge>>

Context(a) ==
  [ time |-> now, deadline |-> MaxTime, tokens |-> 1, turns |-> 1, profiles |-> <<>>,
    allowed |-> [p \in {proposal[a].principal} |->
                   {<<proposal[a].action, item>> : item \in proposal[a].scope}] ]

Evaluate(a) ==
  /\ phase[a] = "inspect" /\ seen[a] = Len(PostgresFailoverPolicyProfile.rules)
  /\ LET verdict == Evaluation(proposal[a], VisibleState(cluster, Candidate(a)),
                      PostgresFailoverPolicyProfile, pool[a], Context(a)) IN
       IF verdict.kind = "PERMIT"
         THEN /\ certificate' = [certificate EXCEPT ![a] = verdict.certificate]
              /\ phase' = [phase EXCEPT ![a] = "present"]
         ELSE /\ phase' = [phase EXCEPT ![a] = "closed"]
              /\ UNCHANGED certificate
  /\ UNCHANGED <<now, injections, cluster, runVars, seen, pool, outcome, lastHeld, truthAge>>

(* authorizedDispatch up to its last await, on the live state it is given. *)
Present(a) ==
  /\ phase[a] = "present"
  /\ LET request == [certificate |-> certificate[a], requester |-> proposal[a].principal,
                     proposal |-> proposal[a]]
         sample == [time |-> now, view |-> VisibleState(cluster, Candidate(a)),
                    policyEpoch |-> PostgresFailoverPolicyProfile.epoch]
     IN  phase' = [phase EXCEPT ![a] =
           IF PresentationValid(request, now) /\ SampledStateValid(request, sample, FALSE)
             THEN "execute" ELSE "blocked"]
  /\ truthAge' = [truthAge EXCEPT ![a] = [i \in 1..2 |-> now - lastHeld[i][Candidate(a)]]]
  /\ UNCHANGED <<now, injections, cluster, runVars, seen, pool, certificate, outcome, lastHeld>>

(* The adapter, called after the awaits of the gateway.                    *)
Dispatch(a) ==
  /\ phase[a] = "execute"
  /\ LET result == Execute(cluster, proposal[a].action, proposal[a].params, dryRun) IN
       /\ cluster' = result.cluster
       /\ outcome' = [outcome EXCEPT ![a] = result.outcome]
  /\ phase' = [phase EXCEPT ![a] = "done"]
  /\ lastHeld' = HeldNow(cluster', now, lastHeld)
  /\ UNCHANGED <<now, injections, runVars, seen, pool, certificate, truthAge>>

(* Whoever tests the cluster.                                              *)
Faults ==
  /\ injections < MaxFaults /\ injections' = injections + 1
  /\ \/ \E faults \in InjectedFaults : cluster' = InjectFault(cluster, faults)
     \/ cluster.faults # NoFaults /\ cluster' = ClearFaults(cluster)
  /\ lastHeld' = HeldNow(cluster', now, lastHeld)
  /\ UNCHANGED <<now, runVars, agentVars>>

Tick ==
  /\ now < MaxTime /\ now' = now + 1
  /\ lastHeld' = HeldNow(cluster, now', lastHeld)
  /\ UNCHANGED <<injections, cluster, runVars, agentVars>>

Next ==
  \/ \E a \in Agents : Inspect(a) \/ Evaluate(a) \/ Present(a) \/ Dispatch(a)
  \/ Faults \/ Tick

Spec == Init /\ [][Next]_vars

------------------------------------------------------------------------------
(* The promotions carried out.                                             *)
Promotions == {a \in Agents : outcome[a] = "SUCCESS" /\ ~dryRun}

(* "single-primary" (runner.ts): exactly the node the cluster calls its    *)
(* primary has that role and is out of recovery, whatever was promoted,    *)
(* refused or timed out, and in whichever order.                           *)
SinglePrimary ==
  /\ cluster.primary \in DOMAIN cluster.nodes
  /\ \A n \in DOMAIN cluster.nodes :
       /\ cluster.nodes[n].role = IF n = cluster.primary THEN "primary" ELSE "standby"
       /\ cluster.nodes[n].isInRecovery <=> n # cluster.primary

(* A success is a promotion and nothing else is: the replication epoch     *)
(* counts the successes, so an agent told FAILED or AMBIGUOUS moved no     *)
(* primary, and no two agents share one promotion.                         *)
PromotionsAccounted == cluster.epoch = 1 + Cardinality(Promotions)

(* The node promoted had been a standby in recovery with its lag within    *)
(* bounds, and no longer before the gateway checked the certificate than   *)
(* each rule's freshness allows: also when the evidence is from before     *)
(* another agent's failover or from before a fault that hid behind it.     *)
PromotedWasFit ==
  \A a \in Promotions : \A i \in 1..2 :
    truthAge[a][i] <= PostgresFailoverPolicyProfile.rules[i].maxFreshness

(* "Candidate standby cannot be the current active primary": the reason    *)
(* checkStaticCompliance gives (obligationResolver.ts) is true of every    *)
(* candidate it refuses.  It is not after a failover: the rule looks at    *)
(* the node the cluster was created with first.                            *)
RefusedCandidateIsThePrimary ==
  \A a \in Agents :
    ~InvariantHolds("candidate_differs_from_active_primary", proposal[a],
                    VisibleState(cluster, Candidate(a)))
      => Candidate(a) = cluster.primary

=============================================================================
