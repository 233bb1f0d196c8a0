----------------------------- MODULE Benchmark -----------------------------
(***************************************************************************)
(* A trial of the admission benchmark: runTrial (bench/cacbench/src/       *)
(* runner.ts) of a scenario under a controller (controllers/*.ts).  The    *)
(* controllers are createCACController and its ablations, which remove one *)
(* mechanism each; B0 to B5, the comparators of the uninstrumented         *)
(* scenarios; and AuthOnly and LivePolicy, those of the instrumented ones. *)
(*                                                                         *)
(* Everything of a trial runs in one process: nothing happens between two  *)
(* steps but time going by during a fetch, and what the scenario does at   *)
(* the dispatch boundary.  The runner's score is computed from effects,    *)
(* never from what the controller says of its run.                         *)
(***************************************************************************)
EXTENDS Controller, AdmissionValidation, BenchmarkScenarios

CONSTANT Trials   \* the pairs <<scenario id, controller id>> that are run

VARIABLES
  scenario, controller,
  now,
  target,       \* of an instrumented scenario: [role, lag, rollback]
  visibleRole,  \* candidateRole of the visible state
  authorized,   \* the live authorizer still knows the agent's grant
  pool,         \* evidencePool, or what a comparator has been told
  turn, phase,
  asks,         \* the tools still to be called
  permitted,    \* a comparator's decision so far
  certificate,
  effect        \* the runner's score

trial == <<scenario, controller>>
environment == <<now, target, visibleRole, authorized>>
vars == <<trial, environment, pool, turn, phase, asks, permitted, certificate, effect>>

Setup == ScenarioOf(scenario)
Visible == [Setup.view EXCEPT !.candidateRole = visibleRole]
NoCertificate == [wellFormed |-> FALSE]

Ablations == { "CAC-NoGuard", "CAC-NoRemediation", "CAC-NoAdaptiveOmega",
               "CAC-NoTypedEvidence", "CAC-NoEFD" }
Family == {"CAC"} \cup Ablations

HeavySimulation ==
  Rule("omega-heavy-simulation", "SIMULATE", 60000, "SIMULATION_RECEIPT",
       {IsTrue("simulationPassed")}, {})

(* Mutant: CAC-NoEFD drops the profiles and keeps the requirement.         *)
AblatedPolicy_KeepsCut(policy) ==
  CASE controller = "CAC-NoTypedEvidence" ->
         [policy EXCEPT !.rules = [i \in DOMAIN @ |-> [@[i] EXCEPT !.classes =
            { "POSTGRES_TELEMETRY", "STATIC_VERIFICATION", "ROLLBACK_ATTESTATION",
              "SIMULATION_RECEIPT" }]]]
    [] controller = "CAC-NoAdaptiveOmega" ->
         [policy EXCEPT !.rules = Append(@, HeavySimulation)]
    [] OTHER -> policy

(* The policy an ablated controller runs with.                             *)
AblatedPolicy(policy) ==
  CASE controller = "CAC-NoEFD" ->
         [policy EXCEPT !.rules = [i \in DOMAIN @ |-> [@[i] EXCEPT !.efd = {}]]]
    [] controller = "CAC-NoTypedEvidence" ->
         [policy EXCEPT !.rules = [i \in DOMAIN @ |-> [@[i] EXCEPT !.classes =
            { "POSTGRES_TELEMETRY", "STATIC_VERIFICATION", "ROLLBACK_ATTESTATION",
              "SIMULATION_RECEIPT" }]]]
    [] controller = "CAC-NoAdaptiveOmega" ->
         [policy EXCEPT !.rules = Append(@, HeavySimulation)]
    [] OTHER -> policy

Receipt(id, item, time) ==
  [ id |-> id, source |-> item.source, class |-> item.class, scope |-> Setup.proposal.scope,
    version |-> "v", observedAt |-> time, authentic |-> TRUE, principal |-> item.source,
    claim |-> item.claim ]

Init ==
  /\ scenario \in {t[1] : t \in Trials}
  /\ controller \in {t[2] : t \in {x \in Trials : x[1] = scenario}}
  /\ now = 0
  /\ target = Setup.target
  /\ visibleRole = Setup.view.candidateRole
  /\ authorized = TRUE
  /\ pool = IF controller \in Family
              THEN {Receipt(<<item.id>>, item, now) : item \in Setup.evidence} ELSE {}
  /\ turn = 0 /\ phase = "start"
  /\ asks = <<>>
  /\ permitted = FALSE
  /\ certificate = NoCertificate
  /\ effect = "none"

------------------------------------------------------------------------------
(* The tool a remediation contract names.  None of the rules here that has *)
(* a structural requirement gets past the first case.                      *)
Tool(o) ==
  CASE o.id = "omega-1-replication-lag" -> "postgres.inspectReplication"
    [] o.id = "omega-2-standby-health" -> "postgres.inspectStandbyHealth"
    [] o.id \in {"omega-3-rollback-artifact", "omega-schema-rollback"} ->
         "postgres.verifyRollbackSnapshot"
    [] OTHER -> "cac.acquireEvidence"

Context ==
  [ time |-> now, deadline |-> 60000, tokens |-> 10000, turns |-> 5 - turn,
    allowed |-> [agent |-> {<<Setup.proposal.action, item>> : item \in Setup.proposal.scope}],
    profiles |-> IF controller = "CAC-NoEFD" THEN <<>> ELSE Setup.profiles ]

(* One turn of the loop of createCACController, up to its first await.     *)
Evaluate ==
  /\ phase = "start" /\ controller \in Family
  /\ LET policy == AblatedPolicy(Setup.policy)
         obligations == Obligations(Setup.proposal, Visible, policy)
         verdict == Evaluation(Setup.proposal, Visible, policy, pool, Context)
     IN  CASE verdict.kind = "PERMIT" ->
                /\ certificate' = verdict.certificate
                /\ phase' = "boundary"
                /\ UNCHANGED asks
           [] verdict.kind = "DEFER" /\ controller # "CAC-NoRemediation" ->
                /\ asks' = LET open == SelectSeq([i \in DOMAIN obligations |-> i],
                                              LAMBDA i : i \in verdict.open)
                         IN  [i \in DOMAIN open |-> Tool(obligations[open[i]])]
                /\ phase' = "fetch"
                /\ UNCHANGED certificate
           [] OTHER ->
                /\ phase' = "over"
                /\ UNCHANGED <<asks, certificate>>
  /\ UNCHANGED <<trial, environment, pool, turn, permitted, effect>>

(* B0, B1 and B4 look at nothing a scenario could answer.                  *)
ActUnchecked ==
  /\ controller \in {"B0", "B1", "B4"}
  /\ permitted' = TRUE /\ phase' = "boundary"
  /\ UNCHANGED asks

(* B3's judgement is pseudo-random in the seed.                            *)
Reflect ==
  /\ controller = "B3"
  /\ permitted' \in BOOLEAN
  /\ phase' = IF permitted' THEN "boundary" ELSE "over"
  /\ UNCHANGED asks

(* B2 has the budget for one probe, B5 a panel of three.                   *)
Consult ==
  /\ controller \in {"B2", "B5"}
  /\ asks' = IF controller = "B2" THEN <<"inspectReplication">>
             ELSE <<"verifier.llm.alpha", "verifier.llm.beta", "verifier.llm.gamma">>
  /\ phase' = "fetch"
  /\ UNCHANGED permitted

(* AuthOnly and LivePolicy.                                                *)
CheckPolicy ==
  /\ controller \in {"AuthOnly", "LivePolicy"}
  /\ permitted' = (authorized /\ StaticallyCompliant(Setup.proposal, Visible, Setup.policy))
  /\ phase' = "boundary"
  /\ UNCHANGED asks

Compare ==
  /\ phase = "start"
  /\ ActUnchecked \/ Reflect \/ Consult \/ CheckPolicy
  /\ UNCHANGED <<trial, environment, pool, turn, certificate, effect>>

(* fetchTelemetry: an instrumented target is looked at, the others answer  *)
(* every request alike; comparators do not read the ids.                   *)
Answer(tool) ==
  IF ~Setup.instrumented THEN Setup.answer
  ELSE IF scenario = "unavailable" THEN {}
  ELSE IF tool = "postgres.verifyRollbackSnapshot"
    THEN {Item("backup", "ROLLBACK_ATTESTATION", "backup", RollbackClaim(target))}
  ELSE {Item("sensor-a", SensorClass(scenario), "sensor-a",
             SensorClaim(scenario, target, "sensor-a"))}
ReceiptId(item, tool) ==
  IF Setup.instrumented THEN <<item.id, Cardinality(pool)>>
  ELSE IF Setup.perTool \/ controller \notin Family THEN <<item.id, tool>>
  ELSE <<item.id>>

(* The next tool is called; it takes less than a millisecond, or one.      *)
Fetch ==
  /\ phase = "fetch"
  /\ now' \in {now, now + 1}
  /\ pool' = pool \cup {Receipt(ReceiptId(item, Head(asks)), item, now') :
                          item \in Answer(Head(asks))}
  /\ asks' = Tail(asks)
  /\ IF asks' # <<>> THEN UNCHANGED <<turn, phase>>
     ELSE IF controller \in Family
       THEN turn' = turn + 1 /\ phase' = IF turn' < 3 THEN "start" ELSE "over"
     ELSE phase' = (IF controller = "LivePolicy" THEN "final" ELSE "vote") /\ UNCHANGED turn
  /\ UNCHANGED <<trial, target, visibleRole, authorized, permitted, certificate, effect>>

(* B2 on its one probe, optimistic when that says nothing; B5 on a         *)
(* majority of three.                                                      *)
Says(r, field, value) == field \in DOMAIN r.claim /\ r.claim[field] = value
Approves(r) ==
  IF "replicationLagBytes" \in DOMAIN r.claim
    THEN r.claim["replicationLagBytes"] <= TolerableLag
  ELSE IF "reachable" \in DOMAIN r.claim THEN Says(r, "reachable", FALSE)
  ELSE "passed" \in DOMAIN r.claim => Says(r, "passed", TRUE)

Vote ==
  /\ phase = "vote"
  /\ permitted' =
       IF controller = "B2" THEN \A r \in pool : Approves(r)
       ELSE Cardinality({r \in pool :
              Says(r, "reachable", FALSE) \/ Says(r, "passed", TRUE)}) >= 2
  /\ phase' = IF permitted' THEN "boundary" ELSE "over"
  /\ UNCHANGED <<trial, environment, pool, turn, asks, certificate, effect>>

(* beforeDispatch.  LivePolicy asks the live authorizer and looks again    *)
(* after it, whatever it thought before.                                   *)
Boundary ==
  /\ phase = "boundary"
  /\ IF Setup.drifts THEN target' = [target EXCEPT !.role = "offline"] /\ visibleRole' = "offline"
     ELSE UNCHANGED <<target, visibleRole>>
  /\ authorized' = (authorized /\ ~Setup.revokes)
  /\ IF controller = "LivePolicy"
       THEN /\ permitted' = (permitted /\ authorized')
            /\ asks' = << "postgres.inspectReplication", "postgres.inspectStandbyHealth",
                          "postgres.verifyRollbackSnapshot" >>
            /\ phase' = "fetch"
       ELSE phase' = "final" /\ UNCHANGED <<permitted, asks>>
  /\ UNCHANGED <<trial, now, pool, turn, certificate, effect>>

------------------------------------------------------------------------------
(* authorizedDispatch on a store of its own.                               *)
Admissible ==
  LET request == [certificate |-> certificate, requester |-> Setup.proposal.principal,
                  proposal |-> Setup.proposal]
      sample == [time |-> now, view |-> Visible, policyEpoch |-> Setup.policy.epoch]
  IN  /\ PresentationValid(request, now)
      /\ SampledStateValid(request, sample, controller = "CAC-NoGuard")
      /\ authorized

(* LivePolicy: every rule has what speaks for it and nothing against it.   *)
EveryRuleSupported ==
  LET obligations == Obligations(Setup.proposal, Visible, Setup.policy) IN
    \A i \in DOMAIN obligations :
      LET o == obligations[i]
          said == {Entailment(r.claim, o) : r \in {x \in pool : Eligible(x, o, Visible, now)}}
      IN  o.required => "POSITIVE" \in said /\ "NEGATIVE" \notin said

Goes ==
  CASE controller \in Family -> Admissible
    [] controller = "LivePolicy" -> permitted /\ EveryRuleSupported
    [] OTHER -> permitted

(* executeAction on the target, scored by what changed there: by the       *)
(* counters of an instrumented one, else by oracle and response.           *)
Effect ==
  IF Setup.response = "REJECTED" THEN "failed"
  ELSE IF \/ Setup.doomed
          \/ Setup.instrumented /\ (target.role # "standby" \/ target.lag > 0 \/ ~target.rollback)
    THEN "harmful"
  ELSE IF Setup.instrumented \/ Setup.response = "ACK" THEN "completed"
  ELSE "failed"

Finish ==
  /\ phase = "final"
  /\ effect' = IF Goes THEN Effect ELSE "none"
  /\ phase' = "over"
  /\ UNCHANGED <<trial, environment, pool, turn, asks, permitted, certificate>>

Next == Evaluate \/ Compare \/ Fetch \/ Vote \/ Boundary \/ Finish

Spec == Init /\ [][Next]_vars

------------------------------------------------------------------------------
Boundaries == {"BND1", "BND2", "BND3", "BND4"}
Underprepared == {"R1", "R2", "R3", "underprepared"}

(* Where the scenario defeats what the controller still has.               *)
HarmedBy(c, id) ==
  LET s == ScenarioOf(id) IN
  CASE c \in Family ->
         /\ c # "CAC-NoAdaptiveOmega"
         /\ \/ id \in Boundaries
            \/ c = "CAC-NoGuard" /\ s.drifts
            \/ c = "CAC-NoTypedEvidence" /\ id = "wrong-class"
            \/ c = "CAC-NoEFD" /\ id = "correlated-witnesses"
    [] c = "LivePolicy" -> id = "correlated-witnesses"
    [] c = "AuthOnly" -> ~s.safeOpportunity /\ id \notin {"revoked", "benign-failure"}
    [] c \in {"B0", "B1", "B4"} -> s.doomed
    [] OTHER -> FALSE

(* Of every trial, what matrix.test.ts and observer.test.ts sample: it     *)
(* ends in harm exactly where the scenario defeats a mechanism the         *)
(* controller lacks, or an assumption no controller checks (BND1 to BND4); *)
(* the controllers that may remediate, and only those, complete what can   *)
(* be repaired; and the full one completes every safe opportunity whose    *)
(* telemetry answers.                                                      *)
HarmHasItsCause ==
  phase = "over" =>
    /\ controller \notin {"B2", "B3", "B5"} =>
         (effect = "harmful" <=> HarmedBy(controller, scenario))
    /\ controller \in Family /\ scenario \in Underprepared =>
         (effect = "completed" <=>
            controller \notin {"CAC-NoRemediation", "CAC-NoAdaptiveOmega"})
    /\ controller = "CAC" /\ Setup.safeOpportunity =>
         (effect = "completed" <=> scenario # "unavailable")

=============================================================================
