------------------------------ MODULE WorkLoop ------------------------------
(***************************************************************************)
(* The epistemic work loop of an agent under the controller, as            *)
(* createCACController drives it                                           *)
(* (bench/cacbench/src/controllers/cac.ts): evaluate; on DEFER fetch one   *)
(* receipt for every open obligation and evaluate again, at most MaxTurns  *)
(* times; on PERMIT dispatch through the gateway.                          *)
(*                                                                         *)
(* The context is built once: policy and the snapshot of the grants are    *)
(* pinned for the run, only the evaluation time and the turns left change. *)
(* Every await of the loop (each fetch, and beforeDispatch) lets the world *)
(* move: the clock, the target, and the live grants.                       *)
(*                                                                         *)
(* The sensors stand for the target's observers.  One of them reports the  *)
(* fields it knows as they are at the moment of the fetch, unless a fault  *)
(* it is exposed to is active: then it reports what it likes.              *)
(***************************************************************************)
EXTENDS Controller, AdmissionValidation

CONSTANTS
  Policies, Proposals, Profiles,
  Worlds,            \* what the target may be: [facts, view]
  SensorsFor,        \* obligation id -> the sensors a fetch may reach
  Lies,              \* what the fields of a corrupted sensor may say
  FaultSets,         \* the sets of faults that may be active in a run
  UniqueIds,         \* FALSE: each source numbers its own receipts
  InitialPools,      \* world -> the evidence an agent may bring along
  InitialGrants,     \* the grants at the start
  MaxTurns, TurnBudget, Deadline,
  MaxTime, MaxMoves  \* bounds of the model

NoCertificate == [wellFormed |-> FALSE]

VARIABLES
  now, world, allowed, moves,
  policy, proposal, snapshot, faults,   \* fixed for the run
  pool,            \* evidencePool
  turn, phase,
  open,            \* the open obligations not yet fetched for
  certificate,
  basis,           \* history: the obligations of the certificate, each
                   \* with the witness that discharged it
  lastHeld         \* history: for each rule, when it last held of the target

runVars == <<policy, proposal, snapshot, faults>>
worldVars == <<now, world, allowed, moves>>
vars == <<worldVars, runVars, pool, turn, phase, open, certificate, basis, lastHeld>>

Authorizer == INSTANCE MemoryAuthorizer WITH
  Principals <- {p.principal : p \in Proposals},
  Actions <- {p.action : p \in Proposals},
  ScopeItems <- UNION {p.scope : p \in Proposals}

ASSUME WorkLoopAssumption ==
  /\ MaxTurns \in Nat \ {0} /\ TurnBudget \in Nat /\ Deadline \in Nat
  /\ MaxTime \in Nat /\ MaxMoves \in Nat /\ MaxTtl \in Nat /\ ApprovalFreshness \in Nat
  /\ UniqueIds \in BOOLEAN

ASSUME PolicyAssumption ==
  /\ \A p \in Policies :
       /\ p.rules \in Seq({p.rules[i] : i \in DOMAIN p.rules})
       /\ \A i \in DOMAIN p.rules :
            /\ {"required", "classes", "predicate", "efd", "maxFreshness", "priorities"}
                 \subseteq DOMAIN p.rules[i]
            /\ p.rules[i].maxFreshness \in Nat
            /\ \A requirement \in p.rules[i].efd : requirement.minCut \in Nat
            /\ \A source \in DOMAIN p.rules[i].priorities : p.rules[i].priorities[source] \in Int
  /\ \A id \in DOMAIN Profiles :
       /\ IsFiniteSet(Profiles[id].faults)
       /\ Profiles[id].type \in {"ALL_OF", "K_OF_N", "EXPLICIT"}

(* What an agent brings along; ids that are unique are also none that a    *)
(* fetch gives (see Reports).                                              *)
ASSUME EvidenceAssumption ==
  \A w \in Worlds : \A brought \in InitialPools[w] :
    /\ IsFiniteSet(brought)
    /\ \A r \in brought : r.observedAt \in Int
    /\ UniqueIds => \A r \in brought : r.authentic =>
         /\ Len(r.id) # 3
         /\ \A s \in brought : s.authentic /\ s.id = r.id => s = r

ASSUME GrantsAssumption ==
  /\ DOMAIN InitialGrants \subseteq {p.principal : p \in Proposals}
  /\ \A p \in DOMAIN InitialGrants :
       InitialGrants[p] \subseteq {q.action : q \in Proposals} \X UNION {q.scope : q \in Proposals}

(* The obligation is true of the target.                                   *)
Holds(o, w) == Entailment(w.facts, o) = "POSITIVE"

(* A sensor knows what the rule is about, in a class the rule accepts.     *)
CanAttest(s, o) == s.class \in o.classes /\ {c.field : c \in o.predicate} \subseteq s.fields

(* The declarations are true: who can attest to a rule is one of its       *)
(* sensors, and a valid profile names every fault they are exposed to.     *)
(* What an agent brings along was observed before the run, and what it     *)
(* attests to holds at the start.                                          *)
ASSUME TruthAssumption ==
  /\ \A F \in FaultSets : IsFiniteSet(F)
  /\ \A p \in Policies : \A i \in DOMAIN p.rules :
       LET o == p.rules[i] IN
         /\ \A s \in SensorsFor[o.id] : \A w \in Worlds : s.fields \subseteq DOMAIN w.facts
         /\ \A j \in DOMAIN p.rules : \A s \in SensorsFor[p.rules[j].id] :
              CanAttest(s, o) => s \in SensorsFor[o.id]
         /\ \A requirement \in o.efd : requirement.profile \in DOMAIN Profiles =>
              LET profile == Profiles[requirement.profile] IN
                ProfileValid(profile) =>
                  \A s \in SensorsFor[o.id] : s.source \in DOMAIN profile.verifierOf =>
                    LET verifier == profile.verifierOf[s.source] IN
                      /\ verifier \in DOMAIN profile.exposures
                      /\ s.exposures \subseteq profile.exposures[verifier]
         /\ \A w \in Worlds : \A brought \in InitialPools[w] : \A r \in brought :
              r.authentic /\ r.class \in o.classes /\ Entailment(r.claim, o) = "POSITIVE" =>
                r.observedAt <= 0 /\ Holds(o, w)

Never == -1 - MaxTime * 10

HeldNow(w, time, before) ==
  [i \in DOMAIN policy.rules |-> IF Holds(policy.rules[i], w) THEN time ELSE before[i]]

TypeOK ==
  /\ now \in 0..MaxTime /\ moves \in 0..MaxMoves
  /\ world \in Worlds
  /\ Authorizer!AuthorizerTypeOK
  /\ policy \in Policies /\ proposal \in Proposals /\ faults \in FaultSets
  /\ turn \in 0..MaxTurns
  /\ phase \in {"evaluate", "fetch", "dispatch", "executed", "blocked", "closed", "thrown"}
  /\ phase = "fetch" <=> open # {}
  /\ certificate # NoCertificate <=> phase \in {"dispatch", "executed", "blocked"}

Init ==
  /\ now = 0 /\ moves = 0
  /\ world \in Worlds
  /\ allowed = InitialGrants
  /\ policy \in Policies
  /\ proposal \in Proposals
  /\ snapshot = allowed
  /\ faults \in FaultSets
  /\ pool \in InitialPools[world]
  /\ turn = 0
  /\ phase = "evaluate"
  /\ open = {}
  /\ certificate = NoCertificate
  /\ basis = {}
  /\ lastHeld = HeldNow(world, now, [i \in DOMAIN policy.rules |-> Never])

------------------------------------------------------------------------------
Context ==
  [ time |-> now, deadline |-> Deadline, tokens |-> 1, turns |-> TurnBudget - turn,
    allowed |-> snapshot, profiles |-> Profiles ]

Evaluated(evidence) == Evaluation(proposal, world.view, policy, evidence, Context)

(* One evaluation and what the loop does with the verdict.                 *)
Evaluate ==
  /\ phase = "evaluate"
  /\ LET verdict == Evaluated(pool) IN
       CASE verdict.kind = "PERMIT" ->
              /\ phase' = "dispatch"
              /\ certificate' = verdict.certificate
              /\ basis' = verdict.basis
              /\ UNCHANGED open
         [] verdict.kind = "DEFER" ->
              /\ phase' = "fetch"
              /\ open' = verdict.open
              /\ UNCHANGED <<certificate, basis>>
         [] OTHER ->
              /\ phase' = IF verdict.kind = "THROWN" THEN "thrown" ELSE "closed"
              /\ UNCHANGED <<open, certificate, basis>>
  /\ UNCHANGED <<worldVars, runVars, pool, turn, lastHeld>>

(* What sensor s reports now.                                              *)
Reports(s) ==
  LET Receipt(claim) ==
        [ id |-> IF UniqueIds THEN <<s.source, turn, Min(open)>>
                 ELSE <<Cardinality({r \in pool : r.source = s.source})>>,
          source |-> s.source, class |-> s.class, scope |-> s.scope,
          principal |-> s.principal, authentic |-> TRUE,
          version |-> world.view.observedVersion, observedAt |-> now, claim |-> claim ]
      honest == [f \in s.fields |-> world.facts[f]]
  IN  IF s.exposures \cap faults = {} THEN {Receipt(honest)}
      ELSE {Receipt([f \in s.fields |-> lie[f]]) : lie \in Lies}

(* Mutant: the loop has no bound on its turns.                             *)
Fetch_Unbounded ==
  /\ phase = "fetch"
  /\ \/ \E s \in SensorsFor[policy.rules[Min(open)].id] :
          \E receipt \in Reports(s) : pool' = pool \cup {receipt}
     \/ UNCHANGED pool
  /\ open' = open \ {Min(open)}
  /\ IF open' # {} THEN UNCHANGED <<phase, turn>>
     ELSE turn' = turn + 1 /\ phase' = "evaluate"
  /\ UNCHANGED <<worldVars, runVars, certificate, basis, lastHeld>>

(* fetchTelemetry for the next open obligation; it may find nothing.       *)
Fetch ==
  /\ phase = "fetch"
  /\ \/ \E s \in SensorsFor[policy.rules[Min(open)].id] :
          \E receipt \in Reports(s) : pool' = pool \cup {receipt}
     \/ UNCHANGED pool
  /\ open' = open \ {Min(open)}
  /\ IF open' # {} THEN UNCHANGED <<phase, turn>>
     ELSE /\ turn' = turn + 1
          /\ phase' = IF turn' < MaxTurns THEN "evaluate" ELSE "closed"
  /\ UNCHANGED <<worldVars, runVars, certificate, basis, lastHeld>>

(* authorizedDispatch with the state, time and grants of the moment, on a  *)
(* nonce of its own; module Gateway has its awaits.                        *)
Admissible ==
  LET request == [certificate |-> certificate, requester |-> proposal.principal,
                  proposal |-> proposal]
      sample == [time |-> now, view |-> world.view, policyEpoch |-> policy.epoch]
  IN  /\ PresentationValid(request, now)
      /\ SampledStateValid(request, sample, FALSE)
      /\ Authorizer!IsAuthorized(proposal.principal, proposal.action, proposal.scope)

Dispatch ==
  /\ phase = "dispatch"
  /\ phase' = IF Admissible THEN "executed" ELSE "blocked"
  /\ UNCHANGED <<worldVars, runVars, pool, turn, open, certificate, basis, lastHeld>>

------------------------------------------------------------------------------
(* The world moves at the awaits: during fetches and before the dispatch.  *)
Moves ==
  /\ phase \in {"fetch", "dispatch"}
  /\ \/ /\ now < MaxTime /\ now' = now + 1
        /\ UNCHANGED <<world, allowed, moves>>
     \/ /\ moves < MaxMoves /\ moves' = moves + 1
        /\ \/ world' \in Worlds \ {world} /\ UNCHANGED allowed
           \/ Authorizer!RevokePrincipal(proposal.principal) /\ UNCHANGED world
        /\ UNCHANGED now
  /\ lastHeld' = HeldNow(world', now', lastHeld)
  /\ UNCHANGED <<runVars, pool, turn, phase, open, certificate, basis>>

Next == Evaluate \/ Fetch \/ Dispatch \/ Moves

Spec == Init /\ [][Next]_vars

------------------------------------------------------------------------------
(* An obligation the active faults cannot have forged: nobody it may hear  *)
(* of lies, or fewer faults are active than its structural cut demands.    *)
Unforged(o) ==
  \/ \A s \in SensorsFor[o.id] : s.exposures \cap faults = {}
  \/ \E requirement \in o.efd : Cardinality(faults) < requirement.minCut

(* What the certificate is for: when an action is let through, each        *)
(* required rule was true of the target at some instant not longer ago     *)
(* than its freshness allows, even if fewer sensors' faults are active     *)
(* than the structural cut the rule demands.                               *)
ExecutedOnFreshTruth ==
  phase = "executed" =>
    \A i \in DOMAIN policy.rules :
      policy.rules[i].required /\ Unforged(policy.rules[i]) =>
        now - lastHeld[i] <= policy.rules[i].maxFreshness

(* "t_witness_exp = min over (omega, W) of min over e in W of e.t_obs +    *)
(* omega.maxFreshness" (manifest.ts): no receipt a certificate rests on    *)
(* grows stale before the certificate expires, and it is good when issued. *)
CertificateWithinWitness ==
  \A b \in basis : \A r \in b.witness :
    /\ certificate.expiresAt <= r.observedAt + b.obligation.maxFreshness
    /\ certificate.issuedAt <= certificate.expiresAt

(* Receipts nobody vouches for change no verdict, whatever they claim and  *)
(* whichever id they bear.                                                 *)
ForgeriesAreInert ==
  phase = "evaluate" => Evaluated(pool) = Evaluated({r \in pool : r.authentic})

(* What is certified was not contested: for a rule without quorum          *)
(* constraints no fresh authentic reading of a source at least as good as  *)
(* the weakest of the witness speaks against it when the certificate is    *)
(* issued.                                                                 *)
UncontestedWhenIssued ==
  \A b \in basis :
    LET o == b.obligation IN
      o.efd = {} /\ o.minCardinality <= 1 /\ o.minPrincipals <= 1 /\ ~o.reconcile =>
        ~\E r \in pool :
           /\ r.authentic /\ r.class \in o.classes /\ o.scope \subseteq r.scope
           /\ Fresh(r, o, certificate.issuedAt)
           /\ r.version \in {s.version : s \in b.witness}
           /\ Entailment(r.claim, o) = "NEGATIVE"
           /\ WitnessPriority({r}, o) >= WitnessPriority(b.witness, o)

=============================================================================
