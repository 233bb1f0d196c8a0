------------------------------- MODULE Gateway -------------------------------
(***************************************************************************)
(* authorizedDispatch (gateway/src/dispatch.ts): any number of concurrent  *)
(* dispatches, in one or several gateway processes, over one capability    *)
(* store and one target.                                                   *)
(*                                                                         *)
(* A dispatch suspends at four awaits: isUnused, the return of             *)
(* admissionValid, consumeOnce and the adapter's execute.  What the        *)
(* caller sampled (visible state, policy epoch, time) is fixed when the    *)
(* call is made; the authorizer and the revocation list are live objects   *)
(* read after isUnused has answered; nothing is read again later.  The     *)
(* world (clock, cluster, policy, grants, revocations) moves meanwhile,    *)
(* and a gateway process may die between any two steps.                    *)
(*                                                                         *)
(* The store is the abstract OneShot, which MemoryCapabilityStore and      *)
(* FileCapabilityStore implement; a call to it is a pair of the dispatch   *)
(* and the nonce.                                                          *)
(***************************************************************************)
EXTENDS AdmissionValidation

CONSTANTS
  Dispatches,    \* calls of authorizedDispatch
  Requests,      \* what callers may present: [certificate, requester, proposal]
  NoRequest,
  NoSample,
  NoCall,
  Principals, Actions, ScopeItems,
  Views,         \* the controller-visible states of the target
  PolicyEpochs,
  MaxTime,       \* bound on the clock
  MaxMoves,      \* bound on the changes of the world in a behaviour
  SkipGuards     \* the skipGuards flag of the NoGuard ablation

VARIABLES
  now, view, policyEpoch, allowed, revoked,   \* the world
  moves,         \* how often the world has changed
  pc,            \* the step each dispatch takes next
  request,       \* what each dispatch was called with
  sample,        \* the values its caller sampled; dropped after validation
  response,      \* what it returned or threw
  owner, answer, \* the capability store
  forwarded,     \* history: the dispatches that reached the target
  soundCall,     \* history: dispatches whose call met the admission rule
  liveSeen       \* history: active dispatches that were authorized and not
                 \* revoked at some instant since they were called

worldVars == <<now, view, policyEpoch, allowed, revoked, moves>>
storeVars == <<owner, answer>>
vars == <<worldVars, pc, request, sample, response, storeVars,
          forwarded, soundCall, liveSeen>>

Certificates == {r.certificate : r \in Requests}
AdmissionIds == {c.admissionId : c \in Certificates}
Nonces == {c.nonce : c \in Certificates}
StoreCalls == Dispatches \X Nonces

Store == INSTANCE OneShot WITH
  Calls <- StoreCalls, NonceOf <- [call \in StoreCalls |-> call[2]],
  MaxResets <- 0, era <- 0, wonIn <- [call \in StoreCalls |-> 0]

Authorizer == INSTANCE MemoryAuthorizer

ASSUME GatewayAssumption ==
  /\ NoCall \notin StoreCalls
  /\ NoRequest \notin Requests
  /\ MaxTime \in Nat /\ MaxMoves \in Nat
  /\ SkipGuards \in BOOLEAN

Samples == [time : 0..MaxTime, view : Views, policyEpoch : PolicyEpochs]
Active == {"isUnused", "validate", "consume", "forward", "executing"}
Responses ==
  {"none", "REJECTED", "REPLAY", "EXECUTED", "AMBIGUOUS_OUTCOME", "THROWN"}

TypeOK ==
  /\ now \in 0..MaxTime
  /\ view \in Views
  /\ policyEpoch \in PolicyEpochs
  /\ Authorizer!AuthorizerTypeOK
  /\ revoked \in SUBSET AdmissionIds
  /\ moves \in 0..MaxMoves
  /\ pc \in [Dispatches -> {"idle", "done", "dead"} \cup Active]
  /\ request \in [Dispatches -> Requests \cup {NoRequest}]
  /\ sample \in [Dispatches -> Samples \cup {NoSample}]
  /\ response \in [Dispatches -> Responses]
  /\ owner \in [Nonces -> StoreCalls \cup {NoCall}]
  /\ answer \in [StoreCalls -> Store!Answers]
  /\ forwarded \in SUBSET Dispatches
  /\ soundCall \in SUBSET Dispatches
  /\ liveSeen \in SUBSET Dispatches

------------------------------------------------------------------------------
CertifiedNonce(d) == request[d].certificate.nonce
StoreCall(d) == <<d, CertifiedNonce(d)>>

(* Steps 8 and 9 of admissionValid, on the live objects.                   *)
LiveAuthorized(r) ==
  /\ Authorizer!IsAuthorized(r.certificate.subject, r.proposal.action, r.proposal.scope)
  /\ r.certificate.admissionId \notin revoked

Covered(c) == IF c.mode = "ENVELOPE" THEN c.envelope.covered ELSE c.covers

(* The admission rule the checks stand for, stated on the world at large:  *)
(* a certificate the controller signed, in its window, presented by its    *)
(* subject for the very proposal it covers, under the policy it was issued *)
(* under and with every guard of it (and, for an envelope, every guard     *)
(* required of it) true.                                                   *)
AdmissibleCall(r) ==
  LET c == r.certificate IN
    /\ c.signed
    /\ c.issuedAt <= now /\ now <= c.expiresAt
    /\ c.mode = "ENVELOPE" =>
         /\ now <= EnvelopeEnd(c.envelope)
         /\ Allows(c.envelope.template, r.proposal)
    /\ r.requester = c.subject /\ r.proposal = Covered(c)
    /\ r.proposal.principal = c.subject
    /\ c.policyEpoch = policyEpoch
    /\ ~SkipGuards =>
         /\ \A g \in c.guards : GuardHolds(g, view)
         /\ c.mode = "ENVELOPE" =>
              \A id \in c.envelope.template.guardIds :
                \E g \in c.guards : g.id = id /\ GuardHolds(g, view)

Init ==
  /\ now = 0
  /\ view \in Views
  /\ policyEpoch \in PolicyEpochs
  /\ allowed = [p \in Principals |-> Authorizer!Grants]
  /\ revoked = {}
  /\ moves = 0
  /\ pc = [d \in Dispatches |-> "idle"]
  /\ request = [d \in Dispatches |-> NoRequest]
  /\ sample = [d \in Dispatches |-> NoSample]
  /\ response = [d \in Dispatches |-> "none"]
  /\ owner = [n \in Nonces |-> NoCall]
  /\ answer = [call \in StoreCalls |-> "none"]
  /\ forwarded = {}
  /\ soundCall = {}
  /\ liveSeen = {}

------------------------------------------------------------------------------
Goto(d, next) == pc' = [pc EXCEPT ![d] = next]

Respond(d, status) ==
  /\ Goto(d, "done")
  /\ response' = [response EXCEPT ![d] = status]

(* Maintains the history liveSeen; every step conjoins it.                 *)
ObserveLive ==
  liveSeen' = {d \in Dispatches :
    /\ pc'[d] \in Active
    /\ d \in liveSeen \/ LiveAuthorized(request[d])' }

(* authorizedDispatch is called and runs to the await of isUnused.         *)
CallWith(d, r) ==
  /\ pc[d] = "idle"
  /\ request' = [request EXCEPT ![d] = r]
  /\ soundCall' = IF AdmissibleCall(r) THEN soundCall \cup {d} ELSE soundCall
  /\ \/ /\ PresentationValid(r, now)
        /\ Goto(d, "isUnused")
        /\ sample' = [sample EXCEPT ![d] =
             [time |-> now, view |-> view, policyEpoch |-> policyEpoch]]
        /\ UNCHANGED response
     \/ /\ ~PresentationValid(r, now)
        /\ Respond(d, "REJECTED")
        /\ UNCHANGED sample
  /\ UNCHANGED <<worldVars, storeVars, forwarded>>
  /\ ObserveLive

Call(d) == \E r \in Requests : CallWith(d, r)

(* The store answers isUnused; a used nonce ends the dispatch.             *)
CheckNonce(d) ==
  /\ pc[d] = "isUnused"
  /\ \/ /\ owner[CertifiedNonce(d)] = NoCall
        /\ Goto(d, "validate")
        /\ UNCHANGED <<response, sample>>
     \/ /\ owner[CertifiedNonce(d)] # NoCall
        /\ Respond(d, "REPLAY")
        /\ sample' = [sample EXCEPT ![d] = NoSample]
  /\ UNCHANGED <<worldVars, request, storeVars, forwarded, soundCall>>
  /\ ObserveLive

(* Mutant: the capability is consumed before the authorizer is asked.      *)
FinishValidation_ConsumesFirst(d) ==
  /\ pc[d] = "validate"
  /\ IF SampledStateValid(request[d], sample[d], SkipGuards) /\ LiveAuthorized(request[d])
       THEN Goto(d, "consume") /\ UNCHANGED response
       ELSE Respond(d, "REJECTED")
  /\ owner' = IF owner[CertifiedNonce(d)] = NoCall
                THEN [owner EXCEPT ![CertifiedNonce(d)] = StoreCall(d)] ELSE owner
  /\ sample' = [sample EXCEPT ![d] = NoSample]
  /\ UNCHANGED <<worldVars, request, answer, forwarded, soundCall>>
  /\ ObserveLive

(* The rest of admissionValid: proposal, guards and policy epoch on the    *)
(* sampled values, then authorization and revocation on the live objects.  *)
FinishValidation(d) ==
  /\ pc[d] = "validate"
  /\ IF SampledStateValid(request[d], sample[d], SkipGuards) /\ LiveAuthorized(request[d])
       THEN Goto(d, "consume") /\ UNCHANGED response
       ELSE Respond(d, "REJECTED")
  /\ sample' = [sample EXCEPT ![d] = NoSample]
  /\ UNCHANGED <<worldVars, request, storeVars, forwarded, soundCall>>
  /\ ObserveLive

(* consumeOnce is under way: the store has set the nonce aside.            *)
ClaimNonce(d) ==
  /\ pc[d] = "consume"
  /\ Store!Claim(StoreCall(d))
  /\ UNCHANGED <<worldVars, pc, request, sample, response, forwarded, soundCall>>
  /\ ObserveLive

(* Mutant: a dispatch that loses the nonce waits for it to become free.    *)
Consume_NeverRefuses(d) ==
  /\ pc[d] = "consume"
  /\ Store!Win(StoreCall(d)) /\ Goto(d, "forward") /\ UNCHANGED response
  /\ UNCHANGED <<worldVars, request, sample, forwarded, soundCall>>
  /\ ObserveLive

(* consumeOnce answers.                                                    *)
Consume(d) ==
  /\ pc[d] = "consume"
  /\ \/ Store!Win(StoreCall(d)) /\ Goto(d, "forward") /\ UNCHANGED response
     \/ Store!Refuse(StoreCall(d)) /\ Respond(d, "REPLAY")
  /\ UNCHANGED <<worldVars, request, sample, forwarded, soundCall>>
  /\ ObserveLive

(* isUnused or consumeOnce throws, and so does authorizedDispatch.         *)
StoreThrows(d) ==
  /\ \/ pc[d] = "isUnused" /\ UNCHANGED storeVars
     \/ pc[d] = "consume" /\ Store!Throw(StoreCall(d))
  /\ Respond(d, "THROWN")
  /\ sample' = [sample EXCEPT ![d] = NoSample]
  /\ UNCHANGED <<worldVars, request, forwarded, soundCall>>
  /\ ObserveLive

(* The capability is burned: the adapter's execute is called.              *)
Forward(d) ==
  /\ pc[d] = "forward"
  /\ Goto(d, "executing")
  /\ forwarded' = forwarded \cup {d}
  /\ UNCHANGED <<worldVars, request, sample, response, storeVars, soundCall>>
  /\ ObserveLive

(* Mutant: an ambiguous outcome gives the capability back for a retry.     *)
AdapterAnswers_Refunds(d) ==
  /\ pc[d] = "executing"
  /\ \/ Respond(d, "EXECUTED") /\ UNCHANGED owner
     \/ /\ Respond(d, "AMBIGUOUS_OUTCOME")
        /\ owner' = [owner EXCEPT ![CertifiedNonce(d)] = NoCall]
  /\ UNCHANGED <<worldVars, request, sample, answer, forwarded, soundCall>>
  /\ ObserveLive

(* Mutant: an exception of the adapter is reported as a rejection.         *)
AdapterAnswers_RejectsOnException(d) ==
  /\ pc[d] = "executing"
  /\ \E outcome \in {"SUCCESS", "FAILED", "AMBIGUOUS", "exception"} :
       Respond(d, IF outcome = "exception" THEN "REJECTED"
                  ELSE IF outcome = "AMBIGUOUS" THEN "AMBIGUOUS_OUTCOME" ELSE "EXECUTED")
  /\ UNCHANGED <<worldVars, request, sample, storeVars, forwarded, soundCall>>
  /\ ObserveLive

(* Mutant: the adapter's outcome is passed on as the dispatch status.      *)
AdapterAnswers_PassesOutcome(d) ==
  /\ pc[d] = "executing"
  /\ \E outcome \in {"SUCCESS", "FAILED", "AMBIGUOUS"} : Respond(d, outcome)
  /\ UNCHANGED <<worldVars, request, sample, storeVars, forwarded, soundCall>>
  /\ ObserveLive

(* The adapter returns SUCCESS or FAILED, returns AMBIGUOUS, or throws.    *)
AdapterAnswers(d) ==
  /\ pc[d] = "executing"
  /\ \E outcome \in {"SUCCESS", "FAILED", "AMBIGUOUS", "exception"} :
       Respond(d, IF outcome \in {"SUCCESS", "FAILED"}
                    THEN "EXECUTED" ELSE "AMBIGUOUS_OUTCOME")
  /\ UNCHANGED <<worldVars, request, sample, storeVars, forwarded, soundCall>>
  /\ ObserveLive

------------------------------------------------------------------------------
Unmoved == UNCHANGED <<pc, request, sample, response, storeVars, forwarded, soundCall>>

Tick ==
  /\ now < MaxTime
  /\ now' = now + 1
  /\ UNCHANGED <<view, policyEpoch, allowed, revoked>>

Drift ==
  /\ view' \in Views \ {view}
  /\ UNCHANGED <<now, policyEpoch, allowed, revoked>>

ChangePolicy ==
  /\ policyEpoch' \in PolicyEpochs \ {policyEpoch}
  /\ UNCHANGED <<now, view, allowed, revoked>>

ChangeGrants ==
  /\ \E p \in Principals :
       \/ \E a \in Actions :
            \/ Authorizer!RevokeAction(p, a)
            \/ \E scope \in SUBSET ScopeItems : Authorizer!Grant(p, a, scope)
       \/ Authorizer!RevokePrincipal(p)
  /\ UNCHANGED <<now, view, policyEpoch, revoked>>

RevokeAdmission ==
  /\ \E id \in AdmissionIds \ revoked : revoked' = revoked \cup {id}
  /\ UNCHANGED <<now, view, policyEpoch, allowed>>

WorldMoves ==
  /\ moves < MaxMoves /\ moves' = moves + 1
  /\ Tick \/ Drift \/ ChangePolicy \/ ChangeGrants \/ RevokeAdmission
  /\ Unmoved
  /\ ObserveLive

(* The process running d dies.  A process death is the death of each of    *)
(* its dispatches.                                                         *)
Die(d) ==
  /\ pc[d] \in Active
  /\ Goto(d, "dead")
  /\ sample' = [sample EXCEPT ![d] = NoSample]
  /\ UNCHANGED <<worldVars, request, response, storeVars, forwarded, soundCall>>
  /\ ObserveLive

(* Power fails: every dispatch dies, the store may forget unwon claims.    *)
PowerFailure ==
  /\ pc' = [d \in Dispatches |-> IF pc[d] \in Active THEN "dead" ELSE pc[d]]
  /\ sample' = [d \in Dispatches |-> NoSample]
  /\ Store!Forget
  /\ UNCHANGED <<worldVars, request, response, forwarded, soundCall>>
  /\ ObserveLive

Progress(d) ==
  CheckNonce(d) \/ FinishValidation(d) \/ Consume(d) \/ Forward(d) \/ AdapterAnswers(d)

(* Every step but a call.                                                  *)
Running ==
  \/ \E d \in Dispatches :
       \/ CheckNonce(d) \/ FinishValidation(d)
       \/ ClaimNonce(d) \/ Consume(d) \/ StoreThrows(d)
       \/ Forward(d) \/ AdapterAnswers(d) \/ Die(d)
  \/ WorldMoves
  \/ PowerFailure

Next == (\E d \in Dispatches : Call(d)) \/ Running

Spec == Init /\ [][Next]_vars

(* A running gateway runs its continuations, the store answers and the     *)
(* adapter returns or throws.                                              *)
Fairness == \A d \in Dispatches : WF_vars(Progress(d))

FairSpec == Spec /\ Fairness

------------------------------------------------------------------------------
(* A certificate reaches the target at most once, whatever the number of   *)
(* dispatches, deaths, ambiguous outcomes and presented copies.            *)
AtMostOneExecution ==
  \A d, e \in forwarded : CertifiedNonce(d) = CertifiedNonce(e) => d = e

(* What reaches the target was admissible when it was called, and its      *)
(* subject was authorized and its admission not revoked at one instant     *)
(* between the call and the execution.                                     *)
ExecutedWasAdmissible ==
  \A d \in Dispatches : pc[d] = "executing" => d \in soundCall \cap liveSeen

(* admissionValid "MUST NOT consume the nonce": a dispatch that failed     *)
(* validation owns no nonce and has reached nothing.                       *)
RejectionBurnsNothing ==
  \A d \in Dispatches : response[d] = "REJECTED" =>
    /\ d \notin forwarded
    /\ \A n \in Nonces : owner[n] # <<d, n>>

(* No inadmissible presentation spoils a good certificate: a nonce is set  *)
(* aside only for a dispatch whose call met the admission rule.            *)
BurnedByAdmissible ==
  \A n \in Nonces : \A d \in Dispatches : owner[n] = <<d, n>> => d \in soundCall

(* The caller learns what happened: an answer other than EXECUTED or       *)
(* AMBIGUOUS_OUTCOME means the target was not reached, and those two mean  *)
(* that it was.                                                            *)
ResponseIsHonest ==
  \A d \in Dispatches : pc[d] = "done" =>
    (d \in forwarded <=> response[d] \in {"EXECUTED", "AMBIGUOUS_OUTCOME"})

(* Every dispatch is answered unless its process dies.                     *)
EveryDispatchEnds ==
  \A d \in Dispatches : pc[d] \in Active ~> pc[d] \in {"done", "dead"}

(* "Single-use runtime guards evaluated atomically at gateway dispatch"    *)
(* (artifact/REPRODUCING.md): the guards hold when the target is reached.  *)
GuardsHoldAtExecution ==
  [][\A d \in Dispatches : Forward(d) => LiveGuardsHold(request[d].certificate, view)]_vars

=============================================================================
