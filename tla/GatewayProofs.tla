---------------------------- MODULE GatewayProofs ----------------------------
(***************************************************************************)
(* The safety of authorizedDispatch, for any number of dispatches,         *)
(* certificates, views, policies and deaths, and with no bound on how      *)
(* often the world moves.  At most one execution comes from the single     *)
(* winner of the one-shot store; the rest from an invariant that says what *)
(* is known of a dispatch at each of its awaits.  At the end the gateway   *)
(* is put together with the registry of templates and the minting of       *)
(* certificates.                                                           *)
(***************************************************************************)
EXTENDS EnvelopeGateway, TLAPS

AfterStore == {"consume", "forward", "executing", "done", "dead"}
Launched == {"forward", "executing"}

(* A dispatch that was called has a request, and before the end of         *)
(* validation the sample of its caller.                                    *)
CalledHasRequest == \A d \in Dispatches : pc[d] # "idle" => request[d] \in Requests
ValidatingHasSample ==
  \A d \in Dispatches : pc[d] \in {"isUnused", "validate"} =>
    sample[d] \in Samples /\ PresentationValid(request[d], sample[d].time)

(* If the sampled state passes, the call met the admission rule.           *)
ValidatingIsSound ==
  \A d \in Dispatches :
    pc[d] \in {"isUnused", "validate"}
      /\ SampledStateValid(request[d], sample[d], SkipGuards) => d \in soundCall
ConsumingIsSound ==
  \A d \in Dispatches : pc[d] \in {"consume"} \cup Launched => d \in soundCall
ConsumingWasLive ==
  \A d \in Dispatches : pc[d] \in {"consume"} \cup Launched => d \in liveSeen

(* A nonce is owned by a dispatch that got as far as the store, for the    *)
(* nonce of its own certificate.                                           *)
OwnerReachedStore ==
  \A n \in Nonces : \A d \in Dispatches : \A m \in Nonces : owner[n] = <<d, m>> =>
    m = n /\ pc[d] \in AfterStore /\ d \in soundCall /\ response[d] # "REJECTED"

(* Only a call answered true is launched, only a launched one is forwarded.*)
LaunchedWon ==
  \A d \in Dispatches : pc[d] \in Launched \/ d \in forwarded =>
    request[d] \in Requests /\ answer[StoreCall(d)] = "true"
ForwardedWhen ==
  \A d \in Dispatches :
    /\ pc[d] = "executing" => d \in forwarded
    /\ d \in forwarded => pc[d] \in {"executing", "done", "dead"}
AnsweredWhenDone ==
  \A d \in Dispatches :
    /\ response[d] # "none" <=> pc[d] = "done"
    /\ pc[d] = "done" =>
         (d \in forwarded <=> response[d] \in {"EXECUTED", "AMBIGUOUS_OUTCOME"})

GatewayInv ==
  /\ TypeOK
  /\ CalledHasRequest /\ ValidatingHasSample /\ ValidatingIsSound
  /\ ConsumingIsSound /\ ConsumingWasLive
  /\ OwnerReachedStore /\ LaunchedWon /\ ForwardedWhen /\ AnsweredWhenDone

(* The nonce of a request is one of the nonces in circulation.             *)
LEMMA RequestNonce ==
  \A r \in Requests :
    /\ r.certificate \in Certificates
    /\ r.certificate.nonce \in Nonces
    /\ r.certificate.admissionId \in AdmissionIds
BY DEF Certificates, Nonces, AdmissionIds

(* What admissionValid checks on the presentation and on the sample is the *)
(* admission rule, when the sample is of this very instant.                *)
LEMMA ChecksImplyRule ==
  ASSUME NEW r \in Requests,
         PresentationValid(r, now),
         SampledStateValid(r, [time |-> now, view |-> view, policyEpoch |-> policyEpoch],
                           SkipGuards)
  PROVE  AdmissibleCall(r)
<1> DEFINE c == r.certificate
<1>1. /\ c.signed /\ now >= c.issuedAt /\ now <= c.expiresAt
      /\ r.requester = c.subject /\ r.proposal.principal = c.subject
  BY DEF PresentationValid
<1>2. /\ ProposalValid(r, now)
      /\ SkipGuards \/ LiveGuardsHold(c, view)
      /\ c.policyEpoch = policyEpoch
  BY DEF SampledStateValid
<1> DEFINE required == c.envelope.template.guardIds
<1>3. /\ r.proposal = Covered(c)
      /\ c.mode = "ENVELOPE" =>
           now <= EnvelopeEnd(c.envelope) /\ Allows(c.envelope.template, r.proposal)
  BY <1>2 DEF ProposalValid, Covered
<1>4. c.mode = "ENVELOPE" => required \subseteq {g.id : g \in c.guards}
  BY <1>2 DEF ProposalValid
<1>5. ~SkipGuards =>
        /\ \A g \in c.guards : GuardHolds(g, view)
        /\ c.mode = "ENVELOPE" =>
             \A id \in required : \E g \in c.guards : g.id = id /\ GuardHolds(g, view)
  BY <1>2, <1>4 DEF LiveGuardsHold
<1>6. QED
  BY <1>1, <1>2, <1>3, <1>5 DEF AdmissibleCall

LEMMA GatewayInvInit == Init => GatewayInv
<1> SUFFICES ASSUME Init PROVE GatewayInv
  OBVIOUS
<1> USE GatewayAssumption DEF Init
<1>1. TypeOK
  BY DEF TypeOK, Authorizer!AuthorizerTypeOK, Responses, Store!Answers
<1>2. CalledHasRequest /\ ValidatingHasSample /\ ValidatingIsSound
  BY DEF CalledHasRequest, ValidatingHasSample, ValidatingIsSound
<1>3. ConsumingIsSound /\ ConsumingWasLive
  BY DEF ConsumingIsSound, ConsumingWasLive, Launched
<1>4. OwnerReachedStore
  BY DEF OwnerReachedStore, StoreCalls
<1>5. LaunchedWon /\ ForwardedWhen /\ AnsweredWhenDone
  BY DEF LaunchedWon, ForwardedWhen, AnsweredWhenDone, Launched
<1>6. QED
  BY <1>1, <1>2, <1>3, <1>4, <1>5 DEF GatewayInv

(* Changing grants keeps the map of the authorizer well typed.             *)
LEMMA ChangeGrantsTyped ==
  ASSUME Authorizer!AuthorizerTypeOK, ChangeGrants
  PROVE  Authorizer!AuthorizerTypeOK'
<1> USE DEF Authorizer!AuthorizerTypeOK, Authorizer!Grants
<1>1. PICK p \in Principals :
        \/ \E a \in Actions :
             \/ Authorizer!RevokeAction(p, a)
             \/ \E scope \in SUBSET ScopeItems : Authorizer!Grant(p, a, scope)
        \/ Authorizer!RevokePrincipal(p)
  BY DEF ChangeGrants
<1>2. ASSUME NEW a \in Actions, Authorizer!RevokeAction(p, a)
      PROVE  Authorizer!AuthorizerTypeOK'
  BY <1>2 DEF Authorizer!RevokeAction
<1>3. ASSUME NEW a \in Actions, NEW scope \in SUBSET ScopeItems,
             Authorizer!Grant(p, a, scope)
      PROVE  Authorizer!AuthorizerTypeOK'
  BY <1>3 DEF Authorizer!Grant
<1>4. CASE Authorizer!RevokePrincipal(p)
  BY <1>4 DEF Authorizer!RevokePrincipal
<1>5. QED
  BY <1>1, <1>2, <1>3, <1>4

(* The world does not touch a dispatch, so only its type is at stake.      *)
LEMMA WorldMovesTyped ==
  ASSUME TypeOK, WorldMoves
  PROVE  /\ now' \in 0..MaxTime /\ view' \in Views /\ policyEpoch' \in PolicyEpochs
         /\ Authorizer!AuthorizerTypeOK' /\ revoked' \in SUBSET AdmissionIds
         /\ moves' \in 0..MaxMoves
<1> USE GatewayAssumption DEF TypeOK
<1>1. moves' \in 0..MaxMoves
  BY DEF WorldMoves
<1>2. CASE Tick
  BY <1>1, <1>2 DEF Tick, Authorizer!AuthorizerTypeOK
<1>3. CASE Drift
  BY <1>1, <1>3 DEF Drift, Authorizer!AuthorizerTypeOK
<1>4. CASE ChangePolicy
  BY <1>1, <1>4 DEF ChangePolicy, Authorizer!AuthorizerTypeOK
<1>5. CASE ChangeGrants
  BY <1>1, <1>5, ChangeGrantsTyped DEF ChangeGrants
<1>6. CASE RevokeAdmission
  BY <1>1, <1>6 DEF RevokeAdmission, Authorizer!AuthorizerTypeOK
<1>7. QED
  BY <1>2, <1>3, <1>4, <1>5, <1>6 DEF WorldMoves

(* A dispatch at or past the store stays live: no step but the end of      *)
(* validation brings a dispatch to the store.                              *)
LEMMA LiveStaysSeen ==
  ASSUME TypeOK, ConsumingWasLive, ObserveLive,
         \A d \in Dispatches : pc'[d] \in {"consume"} \cup Launched =>
           \/ pc[d] \in {"consume"} \cup Launched
           \/ LiveAuthorized(request[d])'
  PROVE  ConsumingWasLive' /\ liveSeen' \in SUBSET Dispatches
BY DEF ConsumingWasLive, ObserveLive, Launched, Active

(* The invariant is kept by every action.                                  *)
LEMMA GatewayInvStep ==
  ASSUME GatewayInv, [Next]_vars
  PROVE  GatewayInv'
<1> USE GatewayAssumption, RequestNonce
    DEF GatewayInv, TypeOK, CalledHasRequest, ValidatingHasSample, ValidatingIsSound,
        ConsumingIsSound, OwnerReachedStore, LaunchedWon, ForwardedWhen,
        AnsweredWhenDone, AfterStore, Launched, Active, Responses,
        StoreCall, CertifiedNonce, StoreCalls, Store!Answers, Goto, Respond,
        Authorizer!AuthorizerTypeOK, worldVars, storeVars
<1>1. ASSUME NEW d \in Dispatches, Call(d) PROVE GatewayInv'
  <2>0. PICK r \in Requests : CallWith(d, r)
    BY <1>1 DEF Call
  <2>1. /\ request' = [request EXCEPT ![d] = r]
        /\ soundCall' = IF AdmissibleCall(r) THEN soundCall \cup {d} ELSE soundCall
        /\ \/ /\ PresentationValid(r, now)
              /\ Goto(d, "isUnused")
              /\ sample' = [sample EXCEPT ![d] =
                   [time |-> now, view |-> view, policyEpoch |-> policyEpoch]]
              /\ UNCHANGED response
           \/ /\ ~PresentationValid(r, now)
              /\ Respond(d, "REJECTED")
              /\ UNCHANGED sample
    BY <2>0 DEF CallWith
  <2>2. /\ pc[d] = "idle" /\ ObserveLive
        /\ UNCHANGED <<worldVars, storeVars, forwarded>>
    BY <2>0 DEF CallWith
  <2>3. ConsumingWasLive' /\ liveSeen' \in SUBSET Dispatches
    BY <2>1, <2>2, LiveStaysSeen
  <2>4. TypeOK' /\ CalledHasRequest' /\ ValidatingHasSample'
    BY <2>1, <2>2, <2>3 DEF Samples
  <2>5. ValidatingIsSound'
    BY <2>1, <2>2, ChecksImplyRule
  <2>6. ConsumingIsSound' /\ OwnerReachedStore' /\ LaunchedWon'
    BY <2>1, <2>2
  <2>7. ForwardedWhen' /\ AnsweredWhenDone'
    BY <2>1, <2>2
  <2>8. QED
    BY <2>3, <2>4, <2>5, <2>6, <2>7
<1>2. ASSUME NEW d \in Dispatches, CheckNonce(d) PROVE GatewayInv'
  <2>1. ConsumingWasLive' /\ liveSeen' \in SUBSET Dispatches
    BY <1>2, LiveStaysSeen DEF CheckNonce
  <2>2. CASE Goto(d, "validate") /\ UNCHANGED <<response, sample>>
    <3>1. TypeOK' /\ CalledHasRequest'
      BY <1>2, <2>1, <2>2 DEF CheckNonce
    <3>2. ValidatingHasSample' /\ ValidatingIsSound'
      BY <1>2, <2>2 DEF CheckNonce
    <3>3. ConsumingIsSound' /\ OwnerReachedStore'
      BY <1>2, <2>2 DEF CheckNonce
    <3>4. LaunchedWon' /\ ForwardedWhen' /\ AnsweredWhenDone'
      BY <1>2, <2>2 DEF CheckNonce
    <3>5. QED
      BY <2>1, <3>1, <3>2, <3>3, <3>4
  <2>3. CASE Respond(d, "REPLAY") /\ sample' = [sample EXCEPT ![d] = NoSample]
    <3>1. TypeOK' /\ CalledHasRequest'
      BY <1>2, <2>1, <2>3 DEF CheckNonce
    <3>2. ValidatingHasSample' /\ ValidatingIsSound'
      BY <1>2, <2>3 DEF CheckNonce
    <3>3. ConsumingIsSound' /\ OwnerReachedStore'
      BY <1>2, <2>3 DEF CheckNonce
    <3>4. LaunchedWon' /\ ForwardedWhen' /\ AnsweredWhenDone'
      BY <1>2, <2>3 DEF CheckNonce
    <3>5. QED
      BY <2>1, <3>1, <3>2, <3>3, <3>4
  <2>4. QED
    BY <1>2, <2>2, <2>3 DEF CheckNonce
<1>3. ASSUME NEW d \in Dispatches, FinishValidation(d) PROVE GatewayInv'
  <2>1. ConsumingWasLive' /\ liveSeen' \in SUBSET Dispatches
    BY <1>3, LiveStaysSeen
       DEF FinishValidation, LiveAuthorized, Authorizer!IsAuthorized
  <2>2. TypeOK' /\ CalledHasRequest' /\ ValidatingHasSample' /\ ValidatingIsSound'
    BY <1>3, <2>1 DEF FinishValidation
  <2>3. ConsumingIsSound' /\ OwnerReachedStore'
    BY <1>3 DEF FinishValidation
  <2>4. LaunchedWon' /\ ForwardedWhen' /\ AnsweredWhenDone'
    BY <1>3 DEF FinishValidation
  <2>5. QED
    BY <2>1, <2>2, <2>3, <2>4
<1>4. ASSUME NEW d \in Dispatches, ClaimNonce(d) PROVE GatewayInv'
  <2>1. ConsumingWasLive' /\ liveSeen' \in SUBSET Dispatches
    BY <1>4, LiveStaysSeen DEF ClaimNonce
  <2>2. owner' = [owner EXCEPT ![CertifiedNonce(d)] = StoreCall(d)] /\ UNCHANGED answer
    BY <1>4 DEF ClaimNonce, Store!Claim
  <2>3. QED
    BY <1>4, <2>1, <2>2 DEF ClaimNonce
<1>5. ASSUME NEW d \in Dispatches, Consume(d) PROVE GatewayInv'
  <2>1. ConsumingWasLive' /\ liveSeen' \in SUBSET Dispatches
    BY <1>5, LiveStaysSeen DEF Consume
  <2>2. CASE Store!Win(StoreCall(d)) /\ Goto(d, "forward") /\ UNCHANGED response
    <3>1. /\ pc[d] = "consume" /\ pc' = [pc EXCEPT ![d] = "forward"]
          /\ UNCHANGED <<worldVars, request, sample, response, forwarded, soundCall>>
      BY <1>5, <2>2 DEF Consume
    <3>2. /\ owner' = [owner EXCEPT ![CertifiedNonce(d)] = StoreCall(d)]
          /\ answer' = [answer EXCEPT ![StoreCall(d)] = "true"]
      BY <3>1, <2>2 DEF Store!Win
    <3>3. TypeOK' /\ CalledHasRequest' /\ ValidatingHasSample' /\ ValidatingIsSound'
      BY <2>1, <3>1, <3>2
    <3>4. ConsumingIsSound' /\ OwnerReachedStore'
      BY <3>1, <3>2
    <3>5. LaunchedWon' /\ ForwardedWhen' /\ AnsweredWhenDone'
      BY <3>1, <3>2
    <3>6. QED
      BY <2>1, <3>3, <3>4, <3>5
  <2>3. CASE Store!Refuse(StoreCall(d)) /\ Respond(d, "REPLAY")
    <3>1. /\ pc[d] = "consume" /\ pc' = [pc EXCEPT ![d] = "done"]
          /\ response' = [response EXCEPT ![d] = "REPLAY"]
          /\ UNCHANGED <<worldVars, request, sample, forwarded, soundCall>>
      BY <1>5, <2>3 DEF Consume
    <3>2. /\ answer' = [answer EXCEPT ![StoreCall(d)] = "false"]
          /\ UNCHANGED owner
      BY <2>3 DEF Store!Refuse
    <3>3. TypeOK' /\ CalledHasRequest' /\ ValidatingHasSample' /\ ValidatingIsSound'
      BY <2>1, <3>1, <3>2
    <3>4. ConsumingIsSound' /\ OwnerReachedStore'
      BY <3>1, <3>2
    <3>5. LaunchedWon' /\ ForwardedWhen' /\ AnsweredWhenDone'
      BY <3>1, <3>2
    <3>6. QED
      BY <2>1, <3>3, <3>4, <3>5
  <2>4. QED
    BY <1>5, <2>2, <2>3 DEF Consume
<1>6. ASSUME NEW d \in Dispatches, StoreThrows(d) PROVE GatewayInv'
  <2>1. ConsumingWasLive' /\ liveSeen' \in SUBSET Dispatches
    BY <1>6, LiveStaysSeen DEF StoreThrows
  <2>2. CASE pc[d] = "isUnused" /\ UNCHANGED storeVars
    <3>1. /\ pc[d] = "isUnused" /\ UNCHANGED answer
          /\ pc' = [pc EXCEPT ![d] = "done"] /\ response' = [response EXCEPT ![d] = "THROWN"]
          /\ sample' = [sample EXCEPT ![d] = NoSample]
          /\ UNCHANGED <<worldVars, request, owner, forwarded, soundCall>>
      BY <1>6, <2>2 DEF StoreThrows, Store!Throw
    <3>2. TypeOK' /\ CalledHasRequest'
      BY <2>1, <3>1
    <3>3. ValidatingHasSample' /\ ValidatingIsSound'
      BY <3>1
    <3>4. ConsumingIsSound' /\ OwnerReachedStore'
      BY <3>1
    <3>5. LaunchedWon' /\ ForwardedWhen' /\ AnsweredWhenDone'
      BY <3>1
    <3>6. QED
      BY <2>1, <3>2, <3>3, <3>4, <3>5
  <2>3. CASE pc[d] = "consume" /\ Store!Throw(StoreCall(d))
    <3>1. /\ pc[d] = "consume" /\ answer' = [answer EXCEPT ![StoreCall(d)] = "thrown"]
          /\ pc' = [pc EXCEPT ![d] = "done"] /\ response' = [response EXCEPT ![d] = "THROWN"]
          /\ sample' = [sample EXCEPT ![d] = NoSample]
          /\ UNCHANGED <<worldVars, request, owner, forwarded, soundCall>>
      BY <1>6, <2>3 DEF StoreThrows, Store!Throw
    <3>2. TypeOK' /\ CalledHasRequest'
      BY <2>1, <3>1
    <3>3. ValidatingHasSample' /\ ValidatingIsSound'
      BY <3>1
    <3>4. ConsumingIsSound' /\ OwnerReachedStore'
      BY <3>1
    <3>5. LaunchedWon' /\ ForwardedWhen' /\ AnsweredWhenDone'
      BY <3>1
    <3>6. QED
      BY <2>1, <3>2, <3>3, <3>4, <3>5
  <2>4. QED
    BY <1>6, <2>2, <2>3 DEF StoreThrows
<1>7. ASSUME NEW d \in Dispatches, Forward(d) PROVE GatewayInv'
  <2>1. ConsumingWasLive' /\ liveSeen' \in SUBSET Dispatches
    BY <1>7, LiveStaysSeen DEF Forward
  <2>2. TypeOK' /\ CalledHasRequest' /\ ValidatingHasSample' /\ ValidatingIsSound'
    BY <1>7, <2>1 DEF Forward
  <2>3. ConsumingIsSound' /\ OwnerReachedStore'
    BY <1>7 DEF Forward
  <2>4. LaunchedWon' /\ ForwardedWhen' /\ AnsweredWhenDone'
    BY <1>7 DEF Forward
  <2>5. QED
    BY <2>1, <2>2, <2>3, <2>4
<1>8. ASSUME NEW d \in Dispatches, AdapterAnswers(d) PROVE GatewayInv'
  <2>1. ConsumingWasLive' /\ liveSeen' \in SUBSET Dispatches
    BY <1>8, LiveStaysSeen DEF AdapterAnswers
  <2>2. TypeOK' /\ CalledHasRequest' /\ ValidatingHasSample' /\ ValidatingIsSound'
    BY <1>8, <2>1 DEF AdapterAnswers
  <2>3. ConsumingIsSound' /\ OwnerReachedStore'
    BY <1>8 DEF AdapterAnswers
  <2>4. LaunchedWon' /\ ForwardedWhen' /\ AnsweredWhenDone'
    BY <1>8 DEF AdapterAnswers
  <2>5. QED
    BY <2>1, <2>2, <2>3, <2>4
<1>9. ASSUME NEW d \in Dispatches, Die(d) PROVE GatewayInv'
  <2>1. ConsumingWasLive' /\ liveSeen' \in SUBSET Dispatches
    BY <1>9, LiveStaysSeen DEF Die
  <2>2. TypeOK' /\ CalledHasRequest' /\ ValidatingHasSample' /\ ValidatingIsSound'
    BY <1>9, <2>1 DEF Die
  <2>3. ConsumingIsSound' /\ OwnerReachedStore'
    BY <1>9 DEF Die
  <2>4. LaunchedWon' /\ ForwardedWhen' /\ AnsweredWhenDone'
    BY <1>9 DEF Die
  <2>5. QED
    BY <2>1, <2>2, <2>3, <2>4
<1>10. CASE WorldMoves
  <2>1. ConsumingWasLive' /\ liveSeen' \in SUBSET Dispatches
    BY <1>10, LiveStaysSeen DEF WorldMoves, Unmoved
  <2>2. QED
    BY <1>10, <2>1, WorldMovesTyped DEF WorldMoves, Unmoved
<1>11. CASE PowerFailure
  <2>1. ConsumingWasLive' /\ liveSeen' \in SUBSET Dispatches
    BY <1>11, LiveStaysSeen DEF PowerFailure
  <2> HIDE DEF GatewayInv
  <2>2. Store!Forget
    BY <1>11 DEF PowerFailure
  <2>3. /\ \E kept \in SUBSET Nonces :
             owner' = [n \in Nonces |-> IF n \in kept THEN owner[n] ELSE NoCall]
        /\ UNCHANGED answer
    BY <2>2 DEF Store!Forget
  <2> USE DEF GatewayInv
  <2>4. QED
    BY <1>11, <2>1, <2>2, <2>3 DEF PowerFailure
<1>12. CASE UNCHANGED vars
  BY <1>12 DEF vars, ConsumingWasLive
<1>13. QED
  BY <1>1, <1>2, <1>3, <1>4, <1>5, <1>6, <1>7, <1>8, <1>9, <1>10, <1>11, <1>12
     DEF Next, Running

(* Every state of every behaviour satisfies the invariant.                 *)
LEMMA GatewayInvHolds == Spec => []GatewayInv
<1>1. GatewayInv /\ [Next]_vars => GatewayInv'
  BY GatewayInvStep
<1>2. QED
  BY GatewayInvInit, <1>1, PTL DEF Spec

(* The state of the gateway stays well typed.                              *)
THEOREM GatewayTyped == Spec => []TypeOK
<1>1. GatewayInv => TypeOK
  BY DEF GatewayInv
<1>2. QED
  BY GatewayInvHolds, <1>1, PTL

(* What reaches the target was admissible when called, and live at an      *)
(* instant between the call and the execution.                             *)
THEOREM OnlyAdmissibleIsExecuted == Spec => []ExecutedWasAdmissible
<1>1. GatewayInv => ExecutedWasAdmissible
  BY DEF GatewayInv, ConsumingIsSound, ConsumingWasLive, Launched, ExecutedWasAdmissible
<1>2. QED
  BY GatewayInvHolds, <1>1, PTL

(* A rejected dispatch owns no nonce and reached nothing.                  *)
THEOREM RejectionsBurnNothing == Spec => []RejectionBurnsNothing
<1>1. GatewayInv => RejectionBurnsNothing
  BY DEF GatewayInv, AnsweredWhenDone, OwnerReachedStore, RejectionBurnsNothing
<1>2. QED
  BY GatewayInvHolds, <1>1, PTL

(* Only an admissible call sets a nonce aside.                             *)
THEOREM OnlyAdmissibleBurns == Spec => []BurnedByAdmissible
<1>1. GatewayInv => BurnedByAdmissible
  BY DEF GatewayInv, OwnerReachedStore, BurnedByAdmissible
<1>2. QED
  BY GatewayInvHolds, <1>1, PTL

(* A dispatch says EXECUTED or AMBIGUOUS_OUTCOME exactly when the target   *)
(* was reached.                                                            *)
THEOREM ResponsesAreHonest == Spec => []ResponseIsHonest
<1>1. GatewayInv => ResponseIsHonest
  BY DEF GatewayInv, AnsweredWhenDone, ResponseIsHonest
<1>2. QED
  BY GatewayInvHolds, <1>1, PTL

(* Each step of the gateway is a step of the one-shot store or none.       *)
LEMMA GatewayStepIsStoreStep ==
  ASSUME GatewayInv, [Next]_vars
  PROVE  [Store!Next]_(Store!oneShotVars)
<1> USE DEF Store!oneShotVars, storeVars
<1>1. ASSUME NEW d \in Dispatches, pc[d] # "idle" PROVE StoreCall(d) \in StoreCalls
  BY <1>1, RequestNonce DEF GatewayInv, CalledHasRequest, StoreCall, StoreCalls, CertifiedNonce
<1>2. ASSUME NEW d \in Dispatches, ClaimNonce(d) PROVE Store!Next
  BY <1>1, <1>2 DEF ClaimNonce, Store!Next
<1>3. ASSUME NEW d \in Dispatches, Consume(d) PROVE Store!Next
  BY <1>1, <1>3 DEF Consume, Store!Next
<1>4. ASSUME NEW d \in Dispatches, StoreThrows(d) PROVE [Store!Next]_(Store!oneShotVars)
  BY <1>1, <1>4 DEF StoreThrows, Store!Next
<1>5. ASSUME NEW d \in Dispatches,
             \/ Call(d) \/ CheckNonce(d) \/ FinishValidation(d)
             \/ Forward(d) \/ AdapterAnswers(d) \/ Die(d)
      PROVE  UNCHANGED Store!oneShotVars
  BY <1>5 DEF Call, CallWith, CheckNonce, FinishValidation, Forward, AdapterAnswers, Die
<1>6. CASE WorldMoves
  BY <1>6 DEF WorldMoves, Unmoved
<1>7. CASE PowerFailure
  BY <1>7 DEF PowerFailure, Store!Next
<1>8. CASE UNCHANGED vars
  BY <1>8 DEF vars
<1>9. QED
  BY <1>2, <1>3, <1>4, <1>5, <1>6, <1>7, <1>8 DEF Next, Running

(* A call answered true owns its nonce for good: the store is never reset, *)
(* and a power failure forgets only claims nobody was answered true for.   *)
WinnerOwns ==
  \A call \in StoreCalls : answer[call] = "true" => owner[call[2]] = call

LEMMA WinnerKeepsNonce ==
  ASSUME GatewayInv, WinnerOwns, [Next]_vars
  PROVE  WinnerOwns'
<1> USE DEF WinnerOwns
<1>1. /\ owner \in [Nonces -> StoreCalls \cup {NoCall}] /\ DOMAIN answer = StoreCalls
      /\ \A call \in StoreCalls : call[2] \in Nonces
  BY DEF GatewayInv, TypeOK, StoreCalls
<1>2. [Store!Next]_(Store!oneShotVars)
  BY GatewayStepIsStoreStep
<1>3. ASSUME NEW call \in StoreCalls, Store!Claim(call) PROVE WinnerOwns'
  BY <1>1, <1>3, GatewayAssumption DEF Store!Claim
<1>4. ASSUME NEW call \in StoreCalls, Store!Win(call) PROVE WinnerOwns'
  BY <1>1, <1>4, GatewayAssumption DEF Store!Win
<1>5. ASSUME NEW call \in StoreCalls, Store!Refuse(call) \/ Store!Throw(call)
      PROVE  WinnerOwns'
  BY <1>1, <1>5 DEF Store!Refuse, Store!Throw
<1>6. CASE Store!Forget
  BY <1>1, <1>6 DEF Store!Forget
<1>7. CASE UNCHANGED Store!oneShotVars
  BY <1>7 DEF Store!oneShotVars
<1>8. ~Store!Reset
  BY DEF Store!Reset
<1>9. QED
  BY <1>2, <1>3, <1>4, <1>5, <1>6, <1>7, <1>8 DEF Store!Next

(* The calls the store answers true to have distinct nonces.               *)
LEMMA GatewayStoreSingleWinner == Spec => []Store!SingleWinner
<1>1. Init => WinnerOwns
  BY DEF Init, WinnerOwns
<1>2. GatewayInv /\ WinnerOwns /\ [Next]_vars => WinnerOwns'
  BY WinnerKeepsNonce
<1>3. WinnerOwns => Store!SingleWinner
  BY DEF WinnerOwns, Store!SingleWinner
<1>4. QED
  BY GatewayInvHolds, <1>1, <1>2, <1>3, PTL DEF Spec

(* A certificate reaches the target at most once: forwarded dispatches     *)
(* were answered true, and the store answers true once per nonce.          *)
THEOREM GatewayExecutesOnce == Spec => []AtMostOneExecution
<1>1. GatewayInv /\ Store!SingleWinner => AtMostOneExecution
  <2> SUFFICES ASSUME GatewayInv, Store!SingleWinner,
                      NEW d \in forwarded, NEW e \in forwarded,
                      CertifiedNonce(d) = CertifiedNonce(e)
               PROVE  d = e
    BY DEF AtMostOneExecution
  <2>1. /\ d \in Dispatches /\ e \in Dispatches
        /\ answer[StoreCall(d)] = "true" /\ answer[StoreCall(e)] = "true"
        /\ StoreCall(d) \in StoreCalls /\ StoreCall(e) \in StoreCalls
    BY RequestNonce
       DEF GatewayInv, TypeOK, LaunchedWon, StoreCall, StoreCalls, CertifiedNonce
  <2>2. StoreCall(d) = StoreCall(e)
    BY <2>1 DEF Store!SingleWinner, StoreCall
  <2>3. QED
    BY <2>2 DEF StoreCall
<1>2. QED
  BY GatewayInvHolds, GatewayStoreSingleWinner, <1>1, PTL

------------------------------------------------------------------------------
(* What stays true of a presentation that passed admissionValid, whatever  *)
(* the world does since.                                                   *)
Passed(r) ==
  LET c == r.certificate IN
    /\ c.signed
    /\ r.proposal = Covered(c)
    /\ c.mode = "ENVELOPE" =>
         c.envelope.template.guardIds \subseteq {g.id : g \in c.guards}
BeyondPassed ==
  \A d \in Dispatches : pc[d] \in {"consume"} \cup Launched \/ d \in forwarded =>
    Passed(request[d]) /\ d \in soundCall

LEMMA ChecksImplyPassed ==
  ASSUME NEW r, NEW s, PresentationValid(r, s.time), SampledStateValid(r, s, SkipGuards)
  PROVE  Passed(r)
BY DEF PresentationValid, SampledStateValid, ProposalValid, Passed, Covered

LEMMA BeyondPassedStep ==
  ASSUME GatewayInv, BeyondPassed, [Next]_vars
  PROVE  BeyondPassed'
<1> USE DEF BeyondPassed, Launched, Goto, Respond
<1>t. /\ pc \in [Dispatches -> {"idle", "done", "dead"} \cup Active]
      /\ request \in [Dispatches -> Requests \cup {NoRequest}]
      /\ ForwardedWhen /\ ConsumingIsSound
  BY DEF GatewayInv, TypeOK
<1>1. ASSUME NEW d \in Dispatches, Call(d) PROVE BeyondPassed'
  BY <1>1, <1>t DEF Call, CallWith, ForwardedWhen, Active
<1>2. ASSUME NEW d \in Dispatches, FinishValidation(d) PROVE BeyondPassed'
  <2>1. pc[d] = "validate" /\ UNCHANGED <<request, forwarded, soundCall>>
    BY <1>2 DEF FinishValidation
  <2>2. CASE SampledStateValid(request[d], sample[d], SkipGuards)
    <3>1. PresentationValid(request[d], sample[d].time) /\ d \in soundCall
      BY <2>1, <2>2 DEF GatewayInv, ValidatingHasSample, ValidatingIsSound
    <3>2. Passed(request[d])
      BY <2>2, <3>1, ChecksImplyPassed
    <3>3. \A e \in Dispatches : e # d => pc'[e] = pc[e]
      BY <1>2, <1>t DEF FinishValidation
    <3>4. QED
      BY <2>1, <3>1, <3>2, <3>3
  <2>3. CASE ~SampledStateValid(request[d], sample[d], SkipGuards)
    BY <1>2, <1>t, <2>1, <2>3 DEF FinishValidation, Active
  <2>4. QED
    BY <2>2, <2>3
<1>3. ASSUME NEW d \in Dispatches,
             CheckNonce(d) \/ ClaimNonce(d) \/ Consume(d) \/ StoreThrows(d)
      PROVE  BeyondPassed'
  BY <1>3, <1>t DEF CheckNonce, ClaimNonce, Consume, StoreThrows, Active
<1>4. ASSUME NEW d \in Dispatches, Forward(d) \/ AdapterAnswers(d) \/ Die(d)
      PROVE  BeyondPassed'
  BY <1>4, <1>t DEF Forward, AdapterAnswers, Die, Active
<1>5. CASE WorldMoves
  BY <1>5 DEF WorldMoves, Unmoved
<1>6. CASE PowerFailure
  BY <1>6, <1>t DEF PowerFailure, Active
<1>7. CASE UNCHANGED vars
  BY <1>7 DEF vars
<1>8. QED
  BY <1>1, <1>2, <1>3, <1>4, <1>5, <1>6, <1>7 DEF Next, Running

LEMMA BeyondPassedHolds == Spec => []BeyondPassed
<1>1. Init => BeyondPassed
  BY DEF Init, BeyondPassed, Launched
<1>2. GatewayInv /\ BeyondPassed /\ [Next]_vars => BeyondPassed'
  BY BeyondPassedStep
<1>3. QED
  BY GatewayInvHolds, <1>1, <1>2, PTL DEF Spec

(* With the registry and the minting around it the gateway does nothing it *)
(* did not do before: what holds of Spec holds of EnvelopeSpec.            *)
THEOREM EnvelopeGatewayIsGateway == EnvelopeSpec => Spec
<1>1. EnvelopeInit => Init
  BY DEF EnvelopeInit
<1>2. ASSUME [EnvelopeNext]_<<vars, envelopeVars>> PROVE [Next]_vars
  <2>1. CASE Granting
    BY <2>1 DEF Granting
  <2>2. CASE Dispatching
    BY <2>2 DEF Dispatching, Next, Call
  <2>3. CASE UNCHANGED <<vars, envelopeVars>>
    BY <2>3
  <2>4. QED
    BY <1>2, <2>1, <2>2, <2>3 DEF EnvelopeNext
<1>3. QED
  BY <1>1, <1>2, PTL DEF EnvelopeSpec, Spec

------------------------------------------------------------------------------
(* What an issued certificate is, of which admission and which template.   *)
IssuedUnder(c, a, t) ==
  /\ Approved(t) /\ Allows(t, a.proposal)
  /\ \A q \in t.coverage : \E rule \in Policy.rules :
       q.family \in rule.families /\ rule.id \in a.manifest
  /\ c.envelope.template = t /\ c.envelope.covered = a.proposal
  /\ c.nonce = a.id /\ c.guards = a.guards
  /\ c.expiresAt <= a.witnessExpiry /\ c.expiresAt <= c.issuedAt + t.maxValidity
Sound(c) ==
  c.mode = "ENVELOPE" => \E a \in Admissions, t \in Templates : IssuedUnder(c, a, t)

EnvelopeInv ==
  /\ templates \subseteq Templates
  /\ \A t \in templates : Approved(t)
  /\ \A c \in issued : Sound(c)
  /\ \A d \in Dispatches : pc[d] # "idle" /\ request[d].certificate.signed =>
       Sound(request[d].certificate)

(* The least of three instants is none later than any of them.             *)
LEMMA MinOfThree ==
  ASSUME NEW x \in Int, NEW y \in Int, NEW z \in Int
  PROVE  Min({x, y, z}) <= x /\ Min({x, y, z}) <= y /\ Min({x, y, z}) <= z
<1>1. \E m \in {x, y, z} : \A n \in {x, y, z} : m <= n
  OBVIOUS
<1>2. QED
  BY <1>1 DEF Min

(* A registration keeps the registry approved.                             *)
LEMMA RegisterKeepsInv ==
  ASSUME EnvelopeInv, NEW t \in Templates, NEW x \in Attestations, Register(t, x)
  PROVE  /\ templates' \subseteq Templates
         /\ \A u \in templates' : Approved(u)
         /\ issued' = issued
<1>1. Approved(t)
  BY DEF Register, Registrable, Approved
<1>2. QED
  BY <1>1 DEF Register, EnvelopeInv

(* A certificate minted under an envelope is sound.                        *)
LEMMA MintedIsSound ==
  ASSUME EnvelopeInv, now \in Int, NEW a \in Admissions, IssueUnderEnvelope(a)
  PROVE  /\ \A c \in issued' : Sound(c)
         /\ templates' = templates
<1>1. PICK t \in templates :
        LET envelope == Instantiated(t, a.proposal, now) IN
          /\ Allows(t, a.proposal)
          /\ ManifestCovers(a.manifest, a.proposal, envelope, Policy.rules)
          /\ issued' = issued \cup {EnvelopeCertificate(a, envelope, now)}
  BY DEF IssueUnderEnvelope
<1> DEFINE envelope == Instantiated(t, a.proposal, now)
           c == EnvelopeCertificate(a, envelope, now)
<1>2. t \in Templates /\ Approved(t) /\ t.maxValidity \in Nat
  BY EnvelopeAssumption DEF EnvelopeInv
<1>3. /\ envelope.template = t /\ envelope.covered = a.proposal
      /\ envelope.instantiatedAt = now
  BY DEF Instantiated
<1>4. /\ c.envelope = envelope /\ c.nonce = a.id /\ c.guards = a.guards
      /\ c.issuedAt = now /\ c.expiresAt = ExpiresAt(a, {envelope}, now)
  BY DEF EnvelopeCertificate
<1>5. ManifestCovers(a.manifest, a.proposal, envelope, Policy.rules)
  BY <1>1
<1>6. \A q \in t.coverage : \E rule \in Policy.rules :
        q.family \in rule.families /\ rule.id \in a.manifest
  BY <1>3, <1>5 DEF ManifestCovers
<1>7. /\ a.witnessExpiry \in Int /\ now + MaxTtl \in Int
      /\ now + t.maxValidity \in Int
  BY <1>2, EnvelopeAssumption
<1>8. ExpiresAt(a, {envelope}, now) = Min({a.witnessExpiry, now + MaxTtl, now + t.maxValidity})
  <2>1. EnvelopeEnd(envelope) = now + t.maxValidity
    BY <1>3 DEF EnvelopeEnd
  <2>2. {a.witnessExpiry, now + MaxTtl} \cup {EnvelopeEnd(e) : e \in {envelope}}
          = {a.witnessExpiry, now + MaxTtl, now + t.maxValidity}
    BY <2>1
  <2>3. QED
    BY <2>2 DEF ExpiresAt
<1>9. c.expiresAt <= a.witnessExpiry /\ c.expiresAt <= c.issuedAt + t.maxValidity
  BY <1>4, <1>7, <1>8, MinOfThree
<1>10. IssuedUnder(c, a, t)
  BY <1>1, <1>2, <1>3, <1>4, <1>6, <1>9 DEF IssuedUnder
<1>11. Sound(c)
  BY <1>2, <1>10 DEF Sound
<1>12. QED
  BY <1>1, <1>11 DEF EnvelopeInv, IssueUnderEnvelope

LEMMA EnvelopeInvStep ==
  ASSUME EnvelopeInv, GatewayInv, [EnvelopeNext]_<<vars, envelopeVars>>
  PROVE  EnvelopeInv'
<1>t. /\ now \in Int
      /\ pc \in [Dispatches -> {"idle", "done", "dead"} \cup Active]
      /\ request \in [Dispatches -> Requests \cup {NoRequest}]
  BY GatewayAssumption DEF GatewayInv, TypeOK
<1>1. CASE Granting
  <2>1. UNCHANGED <<pc, request>>
    BY <1>1 DEF Granting, vars
  <2>2. /\ templates' \subseteq Templates /\ \A u \in templates' : Approved(u)
        /\ \A c \in issued' : Sound(c)
    <3>1. ASSUME NEW t \in Templates, NEW x \in Attestations, Register(t, x)
          PROVE  /\ templates' \subseteq Templates /\ \A u \in templates' : Approved(u)
                 /\ \A c \in issued' : Sound(c)
      BY <3>1, RegisterKeepsInv DEF EnvelopeInv
    <3>2. ASSUME NEW a \in Admissions, IssueUnderEnvelope(a)
          PROVE  /\ templates' \subseteq Templates /\ \A u \in templates' : Approved(u)
                 /\ \A c \in issued' : Sound(c)
      BY <1>t, <3>2, MintedIsSound DEF EnvelopeInv
    <3>3. ASSUME NEW a \in Admissions, IssueExact(a)
          PROVE  /\ templates' \subseteq Templates /\ \A u \in templates' : Approved(u)
                 /\ \A c \in issued' : Sound(c)
      <4>1. ExactCertificate(a, now).mode = "EXACT_ACTION"
        BY DEF ExactCertificate
      <4>2. Sound(ExactCertificate(a, now))
        BY <4>1 DEF Sound
      <4>3. QED
        BY <3>3, <4>2 DEF IssueExact, EnvelopeInv
    <3>4. QED
      BY <1>1, <3>1, <3>2, <3>3 DEF Granting
  <2>3. QED
    BY <2>1, <2>2 DEF EnvelopeInv
<1>2. CASE Dispatching
  <2>1. UNCHANGED <<templates, issued>>
    BY <1>2 DEF Dispatching, envelopeVars
  <2>2. ASSUME NEW d \in Dispatches, NEW r \in Requests, Presentable(r.certificate),
               CallWith(d, r)
        PROVE  EnvelopeInv'
    <3>1. r.certificate.signed => Sound(r.certificate)
      BY <2>2 DEF Presentable, EnvelopeInv
    <3>2. /\ request'[d] = r
          /\ \A e \in Dispatches \ {d} : request'[e] = request[e] /\ pc'[e] = pc[e]
      BY <1>t, <2>2 DEF CallWith, Goto, Respond
    <3>3. ASSUME NEW e \in Dispatches, pc'[e] # "idle", request'[e].certificate.signed
          PROVE  Sound(request'[e].certificate)
      <4>1. CASE e = d
        BY <3>1, <3>2, <3>3, <4>1
      <4>2. CASE e # d
        BY <3>2, <3>3, <4>2 DEF EnvelopeInv
      <4>3. QED
        BY <4>1, <4>2
    <3>4. templates' = templates /\ issued' = issued
      BY <2>1
    <3>5. QED
      BY <3>3, <3>4 DEF EnvelopeInv
  <2>3. CASE Running
    <3>1. /\ request' = request
          /\ \A d \in Dispatches : pc'[d] # "idle" => pc[d] # "idle"
      <4>1. ASSUME NEW d \in Dispatches,
                   \/ CheckNonce(d) \/ FinishValidation(d) \/ ClaimNonce(d) \/ Consume(d)
                   \/ StoreThrows(d) \/ Forward(d) \/ AdapterAnswers(d) \/ Die(d)
            PROVE  /\ request' = request
                   /\ \A e \in Dispatches : pc'[e] # "idle" => pc[e] # "idle"
        BY <1>t, <4>1 DEF CheckNonce, FinishValidation, ClaimNonce, Consume, StoreThrows,
          Forward, AdapterAnswers, Die, Goto, Respond, Active
      <4>2. CASE WorldMoves
        BY <4>2 DEF WorldMoves, Unmoved
      <4>3. CASE PowerFailure
        BY <1>t, <4>3 DEF PowerFailure, Active
      <4>4. QED
        BY <2>3, <4>1, <4>2, <4>3 DEF Running
    <3>2. QED
      BY <2>1, <3>1 DEF EnvelopeInv
  <2>4. QED
    BY <1>2, <2>2, <2>3 DEF Dispatching
<1>3. CASE UNCHANGED <<vars, envelopeVars>>
  BY <1>3 DEF vars, envelopeVars, EnvelopeInv
<1>4. QED
  BY <1>1, <1>2, <1>3 DEF EnvelopeNext

(* What is executed under an envelope is what an admission was granted     *)
(* for, under a template that was approved as it is, while it lasted.      *)
THEOREM EnvelopesNeverWiden == EnvelopeSpec => []EnvelopeNeverWidens
<1>1. EnvelopeInit => EnvelopeInv
  BY DEF EnvelopeInit, Init, EnvelopeInv
<1>2. EnvelopeInv /\ GatewayInv /\ [EnvelopeNext]_<<vars, envelopeVars>> => EnvelopeInv'
  BY EnvelopeInvStep
<1>3. EnvelopeInv /\ GatewayInv /\ BeyondPassed => EnvelopeNeverWidens
  <2> SUFFICES ASSUME EnvelopeInv, GatewayInv, BeyondPassed, NEW d \in forwarded,
                      request[d].certificate.mode = "ENVELOPE"
               PROVE  LET c == request[d].certificate
                          t == c.envelope.template
                      IN  \E a \in Admissions :
                            /\ d \in soundCall /\ c.nonce = a.id
                            /\ request[d].proposal = a.proposal
                            /\ Approved(t) /\ Allows(t, a.proposal)
                            /\ \A q \in t.coverage : \E rule \in Policy.rules :
                                 q.family \in rule.families /\ rule.id \in a.manifest
                            /\ t.guardIds \subseteq {g.id : g \in a.guards}
                            /\ c.expiresAt <= a.witnessExpiry
                            /\ c.expiresAt <= c.issuedAt + t.maxValidity
    BY DEF EnvelopeNeverWidens
  <2> DEFINE c == request[d].certificate
  <2>1. d \in Dispatches /\ pc[d] # "idle"
    BY DEF GatewayInv, TypeOK, ForwardedWhen
  <2>2. Passed(request[d]) /\ d \in soundCall
    BY <2>1 DEF BeyondPassed
  <2>3. PICK a \in Admissions, t \in Templates : IssuedUnder(c, a, t)
    BY <2>1, <2>2 DEF EnvelopeInv, Passed, Sound
  <2>4. request[d].proposal = a.proposal /\ t.guardIds \subseteq {g.id : g \in a.guards}
    BY <2>2, <2>3 DEF Passed, Covered, IssuedUnder
  <2>5. QED
    BY <2>2, <2>3, <2>4 DEF IssuedUnder
<1>4. QED
  BY EnvelopeGatewayIsGateway, GatewayInvHolds, BeyondPassedHolds, <1>1, <1>2, <1>3, PTL
     DEF EnvelopeSpec

=============================================================================
