--------------------- MODULE MemoryCapabilityStoreProofs ---------------------
(***************************************************************************)
(* The one-shot store has a single winner per nonce and era, and           *)
(* MemoryCapabilityStore implements it, for any number of calls, nonces    *)
(* and resets, so it has one too.  The argument does not use the lock: the *)
(* critical section is one step, and a nonce is CONSUMED exactly when some *)
(* call owns it.  The lock is exclusive up to the first reset, which is    *)
(* proved separately.                                                      *)
(***************************************************************************)
EXTENDS MemoryCapabilityStore, TLAPS

ConsumedIsOwned == \A n \in Nonces : nonces[n] = "CONSUMED" <=> owner[n] # NoCall
OwnerAnsweredTrue ==
  \A n \in Nonces : owner[n] \in Calls => answer[owner[n]] = "true"
AnsweredIsDone == \A c \in Calls : answer[c] = "none" <=> pc[c] # "done"

StoreInv == TypeOK /\ ConsumedIsOwned /\ OwnerAnsweredTrue /\ AnsweredIsDone

(* The types of the abstract store, spelled out for its instance.          *)
LEMMA PromiseType ==
  Promise!OneShotTypeOK <=>
    /\ owner \in [Nonces -> Calls \cup {NoCall}]
    /\ answer \in [Calls -> {"none", "true", "false", "thrown"}]
    /\ era \in 0..MaxResets
    /\ wonIn \in [Calls -> 0..MaxResets]
BY DEF Promise!OneShotTypeOK, Promise!Answers

(* A fresh store: no nonce consumed, no call answered.                     *)
LEMMA StoreInvInit == Init => StoreInv
BY StoreAssumption, PromiseType
   DEF Init, StoreInv, TypeOK, ConsumedIsOwned, OwnerAnsweredTrue,
       AnsweredIsDone, Promise!Init

(* What a step of the acquire loop does to the lock and the program counter *)
(* of the call that takes it, and to nothing else.                          *)
LEMMA TryAcquireTyped ==
  ASSUME StoreInv, NEW c \in Calls, TryAcquire(c)
  PROVE  /\ locks' \in [Nonces -> Calls \cup {NoCall}]
         /\ awaiting' \in [Calls -> Calls \cup {NoCall}]
         /\ pc' \in [Calls -> {"idle", "parked", "holding", "done"}]
         /\ pc'[c] \in {"parked", "holding"}
         /\ \A d \in Calls \ {c} : pc'[d] = pc[d]
BY StoreAssumption DEF StoreInv, TypeOK, TryAcquire

(* The invariant is kept by every action.                                  *)
LEMMA StoreInvStep ==
  ASSUME StoreInv, [Next]_vars
  PROVE  StoreInv'
<1> USE StoreAssumption, PromiseType
    DEF StoreInv, TypeOK, ConsumedIsOwned, OwnerAnsweredTrue, AnsweredIsDone
<1>0. Promise!OneShotTypeOK' <=>
        /\ owner' \in [Nonces -> Calls \cup {NoCall}]
        /\ answer' \in [Calls -> {"none", "true", "false", "thrown"}]
        /\ era' \in 0..MaxResets
        /\ wonIn' \in [Calls -> 0..MaxResets]
  BY DEF Promise!OneShotTypeOK, Promise!Answers
<1>1. ASSUME NEW c \in Calls, ConsumeOnce(c) PROVE StoreInv'
  BY <1>0, <1>1, TryAcquireTyped DEF ConsumeOnce
<1>2. ASSUME NEW c \in Calls, Wake(c) PROVE StoreInv'
  BY <1>0, <1>2, TryAcquireTyped DEF Wake
<1>3. ASSUME NEW c \in Calls, CriticalSection(c) PROVE StoreInv'
  <2>1. CASE nonces[NonceOf[c]] = "CONSUMED"
    BY <1>0, <1>3, <2>1 DEF CriticalSection, Release
  <2>2. CASE nonces[NonceOf[c]] # "CONSUMED"
    <3>1. TypeOK'
      BY <1>0, <1>3, <2>2 DEF CriticalSection, Release
    <3>2. ConsumedIsOwned' /\ AnsweredIsDone'
      BY <1>3, <2>2 DEF CriticalSection, Release
    <3>3. OwnerAnsweredTrue'
      BY <1>3, <2>2 DEF CriticalSection, Release
    <3> QED
      BY <3>1, <3>2, <3>3
  <2> QED
    BY <2>1, <2>2
<1>4. ASSUME NEW n \in Nonces, RegisterNonce(n) PROVE StoreInv'
  BY <1>0, <1>4 DEF RegisterNonce
<1>5. CASE ResetStore
  BY <1>0, <1>5 DEF ResetStore
<1>6. CASE UNCHANGED vars
  BY <1>0, <1>6 DEF vars
<1> QED
  BY <1>1, <1>2, <1>3, <1>4, <1>5, <1>6 DEF Next

(* The store stays well typed.                                             *)
THEOREM StoreTyped == Spec => []TypeOK
<1>1. StoreInv /\ [Next]_vars => StoreInv'
  BY StoreInvStep
<1>2. StoreInv => TypeOK
  BY DEF StoreInv
<1> QED
  BY StoreInvInit, <1>1, <1>2, PTL DEF Spec

(* A step of the store is a step of the one-shot store or changes nothing  *)
(* it can see: the critical section wins or refuses, reset() resets.       *)
LEMMA StepRefines ==
  ASSUME StoreInv, [Next]_vars
  PROVE  [Promise!Next]_(Promise!oneShotVars)
<1> USE StoreAssumption, PromiseType
    DEF StoreInv, TypeOK, ConsumedIsOwned, OwnerAnsweredTrue, AnsweredIsDone,
        Promise!oneShotVars
<1>1. ASSUME NEW c \in Calls, ConsumeOnce(c) \/ Wake(c)
      PROVE  UNCHANGED Promise!oneShotVars
  BY <1>1 DEF ConsumeOnce, Wake
<1>2. ASSUME NEW c \in Calls, CriticalSection(c) PROVE Promise!Next
  <2>1. answer[c] = "none"
    BY <1>2 DEF CriticalSection
  <2>2. CASE nonces[NonceOf[c]] = "CONSUMED"
    <3>1. owner[NonceOf[c]] \notin {NoCall, c}
      BY <2>1, <2>2
    <3>2. Promise!Refuse(c)
      BY <1>2, <2>1, <2>2, <3>1 DEF CriticalSection, Promise!Refuse
    <3> QED
      BY <3>2 DEF Promise!Next
  <2>3. CASE nonces[NonceOf[c]] # "CONSUMED"
    <3>1. Promise!Win(c)
      BY <1>2, <2>1, <2>3 DEF CriticalSection, Promise!Win
    <3> QED
      BY <3>1 DEF Promise!Next
  <2> QED
    BY <2>2, <2>3
<1>3. ASSUME NEW n \in Nonces, RegisterNonce(n) PROVE UNCHANGED Promise!oneShotVars
  BY <1>3 DEF RegisterNonce
<1>4. CASE ResetStore
  BY <1>4 DEF ResetStore, Promise!Reset, Promise!Next
<1>5. CASE UNCHANGED vars
  BY <1>5 DEF vars
<1> QED
  BY <1>1, <1>2, <1>3, <1>4, <1>5 DEF Next

(* MemoryCapabilityStore implements the one-shot store, resets included.   *)
THEOREM MemoryStoreImplementsOneShot == Spec => ImplementsOneShot
<1>1. Init => Promise!Init
  BY DEF Init
<1>2. StoreInv /\ [Next]_vars => StoreInv'
  BY StoreInvStep
<1>3. StoreInv /\ [Next]_vars => [Promise!Next]_(Promise!oneShotVars)
  BY StepRefines
<1> QED
  BY StoreInvInit, <1>1, <1>2, <1>3, PTL DEF Spec, Promise!Spec, ImplementsOneShot

------------------------------------------------------------------------------
(* The one-shot store itself.  The winner of the current era still owns    *)
(* its nonce, because only a reset takes a nonce away from a call answered *)
(* true.                                                                   *)
WinnerOwns ==
  \A c \in Calls :
    answer[c] = "true" /\ wonIn[c] = era => owner[NonceOf[c]] = c

WonInThePast == \A c \in Calls : wonIn[c] <= era

OneShotInv ==
  Promise!OneShotTypeOK /\ WinnerOwns /\ WonInThePast /\ Promise!SingleWinner

(* Every step of the one-shot store is well typed.                         *)
LEMMA OneShotTyped ==
  ASSUME Promise!OneShotTypeOK, [Promise!Next]_(Promise!oneShotVars)
  PROVE  Promise!OneShotTypeOK'
<1> USE StoreAssumption DEF Promise!OneShotTypeOK, Promise!Answers
<1>1. ASSUME NEW c \in Calls, Promise!Claim(c) PROVE Promise!OneShotTypeOK'
  BY <1>1 DEF Promise!Claim
<1>2. ASSUME NEW c \in Calls, Promise!Win(c) PROVE Promise!OneShotTypeOK'
  BY <1>2 DEF Promise!Win
<1>3. ASSUME NEW c \in Calls, Promise!Refuse(c) PROVE Promise!OneShotTypeOK'
  BY <1>3 DEF Promise!Refuse
<1>4. ASSUME NEW c \in Calls, Promise!Throw(c) PROVE Promise!OneShotTypeOK'
  BY <1>4 DEF Promise!Throw
<1>5. CASE Promise!Forget
  BY <1>5 DEF Promise!Forget
<1>6. CASE Promise!Reset
  BY <1>6 DEF Promise!Reset
<1>7. CASE UNCHANGED Promise!oneShotVars
  BY <1>7 DEF Promise!oneShotVars
<1> QED
  BY <1>1, <1>2, <1>3, <1>4, <1>5, <1>6, <1>7 DEF Promise!Next

(* Every step keeps the winner's ownership and the uniqueness of winners.  *)
LEMMA OneShotStep ==
  ASSUME OneShotInv, [Promise!Next]_(Promise!oneShotVars)
  PROVE  OneShotInv'
<1> USE StoreAssumption
    DEF OneShotInv, Promise!OneShotTypeOK, Promise!Answers, WinnerOwns, WonInThePast,
        Promise!SingleWinner
<1>0. Promise!OneShotTypeOK'
  BY OneShotTyped
<1>1. ASSUME NEW c \in Calls, Promise!Claim(c) PROVE OneShotInv'
  BY <1>0, <1>1 DEF Promise!Claim
<1>2. ASSUME NEW c \in Calls, Promise!Win(c) PROVE OneShotInv'
  <2>1. WinnerOwns' /\ WonInThePast'
    BY <1>2 DEF Promise!Win
  <2>2. Promise!SingleWinner'
    <3> SUFFICES ASSUME NEW x \in Calls, NEW y \in Calls,
                        answer'[x] = "true", answer'[y] = "true",
                        NonceOf[x] = NonceOf[y], wonIn'[x] = wonIn'[y]
                 PROVE  x = y
      OBVIOUS
    <3>1. CASE x # c /\ y # c
      BY <1>2, <3>1 DEF Promise!Win
    <3>2. CASE x = c \/ y = c
      <4>1. wonIn'[x] = era' /\ wonIn'[y] = era'
        BY <1>2, <3>2 DEF Promise!Win
      <4> QED
        BY <2>1, <4>1
    <3> QED
      BY <3>1, <3>2
  <2> QED
    BY <1>0, <2>1, <2>2
<1>3. ASSUME NEW c \in Calls, Promise!Refuse(c) PROVE OneShotInv'
  BY <1>0, <1>3 DEF Promise!Refuse
<1>4. ASSUME NEW c \in Calls, Promise!Throw(c) PROVE OneShotInv'
  BY <1>0, <1>4 DEF Promise!Throw
<1>5. CASE Promise!Forget
  <2> PICK kept \in SUBSET Nonces :
        /\ \A n \in Nonces \ kept :
             owner[n] \in Calls => answer[owner[n]] # "true"
        /\ owner' = [n \in Nonces |-> IF n \in kept THEN owner[n] ELSE NoCall]
    BY <1>5 DEF Promise!Forget
  <2>1. UNCHANGED <<answer, era, wonIn>>
    BY <1>5 DEF Promise!Forget
  <2>2. WinnerOwns'
    BY <2>1
  <2> QED
    BY <1>0, <2>1, <2>2
<1>6. CASE Promise!Reset
  BY <1>0, <1>6 DEF Promise!Reset
<1>7. CASE UNCHANGED Promise!oneShotVars
  BY <1>0, <1>7 DEF Promise!oneShotVars
<1> QED
  BY <1>1, <1>2, <1>3, <1>4, <1>5, <1>6, <1>7 DEF Promise!Next

(* Whatever implements the one-shot store hands a nonce to at most one     *)
(* call per era.                                                           *)
THEOREM OneShotSingleWinner == Promise!Spec => []Promise!SingleWinner
<1>1. Promise!Init => OneShotInv
  BY StoreAssumption
     DEF Promise!Init, OneShotInv, Promise!OneShotTypeOK, Promise!Answers, WinnerOwns,
         WonInThePast, Promise!SingleWinner
<1>2. OneShotInv /\ [Promise!Next]_(Promise!oneShotVars) => OneShotInv'
  BY OneShotStep
<1>3. OneShotInv => Promise!SingleWinner
  BY DEF OneShotInv
<1> QED
  BY <1>1, <1>2, <1>3, PTL DEF Promise!Spec

(* consumeOnce answers true to at most one call per nonce between resets:  *)
(* the store inherits it from the one it implements.                       *)
THEOREM MemoryStoreSingleWinner == Spec => []SingleWinner
<1>1. Promise!SingleWinner => SingleWinner
  BY DEF SingleWinner
<1> QED
  BY MemoryStoreImplementsOneShot, OneShotSingleWinner, <1>1, PTL DEF ImplementsOneShot

------------------------------------------------------------------------------
(* Until the first reset, the map names exactly the calls inside the       *)
(* section.                                                                *)
LockNamesHolder ==
  era = 0 => \A c \in Calls : \A n \in Nonces :
    locks[n] = c <=> pc[c] = "holding" /\ NonceOf[c] = n

(* The lock invariant is kept by every action.                             *)
LEMMA LockStep ==
  ASSUME StoreInv, LockNamesHolder, [Next]_vars
  PROVE  LockNamesHolder'
<1> USE StoreAssumption, PromiseType DEF StoreInv, TypeOK, LockNamesHolder
<1>1. CASE UNCHANGED <<locks, pc, era>>
  BY <1>1
<1>2. CASE ResetStore
  BY <1>2 DEF ResetStore
<1>3. ASSUME NEW c \in Calls, TryAcquire(c), pc[c] \in {"idle", "parked"}, era' = era
      PROVE  LockNamesHolder'
  BY <1>3 DEF TryAcquire
<1>4. ASSUME NEW c \in Calls, CriticalSection(c) PROVE LockNamesHolder'
  BY <1>4 DEF CriticalSection, Release
<1> QED
  BY <1>1, <1>2, <1>3, <1>4 DEF Next, ConsumeOnce, Wake, RegisterNonce, vars

(* Until the first reset at most one call per nonce is inside the section. *)
THEOREM LockIsExclusive == Spec => []LockExclusion
<1>1. Init => LockNamesHolder
  BY StoreAssumption DEF Init, LockNamesHolder
<1>2. StoreInv /\ LockNamesHolder /\ [Next]_vars => (StoreInv /\ LockNamesHolder)'
  BY StoreInvStep, LockStep
<1>3. StoreInv /\ LockNamesHolder => LockExclusion
  BY StoreAssumption DEF StoreInv, TypeOK, LockNamesHolder, LockExclusion
<1> QED
  BY StoreInvInit, <1>1, <1>2, <1>3, PTL DEF Spec

------------------------------------------------------------------------------
(* A status is written in two places besides reset(), which opens an era:  *)
(* the critical section only ever writes CONSUMED, and registerNonce       *)
(* leaves alone a nonce the map already holds.                             *)
LEMMA UsedStaysStep ==
  ASSUME StoreInv, [Next]_vars, NEW n \in Nonces, era' = era, ~IsUnused(n)
  PROVE  ~IsUnused(n)'
<1> USE StoreAssumption, PromiseType DEF StoreInv, TypeOK, IsUnused
<1>1. CASE nonces' = nonces
  BY <1>1
<1>2. CASE \E m \in Nonces : RegisterNonce(m)
  BY <1>2 DEF RegisterNonce
<1>3. CASE \E c \in Calls : CriticalSection(c)
  BY <1>3 DEF CriticalSection
<1>4. ResetStore => era' # era
  BY DEF ResetStore
<1> QED
  BY <1>1, <1>2, <1>3, <1>4 DEF Next, ConsumeOnce, Wake, vars

(* Within an era a used nonce stays used: isUnused errs only by being late. *)
THEOREM UsedNoncesStayUsed == Spec => UsedStaysUsed
<1>1. StoreInv /\ [Next]_vars =>
        [\A n \in Nonces : ~IsUnused(n) /\ era' = era => ~IsUnused(n)']_vars
  BY UsedStaysStep
<1> QED
  BY <1>1, StoreInvInit, StoreInvStep, PTL DEF Spec, UsedStaysUsed

=============================================================================
