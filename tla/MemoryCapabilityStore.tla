------------------------ MODULE MemoryCapabilityStore ------------------------
(***************************************************************************)
(* The in-memory capability store of the gateway                           *)
(* (gateway/src/capabilityStore.ts, class MemoryCapabilityStore).          *)
(*                                                                         *)
(* consumeOnce(nonce) first acquires a per-nonce lock.  A lock is a        *)
(* promise kept in the map `locks`: a caller that finds one awaits it and  *)
(* then looks again; a caller that finds none installs its own.  The       *)
(* critical section runs in a later microtask, is synchronous, and ends    *)
(* by deleting the map entry and resolving the caller's own promise.  The  *)
(* map entry is deleted by key, whoever's promise it holds, and reset()    *)
(* empties both maps while callers may be anywhere in this protocol.       *)
(*                                                                         *)
(* Every microtask is one action.  The model lets ready microtasks run in  *)
(* any order, which includes the FIFO order of the JavaScript job queue.   *)
(***************************************************************************)
EXTENDS Naturals

CONSTANTS
  Calls,      \* consumeOnce calls; each is made at most once
  Nonces,
  NonceOf,    \* the nonce each call passes
  NoCall,     \* no promise in `locks`
  MaxResets   \* bound on the number of reset() calls

VARIABLES
  nonces,     \* this.nonces; "ABSENT" is a key that is not in the map
  locks,      \* this.locks; a lock promise is named by the call that made it
  awaiting,   \* the lock promise a parked call awaits
  pc,         \* where each call stands
  owner,      \* history: the call whose critical section consumed the nonce
  answer,     \* what consumeOnce returned
  era,        \* history: number of resets so far
  wonIn       \* history: the era in which a call was answered true

vars == <<nonces, locks, awaiting, pc, owner, answer, era, wonIn>>

Promise == INSTANCE OneShot

ASSUME StoreAssumption ==
  /\ NonceOf \in [Calls -> Nonces]
  /\ NoCall \notin Calls
  /\ MaxResets \in Nat

TypeOK ==
  /\ nonces \in [Nonces -> {"ABSENT", "UNUSED", "CONSUMED"}]
  /\ locks \in [Nonces -> Calls \cup {NoCall}]
  /\ awaiting \in [Calls -> Calls \cup {NoCall}]
  /\ pc \in [Calls -> {"idle", "parked", "holding", "done"}]
  /\ Promise!OneShotTypeOK

Init ==
  /\ nonces = [n \in Nonces |-> "ABSENT"]
  /\ locks = [n \in Nonces |-> NoCall]
  /\ awaiting = [c \in Calls |-> NoCall]
  /\ pc = [c \in Calls |-> "idle"]
  /\ Promise!Init

------------------------------------------------------------------------------
(* A lock promise is resolved once its maker has released.                 *)
Resolved(c) == pc[c] = "done"

(* The loop of acquireLock up to its next suspension: await the promise    *)
(* found in `locks`, or install one's own and go on.                       *)
TryAcquire(c) ==
  \/ /\ locks[NonceOf[c]] # NoCall
     /\ awaiting' = [awaiting EXCEPT ![c] = locks[NonceOf[c]]]
     /\ pc' = [pc EXCEPT ![c] = "parked"]
     /\ UNCHANGED locks
  \/ /\ locks[NonceOf[c]] = NoCall
     /\ locks' = [locks EXCEPT ![NonceOf[c]] = c]
     /\ awaiting' = [awaiting EXCEPT ![c] = NoCall]
     /\ pc' = [pc EXCEPT ![c] = "holding"]

(* consumeOnce is called and runs synchronously to its first await.        *)
ConsumeOnce(c) ==
  /\ pc[c] = "idle"
  /\ TryAcquire(c)
  /\ UNCHANGED <<nonces, owner, answer, era, wonIn>>

(* Mutant: `if` for `while`, a woken call installs its lock without        *)
(* looking again.                                                          *)
Wake_NoRecheck(c) ==
  /\ pc[c] = "parked"
  /\ Resolved(awaiting[c])
  /\ locks' = [locks EXCEPT ![NonceOf[c]] = c]
  /\ awaiting' = [awaiting EXCEPT ![c] = NoCall]
  /\ pc' = [pc EXCEPT ![c] = "holding"]
  /\ UNCHANGED <<nonces, owner, answer, era, wonIn>>

(* The promise a parked call awaits has been resolved: look again.         *)
Wake(c) ==
  /\ pc[c] = "parked"
  /\ Resolved(awaiting[c])
  /\ TryAcquire(c)
  /\ UNCHANGED <<nonces, owner, answer, era, wonIn>>

(* Mutant: the promise is resolved but the map entry is left behind.       *)
Release_KeepsEntry(c) ==
  /\ UNCHANGED locks
  /\ pc' = [pc EXCEPT ![c] = "done"]

(* release(): delete the map entry and resolve the caller's promise.       *)
Release(c) ==
  /\ locks' = [locks EXCEPT ![NonceOf[c]] = NoCall]
  /\ pc' = [pc EXCEPT ![c] = "done"]

(* Mutant: the status is not examined before it is set.                    *)
CriticalSection_NoTest(c) ==
  /\ pc[c] = "holding"
  /\ nonces' = [nonces EXCEPT ![NonceOf[c]] = "CONSUMED"]
  /\ answer' = [answer EXCEPT ![c] = "true"]
  /\ owner' = [owner EXCEPT ![NonceOf[c]] = c]
  /\ wonIn' = [wonIn EXCEPT ![c] = era]
  /\ Release(c)
  /\ UNCHANGED <<awaiting, era>>

(* Mutant: any registered nonce is taken for a consumed one.               *)
CriticalSection_RefusesRegistered(c) ==
  /\ pc[c] = "holding"
  /\ \/ /\ nonces[NonceOf[c]] # "ABSENT"
        /\ answer' = [answer EXCEPT ![c] = "false"]
        /\ UNCHANGED <<nonces, owner, wonIn>>
     \/ /\ nonces[NonceOf[c]] = "ABSENT"
        /\ nonces' = [nonces EXCEPT ![NonceOf[c]] = "CONSUMED"]
        /\ answer' = [answer EXCEPT ![c] = "true"]
        /\ owner' = [owner EXCEPT ![NonceOf[c]] = c]
        /\ wonIn' = [wonIn EXCEPT ![c] = era]
  /\ Release(c)
  /\ UNCHANGED <<awaiting, era>>

(* The critical section of consumeOnce and its finally block.              *)
CriticalSection(c) ==
  /\ pc[c] = "holding"
  /\ \/ /\ nonces[NonceOf[c]] = "CONSUMED"
        /\ answer' = [answer EXCEPT ![c] = "false"]
        /\ UNCHANGED <<nonces, owner, wonIn>>
     \/ /\ nonces[NonceOf[c]] # "CONSUMED"
        /\ nonces' = [nonces EXCEPT ![NonceOf[c]] = "CONSUMED"]
        /\ answer' = [answer EXCEPT ![c] = "true"]
        /\ owner' = [owner EXCEPT ![NonceOf[c]] = c]
        /\ wonIn' = [wonIn EXCEPT ![c] = era]
  /\ Release(c)
  /\ UNCHANGED <<awaiting, era>>

(* Mutant: registering a nonce overwrites the status it has.               *)
RegisterNonce_Overwrites(n) ==
  /\ nonces[n] # "UNUSED"
  /\ nonces' = [nonces EXCEPT ![n] = "UNUSED"]
  /\ UNCHANGED <<locks, awaiting, pc, owner, answer, era, wonIn>>

(* Mutant: the status is stored in the wrong case.                         *)
RegisterNonce_Lowercase(n) ==
  /\ nonces[n] = "ABSENT"
  /\ nonces' = [nonces EXCEPT ![n] = "unused"]
  /\ UNCHANGED <<locks, awaiting, pc, owner, answer, era, wonIn>>

(* registerNonce enters a nonce the map does not have.                     *)
RegisterNonce(n) ==
  /\ nonces[n] = "ABSENT"
  /\ nonces' = [nonces EXCEPT ![n] = "UNUSED"]
  /\ UNCHANGED <<locks, awaiting, pc, owner, answer, era, wonIn>>

(* reset() empties both maps; parked callers and lock holders live on.     *)
ResetStore ==
  /\ era < MaxResets
  /\ era' = era + 1
  /\ nonces' = [n \in Nonces |-> "ABSENT"]
  /\ locks' = [n \in Nonces |-> NoCall]
  /\ owner' = [n \in Nonces |-> NoCall]
  /\ UNCHANGED <<awaiting, pc, answer, wonIn>>

(* isUnused reads the map synchronously.                                   *)
IsUnused(n) == nonces[n] \in {"ABSENT", "UNUSED"}

Next ==
  \/ \E c \in Calls : ConsumeOnce(c) \/ Wake(c) \/ CriticalSection(c)
  \/ \E n \in Nonces : RegisterNonce(n)
  \/ ResetStore

Spec == Init /\ [][Next]_vars

(* Ready microtasks run: the job queue drains before anything else.        *)
Fairness == \A c \in Calls : WF_vars(Wake(c)) /\ WF_vars(CriticalSection(c))

FairSpec == Spec /\ Fairness

------------------------------------------------------------------------------
(* Until reset() is first called, one call at a time is between            *)
(* installing its lock and releasing it: a woken waiter must look again    *)
(* before it installs its own (the while of acquireLock).                  *)
LockExclusion ==
  era = 0 =>
    \A c, d \in Calls :
      /\ pc[c] = "holding" /\ pc[d] = "holding"
      /\ NonceOf[c] = NonceOf[d]
      => c = d

(* No two calls win the same nonce in the same era, although a reset drops *)
(* held locks, after which two holders exist and each deletes the other's  *)
(* map entry.                                                              *)
SingleWinner == Promise!SingleWinner

(* The store implements the abstract one-shot store, resets included.      *)
ImplementsOneShot == Promise!Spec

(* No lost wakeup: every consumeOnce call returns, in particular one       *)
(* parked on a promise that reset() or another holder's release has        *)
(* removed from the map.                                                   *)
EveryConsumeReturns == \A c \in Calls : pc[c] # "idle" ~> pc[c] = "done"

(* A nonce reported used stays used until reset(): the verdict of isUnused *)
(* may be stale in one direction only.                                     *)
UsedStaysUsed ==
  [][\A n \in Nonces : ~IsUnused(n) /\ era' = era => ~IsUnused(n)']_vars

=============================================================================
