------------------------------- MODULE OneShot -------------------------------
(***************************************************************************)
(* What a CapabilityStore promises to its callers (the interface of        *)
(* gateway/src/capabilityStore.ts): consumeOnce answers true to at most    *)
(* one call per nonce, answers false only when some other call holds the   *)
(* nonce, and may throw.  How a store achieves this is the business of     *)
(* MemoryCapabilityStore and FileCapabilityStore, which refine this        *)
(* module.                                                                 *)
(***************************************************************************)
EXTENDS Naturals

CONSTANTS
  Calls,      \* the consumeOnce calls a behaviour may contain
  Nonces,     \* the nonces of the certificates in circulation
  NonceOf,    \* the nonce each call tries to consume
  NoCall,     \* "owned by nobody"
  MaxResets   \* bound on reset(); 0 for a store that refuses to be reset

(* What the constants must satisfy; each store that refines this module    *)
(* assumes it of its own constants.                                        *)
OneShotConstants ==
  /\ NonceOf \in [Calls -> Nonces]
  /\ NoCall \notin Calls
  /\ MaxResets \in Nat

VARIABLES
  owner,      \* the call a nonce has been handed to, or is being handed to
  answer,     \* what each call has returned so far
  era,        \* how many times the store has been reset
  wonIn       \* the era in which a call was answered true

oneShotVars == <<owner, answer, era, wonIn>>

Answers == {"none", "true", "false", "thrown"}

OneShotTypeOK ==
  /\ owner \in [Nonces -> Calls \cup {NoCall}]
  /\ answer \in [Calls -> Answers]
  /\ era \in 0..MaxResets
  /\ wonIn \in [Calls -> 0..MaxResets]

Init ==
  /\ owner = [n \in Nonces |-> NoCall]
  /\ answer = [c \in Calls |-> "none"]
  /\ era = 0
  /\ wonIn = [c \in Calls |-> 0]

(* A call takes a free nonce before it is ready to answer.                 *)
Claim(c) ==
  /\ answer[c] = "none"
  /\ owner[NonceOf[c]] = NoCall
  /\ owner' = [owner EXCEPT ![NonceOf[c]] = c]
  /\ UNCHANGED <<answer, era, wonIn>>

Win(c) ==
  /\ answer[c] = "none"
  /\ owner[NonceOf[c]] \in {NoCall, c}
  /\ owner' = [owner EXCEPT ![NonceOf[c]] = c]
  /\ answer' = [answer EXCEPT ![c] = "true"]
  /\ wonIn' = [wonIn EXCEPT ![c] = era]
  /\ UNCHANGED era

Refuse(c) ==
  /\ answer[c] = "none"
  /\ owner[NonceOf[c]] \notin {NoCall, c}
  /\ answer' = [answer EXCEPT ![c] = "false"]
  /\ UNCHANGED <<owner, era, wonIn>>

(* An error says nothing about the nonce: it may or may not stay claimed.  *)
Throw(c) ==
  /\ answer[c] = "none"
  /\ answer' = [answer EXCEPT ![c] = "thrown"]
  /\ UNCHANGED <<owner, era, wonIn>>

(* A power failure may undo claims, but never one that was answered true.  *)
Forget ==
  /\ \E kept \in SUBSET Nonces :
       /\ \A n \in Nonces \ kept :
            owner[n] \in Calls => answer[owner[n]] # "true"
       /\ owner' = [n \in Nonces |-> IF n \in kept THEN owner[n] ELSE NoCall]
  /\ UNCHANGED <<answer, era, wonIn>>

Reset ==
  /\ era < MaxResets
  /\ era' = era + 1
  /\ owner' = [n \in Nonces |-> NoCall]
  /\ UNCHANGED <<answer, wonIn>>

Next ==
  \/ \E c \in Calls : Claim(c) \/ Win(c) \/ Refuse(c) \/ Throw(c)
  \/ Forget
  \/ Reset

Spec == Init /\ [][Next]_oneShotVars

(* Two calls that were both answered true for one nonce were answered in   *)
(* different eras: nobody is handed a nonce twice unless the store was     *)
(* reset in between (capabilityStore.ts, "with a single winner").          *)
SingleWinner ==
  \A c, d \in Calls :
    /\ answer[c] = "true" /\ answer[d] = "true"
    /\ NonceOf[c] = NonceOf[d]
    /\ wonIn[c] = wonIn[d]
    => c = d

=============================================================================
