------------------------- MODULE FileCapabilityStore -------------------------
(***************************************************************************)
(* The persistent capability store (gateway/src/capabilityStore.ts, class  *)
(* FileCapabilityStore): competing processes on one host share a directory *)
(* in which a consumed nonce is a file.                                    *)
(*                                                                         *)
(* consumeOnce is a chain of awaited file operations; other calls, the     *)
(* death of a process and a power failure may come between any two.        *)
(* The file system is what the class comment asks for: exclusive creation  *)
(* is atomic, and a directory entry surely survives a power failure once   *)
(* the directory has been fsynced after the file.                          *)
(***************************************************************************)
EXTENDS Naturals

CONSTANTS
  Calls,      \* consumeOnce calls; each is made at most once
  Nonces,
  NonceOf,    \* the nonce each call passes
  NoCall,
  Processes,
  ProcessOf   \* the process that makes each call

ASSUME FileStoreAssumption ==
  /\ NonceOf \in [Calls -> Nonces]
  /\ ProcessOf \in [Calls -> Processes]
  /\ NoCall \notin Calls

VARIABLES
  files,      \* the nonces whose .spent file the running system sees
  durable,    \* those among them that a power failure cannot remove
  pc,         \* the file operation each call performs next
  owner,      \* history: the call that created the file
  answer      \* what consumeOnce returned or threw

vars == <<files, durable, pc, owner, answer>>

(* A file store is never reset: there is one era.                          *)
Promise == INSTANCE OneShot WITH
  MaxResets <- 0, era <- 0, wonIn <- [c \in Calls |-> 0]

InFlight == {"sync", "openDir", "syncDir", "closeDir"}

TypeOK ==
  /\ files \in SUBSET Nonces
  /\ durable \in SUBSET files
  /\ pc \in [Calls -> {"idle", "done", "dead"} \cup InFlight]
  /\ owner \in [Nonces -> Calls \cup {NoCall}]
  /\ answer \in [Calls -> Promise!Answers]

Init ==
  /\ files = {}
  /\ durable = {}
  /\ pc = [c \in Calls |-> "idle"]
  /\ owner = [n \in Nonces |-> NoCall]
  /\ answer = [c \in Calls |-> "none"]

------------------------------------------------------------------------------
Goto(c, next) == pc' = [pc EXCEPT ![c] = next]

Return(c, value) ==
  /\ Goto(c, "done")
  /\ answer' = [answer EXCEPT ![c] = value]

(* Mutant: open(path, "w"), which accepts a file that exists.              *)
Create_NotExclusive(c) ==
  /\ pc[c] = "idle"
  /\ files' = files \cup {NonceOf[c]}
  /\ owner' = [owner EXCEPT ![NonceOf[c]] = c]
  /\ Goto(c, "sync")
  /\ UNCHANGED <<answer, durable>>

(* open(path, "wx"): create the file, or EEXIST, which answers false.      *)
Create(c) ==
  /\ pc[c] = "idle"
  /\ \/ /\ NonceOf[c] \notin files
        /\ files' = files \cup {NonceOf[c]}
        /\ owner' = [owner EXCEPT ![NonceOf[c]] = c]
        /\ Goto(c, "sync")
        /\ UNCHANGED answer
     \/ /\ NonceOf[c] \in files
        /\ Return(c, "false")
        /\ UNCHANGED <<files, owner>>
  /\ UNCHANGED durable

(* Mutant: every failure of open is taken for EEXIST.                      *)
CreateFails_SaysFalse(c) ==
  /\ pc[c] = "idle"
  /\ Return(c, "false")
  /\ UNCHANGED <<files, durable, owner>>

(* Mutant: the failure of open is swallowed and undefined returned.        *)
CreateFails_ReturnsUndefined(c) ==
  /\ pc[c] = "idle"
  /\ Return(c, "undefined")
  /\ UNCHANGED <<files, durable, owner>>

(* open fails with anything but EEXIST, e.g. no descriptor or no space.    *)
CreateFails(c) ==
  /\ pc[c] = "idle"
  /\ Return(c, "thrown")
  /\ UNCHANGED <<files, durable, owner>>

(* handle.sync() and handle.close().                                       *)
SyncFile(c) ==
  /\ pc[c] = "sync"
  /\ Goto(c, "openDir")
  /\ UNCHANGED <<files, durable, owner, answer>>

OpenDirectory(c) ==
  /\ pc[c] = "openDir"
  /\ Goto(c, "syncDir")
  /\ UNCHANGED <<files, durable, owner, answer>>

(* Mutant: the directory is closed without being synced.                   *)
SyncDirectory_Skipped(c) ==
  /\ pc[c] = "syncDir"
  /\ Goto(c, "closeDir")
  /\ UNCHANGED <<files, durable, owner, answer>>

(* directory.sync() makes every entry the directory now has durable.       *)
SyncDirectory(c) ==
  /\ pc[c] = "syncDir"
  /\ durable' = files
  /\ Goto(c, "closeDir")
  /\ UNCHANGED <<files, owner, answer>>

(* directory.close() and return true.                                      *)
CloseDirectory(c) ==
  /\ pc[c] = "closeDir"
  /\ Return(c, "true")
  /\ UNCHANGED <<files, durable, owner>>

(* Mutant: a failed flush removes the file again, to leave no litter.      *)
OperationFails_Unlinks(c) ==
  /\ pc[c] \in InFlight
  /\ Return(c, "thrown")
  /\ files' = files \ {NonceOf[c]}
  /\ durable' = durable \ {NonceOf[c]}
  /\ owner' = [owner EXCEPT ![NonceOf[c]] = NoCall]

(* Any of the four operations after the creation throws: the file stays.   *)
OperationFails(c) ==
  /\ pc[c] \in InFlight
  /\ Return(c, "thrown")
  /\ UNCHANGED <<files, durable, owner>>

(* A process dies: its calls never answer, the file system is untouched.   *)
Kill(p) ==
  /\ \E c \in Calls : ProcessOf[c] = p /\ pc[c] \in InFlight
  /\ pc' = [c \in Calls |->
              IF ProcessOf[c] = p /\ pc[c] \in InFlight THEN "dead" ELSE pc[c]]
  /\ UNCHANGED <<files, durable, owner, answer>>

(* Power fails: every process dies and any entry not durable may be lost.  *)
PowerFailure ==
  /\ \E survivors \in SUBSET files :
       /\ durable \subseteq survivors
       /\ files' = survivors
       /\ durable' = survivors
       /\ owner' = [n \in Nonces |->
                      IF n \in survivors THEN owner[n] ELSE NoCall]
  /\ pc' = [c \in Calls |-> IF pc[c] \in InFlight THEN "dead" ELSE pc[c]]
  /\ UNCHANGED answer

(* isUnused: access() on the file, ENOENT meaning unused.                  *)
IsUnused(n) == n \notin files

Next ==
  \/ \E c \in Calls :
       \/ Create(c) \/ CreateFails(c)
       \/ SyncFile(c) \/ OpenDirectory(c) \/ SyncDirectory(c)
       \/ CloseDirectory(c) \/ OperationFails(c)
  \/ \E p \in Processes : Kill(p)
  \/ PowerFailure

Spec == Init /\ [][Next]_vars

------------------------------------------------------------------------------
(* consumeOnce answers true to one call per nonce, over all processes,     *)
(* deaths and power failures.                                              *)
SingleWinner == Promise!SingleWinner

(* "A successful consume is flushed before dispatch": once a call was      *)
(* answered true, no power failure can make its nonce look unused again.   *)
WinnerIsDurable ==
  \A c \in Calls : answer[c] = "true" =>
    NonceOf[c] \in durable /\ ~IsUnused(NonceOf[c])

(* A call is refused only because another call created the file.  Together *)
(* with SingleWinner: the file store implements the one-shot store, with a *)
(* power failure forgetting claims but no victories.                       *)
ImplementsOneShot == Promise!Spec

(* A nonce leaves the used state only in a power failure, and then only if *)
(* nobody was ever answered true for it.                                   *)
ReuseOnlyUnwon ==
  [][\A n \in Nonces : ~IsUnused(n) /\ IsUnused(n)' =>
       /\ \A c \in Calls : NonceOf[c] = n => answer[c] # "true"
       /\ \A c \in Calls : pc'[c] \notin InFlight]_vars

=============================================================================
