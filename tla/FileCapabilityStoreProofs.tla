---------------------- MODULE FileCapabilityStoreProofs ----------------------
(***************************************************************************)
(* FileCapabilityStore implements the one-shot store for any number of     *)
(* calls, nonces and processes, through deaths and power failures.  The    *)
(* invariant ties the file of a nonce to the call that created it; a call  *)
(* answered true has its file among the durable ones, so a power failure   *)
(* can only forget claims that nobody was answered true for.               *)
(***************************************************************************)
EXTENDS FileCapabilityStore, TLAPS

FileIsOwned == \A n \in Nonces : n \in files <=> owner[n] # NoCall
OwnerCreatedIt ==
  \A n \in Nonces : \A c \in Calls : owner[n] = c =>
    NonceOf[c] = n /\ pc[c] # "idle"
InFlightOwns ==
  \A c \in Calls : pc[c] \in InFlight => owner[NonceOf[c]] = c
FlushedBeforeClose ==
  \A c \in Calls : pc[c] = "closeDir" => NonceOf[c] \in durable
WinnerKeepsFile ==
  \A c \in Calls : answer[c] = "true" =>
    owner[NonceOf[c]] = c /\ NonceOf[c] \in durable
AnsweredIsDone == \A c \in Calls : answer[c] # "none" <=> pc[c] = "done"

FileInv ==
  /\ TypeOK /\ FileIsOwned /\ OwnerCreatedIt /\ InFlightOwns
  /\ FlushedBeforeClose /\ WinnerKeepsFile /\ AnsweredIsDone

LEMMA FileInvInit == Init => FileInv
BY FileStoreAssumption
   DEF Init, FileInv, TypeOK, FileIsOwned, OwnerCreatedIt, InFlightOwns,
       FlushedBeforeClose, WinnerKeepsFile, AnsweredIsDone, InFlight, Promise!Answers

(* The invariant is kept by every action.                                  *)
LEMMA FileInvStep ==
  ASSUME FileInv, [Next]_vars
  PROVE  FileInv'
<1> USE FileStoreAssumption
    DEF FileInv, TypeOK, FileIsOwned, OwnerCreatedIt, InFlightOwns,
        FlushedBeforeClose, WinnerKeepsFile, AnsweredIsDone, InFlight,
        Promise!Answers, Goto, Return
<1>1. ASSUME NEW c \in Calls, Create(c) PROVE FileInv'
  <2>1. CASE NonceOf[c] \notin files
    <3>1. TypeOK' /\ FileIsOwned' /\ AnsweredIsDone'
      BY <1>1, <2>1 DEF Create
    <3>2. OwnerCreatedIt' /\ InFlightOwns'
      BY <1>1, <2>1 DEF Create
    <3>3. FlushedBeforeClose' /\ WinnerKeepsFile'
      BY <1>1, <2>1 DEF Create
    <3>4. QED
      BY <3>1, <3>2, <3>3
  <2>2. CASE NonceOf[c] \in files
    BY <1>1, <2>2 DEF Create
  <2>3. QED
    BY <2>1, <2>2
<1>2. ASSUME NEW c \in Calls, CreateFails(c) PROVE FileInv'
  BY <1>2 DEF CreateFails
<1>3. ASSUME NEW c \in Calls, SyncFile(c) PROVE FileInv'
  BY <1>3 DEF SyncFile
<1>4. ASSUME NEW c \in Calls, OpenDirectory(c) PROVE FileInv'
  BY <1>4 DEF OpenDirectory
<1>5. ASSUME NEW c \in Calls, SyncDirectory(c) PROVE FileInv'
  BY <1>5 DEF SyncDirectory
<1>6. ASSUME NEW c \in Calls, CloseDirectory(c) PROVE FileInv'
  BY <1>6 DEF CloseDirectory
<1>7. ASSUME NEW c \in Calls, OperationFails(c) PROVE FileInv'
  BY <1>7 DEF OperationFails
<1>8. ASSUME NEW p \in Processes, Kill(p) PROVE FileInv'
  BY <1>8 DEF Kill
<1>9. CASE PowerFailure
  BY <1>9 DEF PowerFailure
<1>10. CASE UNCHANGED vars
  BY <1>10 DEF vars
<1>11. QED
  BY <1>1, <1>2, <1>3, <1>4, <1>5, <1>6, <1>7, <1>8, <1>9, <1>10 DEF Next

(* The variables keep their types; no file is durable that the running     *)
(* system does not see.                                                    *)
THEOREM FileStoreTyped == Spec => []TypeOK
<1>1. FileInv /\ [Next]_vars => FileInv'
  BY FileInvStep
<1>2. FileInv => TypeOK
  BY DEF FileInv
<1>3. QED
  BY FileInvInit, <1>1, <1>2, PTL DEF Spec

(* Once a call was answered true its nonce stays used through any power    *)
(* failure: the flush precedes the answer.                                 *)
THEOREM WinnersAreDurable == Spec => []WinnerIsDurable
<1>1. FileInv /\ [Next]_vars => FileInv'
  BY FileInvStep
<1>2. FileInv => WinnerIsDurable
  BY FileStoreAssumption
     DEF FileInv, TypeOK, WinnerKeepsFile, WinnerIsDurable, IsUnused
<1>3. QED
  BY FileInvInit, <1>1, <1>2, PTL DEF Spec

(* Each step is a step of the one-shot store: creating the file claims the *)
(* nonce, EEXIST refuses, an error throws, the last close wins, and a      *)
(* power failure forgets claims.                                           *)
LEMMA FileStepRefines ==
  ASSUME FileInv, [Next]_vars
  PROVE  [Promise!Next]_(Promise!oneShotVars)
<1> USE FileStoreAssumption
    DEF FileInv, TypeOK, InFlight, Goto, Return, AnsweredIsDone,
        Promise!oneShotVars
<1>1. ASSUME NEW c \in Calls, Create(c) PROVE Promise!Next
  <2>1. CASE NonceOf[c] \notin files
    <3>1. Promise!Claim(c)
      BY <1>1, <2>1 DEF Create, Promise!Claim, FileIsOwned
    <3>2. QED
      BY <3>1 DEF Promise!Next
  <2>2. CASE NonceOf[c] \in files
    <3>1. owner[NonceOf[c]] \notin {NoCall, c}
      BY <1>1, <2>2 DEF Create, FileIsOwned, OwnerCreatedIt
    <3>2. Promise!Refuse(c)
      BY <1>1, <2>2, <3>1 DEF Create, Promise!Refuse
    <3>3. QED
      BY <3>2 DEF Promise!Next
  <2>3. QED
    BY <2>1, <2>2
<1>2. ASSUME NEW c \in Calls, CreateFails(c) \/ OperationFails(c) PROVE Promise!Next
  <2>1. Promise!Throw(c)
    BY <1>2 DEF CreateFails, OperationFails, Promise!Throw
  <2>2. QED
    BY <2>1 DEF Promise!Next
<1>3. ASSUME NEW c \in Calls, SyncFile(c) \/ OpenDirectory(c) \/ SyncDirectory(c)
      PROVE  UNCHANGED Promise!oneShotVars
  BY <1>3 DEF SyncFile, OpenDirectory, SyncDirectory
<1>4. ASSUME NEW c \in Calls, CloseDirectory(c) PROVE Promise!Next
  <2>1. owner[NonceOf[c]] = c
    BY <1>4 DEF CloseDirectory, InFlightOwns
  <2>2. Promise!Win(c)
    BY <1>4, <2>1 DEF CloseDirectory, Promise!Win
  <2>3. QED
    BY <2>2 DEF Promise!Next
<1>5. ASSUME NEW p \in Processes, Kill(p) PROVE UNCHANGED Promise!oneShotVars
  BY <1>5 DEF Kill
<1>6. CASE PowerFailure
  <2>1. PICK survivors \in SUBSET files :
          /\ durable \subseteq survivors
          /\ owner' = [n \in Nonces |-> IF n \in survivors THEN owner[n] ELSE NoCall]
    BY <1>6 DEF PowerFailure
  <2>2. \A n \in Nonces \ survivors : owner[n] \in Calls => answer[owner[n]] # "true"
    BY <2>1 DEF WinnerKeepsFile, OwnerCreatedIt
  <2>3. Promise!Forget
    BY <1>6, <2>1, <2>2 DEF PowerFailure, Promise!Forget
  <2>4. QED
    BY <2>3 DEF Promise!Next
<1>7. CASE UNCHANGED vars
  BY <1>7 DEF vars
<1>8. QED
  BY <1>1, <1>2, <1>3, <1>4, <1>5, <1>6, <1>7 DEF Next

(* FileCapabilityStore implements the one-shot store.                      *)
THEOREM FileStoreImplementsOneShot == Spec => ImplementsOneShot
<1>1. Init => Promise!Init
  BY DEF Init, Promise!Init
<1>2. FileInv /\ [Next]_vars => FileInv'
  BY FileInvStep
<1>3. FileInv /\ [Next]_vars => [Promise!Next]_(Promise!oneShotVars)
  BY FileStepRefines
<1>4. QED
  BY FileInvInit, <1>1, <1>2, <1>3, PTL DEF Spec, Promise!Spec, ImplementsOneShot

(* consumeOnce answers true to at most one call per nonce, over all        *)
(* processes, deaths and power failures: a winner keeps its file.          *)
THEOREM FileStoreSingleWinner == Spec => []SingleWinner
<1>1. FileInv /\ [Next]_vars => FileInv'
  BY FileInvStep
<1>2. FileInv => SingleWinner
  BY DEF FileInv, WinnerKeepsFile, SingleWinner, Promise!SingleWinner
<1>3. QED
  BY FileInvInit, <1>1, <1>2, PTL DEF Spec

(* A nonce becomes usable again only by a power failure, and only if       *)
(* nobody was answered true for it.                                        *)
THEOREM OnlyUnwonIsReused == Spec => ReuseOnlyUnwon
<1> DEFINE Unwon(n) == \A c \in Calls : NonceOf[c] = n => answer[c] # "true"
<1>1. ASSUME FileInv, [Next]_vars, NEW n \in Nonces, ~IsUnused(n), IsUnused(n)'
      PROVE  Unwon(n) /\ \A c \in Calls : pc'[c] \notin InFlight
  <2> USE FileStoreAssumption, <1>1 DEF FileInv, TypeOK, IsUnused
  <2>1. PowerFailure
    <3>1. ASSUME NEW c \in Calls, Create(c) PROVE files \subseteq files'
      BY <3>1 DEF Create
    <3>2. ASSUME NEW c \in Calls,
                 \/ CreateFails(c) \/ SyncFile(c) \/ OpenDirectory(c)
                 \/ SyncDirectory(c) \/ CloseDirectory(c) \/ OperationFails(c)
          PROVE  files' = files
      BY <3>2 DEF CreateFails, SyncFile, OpenDirectory, SyncDirectory, CloseDirectory,
                  OperationFails
    <3>3. ASSUME NEW p \in Processes, Kill(p) PROVE files' = files
      BY <3>3 DEF Kill
    <3>4. CASE UNCHANGED vars
      BY <3>4 DEF vars
    <3>5. QED
      BY <3>1, <3>2, <3>3, <3>4 DEF Next
  <2>2. n \notin durable
    BY <2>1 DEF PowerFailure
  <2>3. Unwon(n)
    BY <2>2 DEF WinnerKeepsFile
  <2>4. QED
    BY <2>1, <2>3 DEF PowerFailure, InFlight
<1>2. FileInv /\ [Next]_vars =>
        [\A n \in Nonces : ~IsUnused(n) /\ IsUnused(n)' =>
           /\ \A c \in Calls : NonceOf[c] = n => answer[c] # "true"
           /\ \A c \in Calls : pc'[c] \notin InFlight]_vars
  BY <1>1
<1>3. QED
  BY FileInvInit, FileInvStep, <1>2, PTL DEF Spec, ReuseOnlyUnwon

=============================================================================
