---------------------------- MODULE ContinuityLoop ----------------------------
(***************************************************************************)
(* The life of one identity: transitions are proposed for its committed    *)
(* state, judged by the verifier against the trust the verifier has at     *)
(* that moment, and committed when VALID (cct/src/cctbench/generator/      *)
(* dataset.py advances its source this way; a rejected transition leaves   *)
(* neither state nor context behind).  Meanwhile keys are revoked, key     *)
(* histories and stored evidence are lost, and head evidence is archived.  *)
(***************************************************************************)
EXTENDS ContinuityFixtures

CONSTANTS
  Rounds,     \* bound: the cases proposed first, second, ... when nothing else is
  Rivals,     \* the cases proposed against one that is already there
  MaxFaults   \* bound: faults of keys and evidence

ASSUME OffersAssumption ==
  /\ \A i \in DOMAIN Rounds : Rounds[i] \subseteq Names
  /\ Rivals \subseteq Names

VARIABLES
  state,    \* the committed cognitive state
  log,      \* the committed offers, oldest first
  pending,  \* the offers proposed on the committed state, oldest first
  archive,  \* the transitions whose head evidence is archived
  revoked,  \* <<principal, epoch>>: revoked or compromised from that epoch on
  unclear,  \* principals whose key history is unavailable
  lost,     \* evidence the store no longer returns
  faults
vars == <<state, log, pending, archive, revoked, unclear, lost, faults>>

Init ==
  /\ state = Genesis /\ log = <<>> /\ pending = <<>> /\ archive = {} /\ revoked = {}
  /\ unclear = {} /\ lost = {} /\ faults = 0

------------------------------------------------------------------------------
CredentialsNow ==
  [ p \in Principals |-> [PlainCredential(p) EXCEPT
      !.statusKnown = p \notin unclear,
      !.revoked = {r[2] : r \in {x \in revoked : x[1] = p}}] ]

(* Evidence accumulates; a name used again is overwritten.                 *)
StoreNow ==
  LET offers == log \o pending
      holding == {i \in DOMAIN offers : Stored(offers[i]) # {}}
  IN  [uri \in {Uri(offers[i]) : i \in holding} \ lost |->
        The(Stored(offers[Max({i \in holding : Uri(offers[i]) = uri})]))]

(* The head is the last transition finished.                               *)
HeadNow == IF log \o pending = <<>> THEN {} ELSE HeadOf(Last(log \o pending))

(* Of one epoch the archive keeps one head: the last archived.             *)
ArchiveNow ==
  [e \in {log[i].base.epoch : i \in archive} |->
    The(HeadOf(log[Max({i \in archive : log[i].base.epoch = e})]))]

(* What the verifier trusts when it judges a step from this state.         *)
ContextAt(s) ==
  [ known |-> TRUE, identity |-> Identity, epoch |-> s.epoch,
    credentials |-> CredentialsNow, kernels |-> {"kernel"}, head |-> HeadNow,
    archive |-> ArchiveNow, store |-> StoreNow, time |-> {s.timestamp + 2} ]

VerdictFrom(s, o) == Verdict(s, {WitnessOf(o)}, CandidateOf(o), PolicyOf(o), ContextAt(s))

------------------------------------------------------------------------------
Propose(name) ==
  LET round == Len(log) + Len(pending) + 1 IN
  /\ round \in DOMAIN Rounds
  /\ IF pending = <<>> THEN name \in Rounds[round] ELSE name \in Rivals /\ Len(pending) = 1
  /\ \E o \in OfferOf(name, state) : pending' = Append(pending, o)
  /\ UNCHANGED <<state, log, archive, revoked, unclear, lost, faults>>

(* The verifier judges any pending offer, as a step from the committed     *)
(* state, which may no longer be the one the offer was made for.           *)
Judge(i) ==
  /\ pending' = RemoveAt(pending, i)
  /\ IF VerdictFrom(state, pending[i]) = "VALID"
       THEN state' = CandidateOf(pending[i]) /\ log' = Append(log, pending[i])
       ELSE UNCHANGED <<state, log>>
  /\ UNCHANGED <<archive, revoked, unclear, lost, faults>>

Archive(i) ==
  /\ i \notin archive /\ archive' = archive \cup {i}
  /\ UNCHANGED <<state, log, pending, revoked, unclear, lost, faults>>

Fault == faults < MaxFaults /\ faults' = faults + 1

Revoke(p, epoch) ==
  /\ Fault /\ revoked' = revoked \cup {<<p, epoch>>}
  /\ UNCHANGED <<state, log, pending, archive, unclear, lost>>

LoseKeyHistory(p) ==
  /\ Fault /\ unclear' = unclear \cup {p}
  /\ UNCHANGED <<state, log, pending, archive, revoked, lost>>

LoseEvidence(i) ==
  /\ Fault /\ lost' = lost \cup {Uri(log[i])}
  /\ UNCHANGED <<state, log, pending, archive, revoked, unclear>>

Next ==
  \/ \E name \in Names : Propose(name)
  \/ \E i \in DOMAIN pending : Judge(i)
  \/ \E i \in DOMAIN log : Archive(i)
  \/ \E p \in {"gov1", "kernel"}, e \in {state.epoch, state.epoch + 1} : Revoke(p, e)
  \/ LoseKeyHistory("gov1")
  \/ \E i \in DOMAIN log : LoseEvidence(i)

Spec == Init /\ [][Next]_vars

------------------------------------------------------------------------------
StateAt(i) == IF i <= Len(log) THEN log[i].base ELSE state
Moments == 1..(Len(log) + 1)

Recorded(s, id) == The({e \in ToSet(s.chronicle) : e.id = id})

(* Every event of an earlier state is still there, in its place, as it was *)
(* recorded or under a tombstone that commits to what was recorded; a      *)
(* buried event stays buried, and corrections are only ever added.         *)
EventsKept(old, new) ==
  /\ InOrder(EventIds(old), EventIds(new))
  /\ \A e \in ToSet(old.chronicle) : LET now == Recorded(new, e.id) IN
       /\ IF now.tombstone /\ ~e.tombstone THEN now.original = {EventCommitment(e)}
          ELSE (now.tombstone <=> e.tombstone) /\ EventCommitment(now) = EventCommitment(e)
       /\ Continues(e.annotations, now.annotations)

(* Every belief of an earlier state is still held or is in the history.    *)
BeliefsKept(old, new) ==
  \A k \in DOMAIN old.beliefs :
    /\ k \in DOMAIN new.beliefs
    /\ new.beliefs[k].established = old.beliefs[k].established
    /\ BeliefSnapshot(old.beliefs[k]) \in
         ToSet(new.beliefs[k].history) \cup {BeliefSnapshot(new.beliefs[k])}

(* However transitions of several kinds follow each other, and whatever    *)
(* becomes of keys and evidence, no committed state rewrites the past of   *)
(* another: what the checks of one step establish adds up over the life.   *)
PastIsKept ==
  \A i, j \in Moments : i < j =>
    EventsKept(StateAt(i), StateAt(j)) /\ BeliefsKept(StateAt(i), StateAt(j))

(* Transition i raised the entity above the default.                       *)
RaisedAt(i, k) ==
  /\ k \in DOMAIN log[i].base.relationships
  /\ Rank(log[i].base.relationships[k].tier) = 0
  /\ Rank(StateAt(i + 1).relationships[k].tier) > 0
  /\ log[i].base.relationships[k].count >= DefaultPolicy.trustThreshold

(* An entity is trusted beyond the default only if some committed          *)
(* transition raised it when the state before it already counted enough    *)
(* interactions: the transition that brings the interactions is never the  *)
(* one that rewards them (check_relational, through the lineage check).    *)
TrustFollowsHistory ==
  \A k \in DOMAIN state.relationships :
    Rank(state.relationships[k].tier) > 0 => \E i \in DOMAIN log : RaisedAt(i, k)

(* Trust follows history, and every interaction counted is one the genesis *)
(* state had or one that resolvable evidence vouched for when it was       *)
(* committed; none is counted twice.                                       *)
TrustIsEarned ==
  /\ TrustFollowsHistory
  /\ \A k \in DOMAIN state.relationships : LET r == state.relationships[k] IN
    /\ r.count = Cardinality(ToSet(r.ids))
    /\ \A id \in ToSet(r.ids) :
         \/ id \in ToSet(Genesis.relationships[k].ids)
         \/ \E i \in DOMAIN log : \E x \in UNION SupportedRecords(log[i]) :
              x.session = id /\ x.entity = k /\ x.positive

(* The rules that may not be amended are for ever those of the genesis     *)
(* state, whoever signs and whatever the manifest (check_normative).       *)
CoreStands ==
  \A k \in DOMAIN Genesis.rules : Genesis.rules[k].fixed =>
    Lookup(state.rules, k) = {Genesis.rules[k]}

(* The custodians among those who signed a proposal made to a state.       *)
Custodians(s, q) ==
  {x.principal : x \in {y \in ToSet(Signers(q)) :
     Granted(s, y) /\ s.governance[y.principal].role = "IDENTITY_CUSTODIAN"}}

(* The core stands, and any other change of the rules came with the        *)
(* signatures of two custodians - two people, not one twice - of the state *)
(* it was made to.                                                         *)
CoreIsGoverned ==
  /\ CoreStands
  /\ \A i \in DOMAIN log : log[i].base.rules # StateAt(i + 1).rules =>
       Cardinality(Custodians(log[i].base, ProposalOf(log[i]))) >= 2

------------------------------------------------------------------------------
(* Nobody who signed the transition had a key revoked at its epoch.        *)
KeysStillGood(o) ==
  \A r \in revoked : r[1] \in ToSet(SignersOf(o.name)) \cup {"kernel"} => r[2] > o.base.epoch

(* No other transition of the same epoch is, or is archived as, the head.  *)
NoRivalHead(o) ==
  \A h \in HeadNow \cup Range(ArchiveNow) : h.identity = Identity
    /\ (h.epoch = o.base.epoch => h \in HeadOf(o))

(* No name of evidence was given to two pieces of evidence.                *)
EvidenceIsKept ==
  \A o, p \in ToSet(log \o pending) : Uri(o) = Uri(p) => EvidenceOf(o) = EvidenceOf(p)

(* Judged again later - other transitions committed, other heads current,  *)
(* keys revoked for later epochs, key histories or evidence lost - a       *)
(* committed transition never turns INVALID, and with its head archived    *)
(* and nothing lost it is VALID: what is missing is never a contradiction. *)
HistoricVerdictsStand ==
  \A i \in DOMAIN log : KeysStillGood(log[i]) /\ NoRivalHead(log[i]) /\ EvidenceIsKept =>
    LET verdict == VerdictFrom(log[i].base, log[i]) IN
    /\ verdict # "INVALID"
    /\ i \in archive /\ lost = {} /\ unclear = {} => verdict = "VALID"

(* The label the generator gives a case.                                   *)
Label(name) ==
  IF name \in {"D1", "D2", "D3", "D4", "head_missing", "authority_missing",
               "provenance_missing", "provenance_unavailable", "attestation_conflict",
               "attestation_missing"} THEN "INDETERMINATE"
  ELSE IF name \in {"L1", "L2", "L3", "L4", "L5", "L6", "L7", "L8", "L9", "L10"} THEN "VALID"
  ELSE "INVALID"

(* The labels of the benchmark hold on every history of its legitimate     *)
(* transitions, not only on the one the dataset advances by: proposed      *)
(* alone, with every key good and all evidence there, a case of the        *)
(* generator gets the verdict it is labelled with - an attack is never     *)
(* VALID, a legitimate transition never turned away, and a fault and a gap *)
(* together are a fault.                                                   *)
LabelsAgree ==
  /\ Len(pending) = 1 /\ faults = 0 /\ pending[1].name \notin Extra
  /\ pending[1].base = state /\ \A i \in DOMAIN log : log[i].name \notin Extra
  => VerdictFrom(state, pending[1]) = Label(pending[1].name)

=============================================================================
