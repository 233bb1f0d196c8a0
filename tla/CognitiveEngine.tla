--------------------------- MODULE CognitiveEngine ---------------------------
(***************************************************************************)
(* The typed mutations of a cognitive state (cct/src/cctbench/schema/      *)
(* state.py and engine/apply.py) as functions.                             *)
(*                                                                         *)
(* A state is [epoch, timestamp, chronicle, beliefs, memory, knowledge,    *)
(* relationships, rules, governance, config]; self_model, which nothing    *)
(* changes, is left out.  A field of the source that may be None is a set  *)
(* of at most one element here.                                            *)
(*   event         [id, epoch, timestamp, content, evidence, acquired,     *)
(*                  annotations, tombstone, original, reason, principal,   *)
(*                  signature]                                             *)
(*   belief        [proposition, value, established, revised, ref, history]*)
(*   relationship  [entity, tier, count, ids, last]                        *)
(*   knowledge     [structured, claimed, evidence]                         *)
(*   memory item   [session, expires]                                      *)
(*   rule          [text, fixed]                                           *)
(*   grant         [role, scopes]                                          *)
(* A mutation is [id, op, target, args, pre, ref].                         *)
(***************************************************************************)
EXTENDS Integers, SequencesExt

The(option) == CHOOSE x \in option : TRUE

Targets ==
  [ INSERT_KNOWLEDGE |-> "knowledge",        BACKDATE_KNOWLEDGE |-> "knowledge",
    APPEND_CHRONICLE |-> "chronicle",        REWRITE_CHRONICLE |-> "chronicle",
    REMOVE_CHRONICLE |-> "chronicle",        REORDER_CHRONICLE |-> "chronicle",
    DELETE_CHRONICLE_EVENT |-> "chronicle",  ANNOTATE_CORRECTION |-> "chronicle",
    REVISE_BELIEF |-> "beliefs",             RETROACTIVE_BELIEF |-> "beliefs",
    UPDATE_TRUST_TIER |-> "relationships",   EVICT_BUFFER |-> "working_memory",
    INSERT_SUMMARY |-> "working_memory",     PRUNE_EXPIRED_CONTEXT |-> "working_memory",
    UPDATE_RUNTIME_CONFIG |-> "runtime_config", REBIND_SUBSTRATE |-> "runtime_config",
    FORWARD_RESTORE |-> "runtime_config",    SET_CLOCK |-> "runtime_config",
    DELETE_NORMATIVE_RULE |-> "normative_rules", INSERT_NORMATIVE_RULE |-> "normative_rules",
    CLAIM_SUCCESSION |-> "self_model" ]

BeliefSnapshot(b) ==
  [value |-> b.value, established |-> b.established, revised |-> b.revised, ref |-> b.ref]

(* What an event is committed to: not its annotations, not its tombstone.  *)
EventCommitment(e) ==
  [ id |-> e.id, epoch |-> e.epoch, timestamp |-> e.timestamp, content |-> e.content,
    evidence |-> e.evidence, acquired |-> e.acquired ]

EventIds(s) == [i \in DOMAIN s.chronicle |-> s.chronicle[i].id]
Holds(s, id) == id \in ToSet(EventIds(s))

------------------------------------------------------------------------------
(* A mutation that apply_mutations does not raise on: s is the state the   *)
(* mutations before it have left, pred the predecessor.                    *)
Admits(pred, s, m) ==
  LET a == m.args IN
  /\ m.op \in DOMAIN Targets /\ Targets[m.op] = m.target
  /\ CASE m.op = "APPEND_CHRONICLE" -> ~Holds(s, a.event.id)
       [] m.op \in {"REVISE_BELIEF", "RETROACTIVE_BELIEF"} ->
            IF a.proposition \in DOMAIN s.beliefs
              THEN m.pre \subseteq {s.beliefs[a.proposition].value}
              ELSE m.op = "REVISE_BELIEF"
       [] m.op = "PRUNE_EXPIRED_CONTEXT" ->
            LET matches == {v \in ToSet(s.memory) : v.session = a.session} IN
              /\ matches # {}
              /\ \A v \in matches : v.expires # {} /\ The(v.expires) < pred.timestamp
       [] m.op \in {"ANNOTATE_CORRECTION", "REWRITE_CHRONICLE", "DELETE_CHRONICLE_EVENT"} ->
            Holds(s, a.event)
       [] m.op = "REORDER_CHRONICLE" -> \A id \in ToSet(a.order) : Holds(s, id)
       [] m.op = "DELETE_NORMATIVE_RULE" -> a.rule \in DOMAIN s.rules
       [] m.op = "BACKDATE_KNOWLEDGE" ->
            a.key \in DOMAIN s.knowledge /\ s.knowledge[a.key].structured
       [] OTHER -> TRUE

(* Where the event of that name is: no name is given twice.                *)
Position(s, id) == SelectInSeq(s.chronicle, LAMBDA e : e.id = id)

ChangeEvent(s, id, Changed(_)) == [s EXCEPT !.chronicle[Position(s, id)] = Changed(@)]

(* A tombstone keeps the commitment of what it replaces.                   *)
Tombstone(e, a) ==
  [e EXCEPT !.original = {EventCommitment(e)}, !.tombstone = TRUE, !.reason = {a.reason},
            !.principal = a.principal, !.signature = a.signature, !.content = ""]

RevisedBelief(s, m) ==
  LET key == m.args.proposition
      known == key \in DOMAIN s.beliefs
      old == s.beliefs[key]
  IN  [ proposition |-> key, value |-> m.args.value,
        established |-> IF known THEN old.established ELSE s.epoch,
        revised |-> s.epoch, ref |-> m.ref,
        history |-> IF known THEN Append(old.history, BeliefSnapshot(old)) ELSE <<>> ]

UpdatedRelationship(s, a) ==
  LET known == a.entity \in DOMAIN s.relationships
      old == s.relationships[a.entity]
  IN  [ entity |-> IF known THEN old.entity ELSE a.entity, tier |-> a.tier,
        count |-> (IF known THEN old.count ELSE 0) + a.increment,
        ids |-> (IF known THEN old.ids ELSE <<>>) \o a.ids,
        last |-> s.timestamp ]

(* The memory without the items of a session.                              *)
Pruned(memory, session) ==
  FoldLeft(LAMBDA kept, v : IF v.session = session THEN kept ELSE Append(kept, v), <<>>, memory)

Put(f, key, value) == [k \in DOMAIN f \cup {key} |-> IF k = key THEN value ELSE f[k]]
Without(f, key) == [k \in DOMAIN f \ {key} |-> f[k]]

Effect(s, m) ==
  LET a == m.args IN
  CASE m.op = "INSERT_KNOWLEDGE" -> [s EXCEPT !.knowledge = Put(@, a.key, a.value)]
    [] m.op = "BACKDATE_KNOWLEDGE" -> [s EXCEPT !.knowledge[a.key].claimed = {a.claimed}]
    [] m.op = "APPEND_CHRONICLE" -> [s EXCEPT !.chronicle = Append(@, a.event)]
    [] m.op = "ANNOTATE_CORRECTION" ->
         ChangeEvent(s, a.event, LAMBDA e :
           [e EXCEPT !.annotations = Append(@, [text |-> a.correction, ref |-> m.ref])])
    [] m.op = "REWRITE_CHRONICLE" ->
         ChangeEvent(s, a.event, LAMBDA e : [e EXCEPT !.content = a.content])
    [] m.op = "REMOVE_CHRONICLE" ->
         IF Holds(s, a.event) THEN [s EXCEPT !.chronicle = RemoveAt(@, Position(s, a.event))]
         ELSE s
    [] m.op = "REORDER_CHRONICLE" ->
         [s EXCEPT !.chronicle = [i \in DOMAIN a.order |->
            CHOOSE e \in ToSet(s.chronicle) : e.id = a.order[i]]]
    [] m.op = "DELETE_CHRONICLE_EVENT" -> ChangeEvent(s, a.event, LAMBDA e : Tombstone(e, a))
    [] m.op = "REVISE_BELIEF" ->
         [s EXCEPT !.beliefs = Put(@, a.proposition, RevisedBelief(s, m))]
    [] m.op = "RETROACTIVE_BELIEF" ->
         [s EXCEPT !.beliefs[a.proposition] =
            [@ EXCEPT !.established = a.established, !.history = <<>>]]
    [] m.op = "UPDATE_TRUST_TIER" ->
         [s EXCEPT !.relationships = Put(@, a.entity, UpdatedRelationship(s, a))]
    [] m.op = "EVICT_BUFFER" -> [s EXCEPT !.memory = <<>>]
    [] m.op = "INSERT_SUMMARY" -> [s EXCEPT !.memory = Append(@, a.summary)]
    [] m.op = "PRUNE_EXPIRED_CONTEXT" ->
         [s EXCEPT !.memory = Pruned(@, a.session)]
    [] m.op \in {"UPDATE_RUNTIME_CONFIG", "REBIND_SUBSTRATE", "FORWARD_RESTORE"} ->
         [s EXCEPT !.config = a @@ @]
    [] m.op = "DELETE_NORMATIVE_RULE" -> [s EXCEPT !.rules = Without(@, a.rule)]
    [] m.op = "INSERT_NORMATIVE_RULE" -> [s EXCEPT !.rules = Put(@, a.rule, a.content)]
    [] m.op = "SET_CLOCK" -> [s EXCEPT !.epoch = a.epoch, !.timestamp = a.timestamp]
    [] OTHER -> s

------------------------------------------------------------------------------
(* The clock of the successor: a succession claim alone copies the state.  *)
Advanced(pred, manifest) ==
  IF \E i \in DOMAIN manifest : manifest[i].op # "CLAIM_SUCCESSION"
    THEN [pred EXCEPT !.epoch = @ + 1, !.timestamp = @ + 1] ELSE pred

Identified(manifest) == \A i, j \in DOMAIN manifest : manifest[i].id = manifest[j].id => i = j

(* apply_mutations: {} when it raises, else the one successor.             *)
Apply(pred, manifest) ==
  IF ~Identified(manifest) THEN {}
  ELSE FoldLeft(LAMBDA states, m : {Effect(s, m) : s \in {t \in states : Admits(pred, t, m)}},
                {Advanced(pred, manifest)}, manifest)

=============================================================================
