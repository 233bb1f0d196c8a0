------------------------ MODULE ContinuityLoopProofs ------------------------
(***************************************************************************)
(* What the verifier's single steps add up to over the life of an          *)
(* identity, for every choice of the cases proposed, of the rivals, and of *)
(* the number of faults.                                                   *)
(*                                                                         *)
(* The argument has four layers: what the engine's fold over a manifest of *)
(* any length can change (ApplyGrows); what a VALID verdict says of each   *)
(* check (ValidMeansPassed, CommitPassed); what one commit therefore does  *)
(* to events, beliefs, rules and relationships; and what a chain of        *)
(* commits keeps (the theorems), over the invariant LifeInv.               *)
(*                                                                         *)
(* That old verdicts stand (HistoryStands) needs three more: what an offer *)
(* can make of a state names the offer's own evidence (CommitTold); each   *)
(* check that passed in one trust stands in any later one (VerdictStands,  *)
(* over Later); and the trust of now is a later one for every committed    *)
(* offer (NowIsLater), over the invariant HistInv.                         *)
(*                                                                         *)
(* That the labels hold (LabelsHold) needs the values themselves: of which *)
(* kind the states are that the generator's cases lead to (Regular); what  *)
(* the manifest of each case makes of such a state (the Outcome lemmas);   *)
(* what each check then says of each case in a trust where its keys and    *)
(* its evidence are good (Trusting), so which case fails where             *)
(* (FaultFails), which is left unknown and which passes (GapsAre), in one  *)
(* place LabelOfAlone; and that a life without faults stays among such     *)
(* states and such trust, over the invariant LabelInv.                     *)
(***************************************************************************)
EXTENDS ContinuityLoop, FiniteSetTheorems, WellFoundedInduction, TLAPS

(* Induction over a set of numbers.                                        *)
LEMMA SetInduction ==
  ASSUME NEW P \in SUBSET Nat, 0 \in P, \A n \in P : n + 1 \in P
  PROVE  P = Nat
<1> DEFINE Rest == Nat \ P
<1>1. SUFFICES ASSUME Rest # {} PROVE FALSE
  OBVIOUS
<1>2. IsWellFoundedOn({pair \in Nat \X Nat : pair[1] < pair[2]}, Nat)
  BY NatLessThanWellFounded DEF OpToRel
<1>3. Rest \subseteq Nat
  OBVIOUS
<1>4. PICK m \in Rest : \A k \in Rest : <<k, m>> \notin {pair \in Nat \X Nat : pair[1] < pair[2]}
  <2> HIDE DEF Rest
  <2>1. QED
    BY <1>1, <1>2, <1>3, WFMin, Zenon
<1>5. m \in Nat /\ m # 0
  BY <1>4
<1>6. m - 1 \in Nat /\ m - 1 < m
  BY <1>5
<1>7. m - 1 \notin Rest
  BY <1>4, <1>5, <1>6
<1>8. (m - 1) + 1 \in P
  BY <1>6, <1>7
<1> QED  BY <1>4, <1>5, <1>8

------------------------------------------------------------------------------
(* What the mutation m makes of some states.                               *)
Admitted(pred, states, m) == {Effect(s, m) : s \in {t \in states : Admits(pred, t, m)}}

(* The fold of a manifest, as the library defines it: over the positions   *)
(* from the last to the first, up to the n-th.                             *)
Round(pred, manifest, n, iter) ==
  [s \in SUBSET (1..n) |->
    IF s = {} THEN {Advanced(pred, manifest)}
    ELSE Admitted(pred, iter[s \ {Max(s)}], manifest[Max(s)])]

(* What apply_mutations returns is that fold over all positions.           *)
LEMMA ApplyIsRound ==
  ASSUME NEW pred, NEW manifest, NEW n, DOMAIN manifest = 1..n, Identified(manifest)
  PROVE  Apply(pred, manifest) = (CHOOSE iter : iter = Round(pred, manifest, n, iter))[1..n]
<1>1. Apply(pred, manifest) =
        (CHOOSE iter : iter =
           [s \in SUBSET DOMAIN manifest |->
             IF s = {} THEN {Advanced(pred, manifest)}
             ELSE Admitted(pred, iter[s \ {Max(s)}], manifest[Max(s)])])[DOMAIN manifest]
  BY Zenon DEF Apply, FoldLeft, MapThenFoldSet, Admitted
<1> QED  BY <1>1, Zenon DEF Round

(* The position folded last is the greatest.                               *)
LEMMA GreatestIsLast ==
  ASSUME NEW n \in Nat, NEW s \in SUBSET (1..(n + 1)), n + 1 \in s
  PROVE  Max(s) = n + 1
<1>1. n + 1 \in s /\ \A y \in s : n + 1 >= y
  OBVIOUS
<1>2. Max(s) \in s /\ \A y \in s : Max(s) >= y
  BY <1>1 DEF Max
<1> DEFINE m == Max(s)
<1>3. m \in 1..(n + 1) /\ m >= n + 1
  BY <1>1, <1>2
<1> HIDE DEF m
<1>4. m = n + 1
  BY <1>3
<1> QED  BY <1>4 DEF m

(* The fold is defined: there is a function that unfolds into itself.      *)
LEMMA RoundExists ==
  ASSUME NEW pred, NEW manifest, NEW n \in Nat
  PROVE  \E iter : iter = Round(pred, manifest, n, iter)
<1> DEFINE P == {k \in Nat : \E iter : iter = Round(pred, manifest, k, iter)}
<1>1. 0 \in P
  <2> DEFINE w == [s \in SUBSET (1..0) |-> {Advanced(pred, manifest)}]
  <2>1. w = Round(pred, manifest, 0, w)
    BY DEF Round
  <2> QED  BY <2>1
<1>2. ASSUME NEW k \in P PROVE k + 1 \in P
  <2>0. k \in Nat
    BY <1>2
  <2>1. PICK f : f = Round(pred, manifest, k, f)
    BY <1>2
  <2> DEFINE w == [s \in SUBSET (1..(k + 1)) |->
                    IF k + 1 \in s THEN Admitted(pred, f[s \ {k + 1}], manifest[k + 1]) ELSE f[s]]
  <2>2. ASSUME NEW s \in SUBSET (1..(k + 1))
        PROVE  w[s] = IF s = {} THEN {Advanced(pred, manifest)}
                      ELSE Admitted(pred, w[s \ {Max(s)}], manifest[Max(s)])
    <3>1. CASE k + 1 \in s
      <4>1. Max(s) = k + 1
        BY <1>2, <3>1, GreatestIsLast
      <4>2. s \ {k + 1} \in SUBSET (1..(k + 1)) /\ k + 1 \notin s \ {k + 1} /\ s # {}
        BY <3>1
      <4>3. w[s \ {k + 1}] = f[s \ {k + 1}]
        BY <4>2
      <4>4. w[s] = Admitted(pred, f[s \ {k + 1}], manifest[k + 1])
        BY <3>1
      <4> QED  BY <4>1, <4>2, <4>3, <4>4
    <3>2. CASE k + 1 \notin s
      <4>0. \A i \in s : i \in 1..k
        BY <2>0, <3>2
      <4>1. s \in SUBSET (1..k) /\ s \ {Max(s)} \in SUBSET (1..k) /\ k + 1 \notin s \ {Max(s)}
            /\ s \ {Max(s)} \in SUBSET (1..(k + 1))
        BY <4>0, <3>2
      <4>2. w[s] = f[s] /\ w[s \ {Max(s)}] = f[s \ {Max(s)}]
        BY <3>2, <4>1
      <4>3. f[s] = IF s = {} THEN {Advanced(pred, manifest)}
                   ELSE Admitted(pred, f[s \ {Max(s)}], manifest[Max(s)])
        BY <2>1, <4>1 DEF Round
      <4> HIDE DEF w
      <4> QED  BY <4>2, <4>3, Zenon
    <3> QED  BY <3>1, <3>2
  <2>3. w = Round(pred, manifest, k + 1, w)
    <3>1. w = [s \in SUBSET (1..(k + 1)) |-> w[s]]
      OBVIOUS
    <3> HIDE DEF w
    <3> QED  BY <2>2, <3>1 DEF Round
  <2> QED  BY <1>2, <2>3
<1> HIDE DEF P
<1>3. P = Nat
  BY <1>1, <1>2, SetInduction DEF P
<1> QED  BY <1>3 DEF P

(* Interactions are counted by a sequence of their names.                  *)
Relates(m) == m.op = "UPDATE_TRUST_TIER" => m.args.ids \in Seq({"s1", "s2"})

(* A manifest of the generator: two mutations at most.                     *)
WellMade(q) == \E n \in 0..2 : DOMAIN q = 1..n /\ \A i \in 1..n : Relates(q[i])

(* A manifest of one mutation is made so.                                  *)
LEMMA WellMadeOne == ASSUME NEW m, Relates(m) PROVE WellMade(<<m>>)
<1>1. DOMAIN <<m>> = 1..1 /\ <<m>>[1] = m
  OBVIOUS
<1>2. \A i \in 1..1 : Relates(<<m>>[i])
  BY <1>1
<1> QED BY <1>1, <1>2 DEF WellMade

(* A manifest of two.                                                      *)
LEMMA WellMadeTwo == ASSUME NEW m, Relates(m), NEW n, Relates(n) PROVE WellMade(<<m, n>>)
<1>1. DOMAIN <<m, n>> = 1..2 /\ <<m, n>>[1] = m /\ <<m, n>>[2] = n
  OBVIOUS
<1>2. \A i \in 1..2 : Relates(<<m, n>>[i])
  BY <1>1
<1> QED BY <1>1, <1>2 DEF WellMade

(* And of none.                                                            *)
LEMMA WellMadeNone == WellMade(<<>>)
  BY DEF WellMade

(* A mutation of another kind says nothing of interactions,                *)
LEMMA Plain == ASSUME NEW op, op # "UPDATE_TRUST_TIER", NEW args, NEW ref, NEW i
  PROVE Relates(Mutation(op, args, ref, i))
  BY DEF Relates, Mutation

(* and the generator counts interactions by name.                          *)
LEMMA RelateRelates == ASSUME NEW o, NEW entity, NEW tier, NEW ids \in Seq({"s1", "s2"})
  PROVE Relates(Relate(o, entity, tier, ids))
  BY DEF Relates, Relate, Mutation

(* Every manifest of the generator is made so.                             *)
LEMMA ManifestWellMade ==
  ASSUME NEW o, o.name \in Names
  PROVE  WellMade(Manifest(o))
<1> DEFINE e == Effective(o.name)
<1>1. CASE e \in {"L1", "L2", "I1", "L3", "L6", "L7", "L8", "L9", "L10"}
  BY <1>1, WellMadeNone, WellMadeOne, Plain DEF Manifest, Learn, Revise
<1>2. CASE e \in {"I2", "I3", "I5", "I8", "succession", "I7", "historical", "temporal"}
  BY <1>2, WellMadeOne, Plain DEF Manifest, Learn, Forget, Rewrite
<1>3. CASE e \in {"amend", "amend_alone", "amend_repeated", "amend_runtime", "weaken", "redact",
                  "redact_runtime", "reorder", "set_clock"}
  BY <1>3, WellMadeOne, Plain DEF Manifest, Amend, Redact
<1>4. CASE e \in {"L4", "I4", "meet", "meet_and_trust"}
  <2>1. /\ <<>> \in Seq({"s1", "s2"}) /\ <<"s1", "s2">> \in Seq({"s1", "s2"})
    OBVIOUS
  <2> QED  BY <1>4, <2>1, WellMadeOne, RelateRelates DEF Manifest
<1>5. CASE e = "disguised_delete"
  <2> DEFINE m == Mutation("DELETE_NORMATIVE_RULE", [rule |-> "extra"], {}, 0)
  <2>1. Relates([m EXCEPT !.target = "runtime_config"])
    BY DEF Mutation, Relates
  <2>2. Manifest(o) = <<[m EXCEPT !.target = "runtime_config"]>>
    BY <1>5 DEF Manifest
  <2> HIDE DEF m
  <2> QED  BY <2>1, <2>2, WellMadeOne
<1>6. CASE e \in {"L5", "rewrite_and_redact", "replace_last"}
  BY <1>6, WellMadeTwo, Plain DEF Manifest, Rewrite, Redact
<1>7. CASE e \in {"revise_twice", "revise_and_forget", "backdate", "learn_and_backdate"}
  BY <1>7, WellMadeNone, WellMadeOne, WellMadeTwo, Plain DEF Manifest, Learn, Revise, Forget
<1>8. e \in {"L1", "L2", "I1", "L3", "L6", "L7", "L8", "L9", "L10", "I2", "I3", "I5", "I8",
             "succession", "I7", "historical", "temporal", "amend", "amend_alone",
             "amend_repeated", "amend_runtime", "weaken", "redact", "redact_runtime", "reorder",
             "set_clock", "L4", "I4", "meet", "meet_and_trust", "disguised_delete", "L5",
             "rewrite_and_redact", "replace_last", "revise_twice", "revise_and_forget",
             "backdate", "learn_and_backdate"}
  BY DEF Effective, Names, Families, OnTheUpgrade, SingleCases, CompoundCases, Extra
<1> QED  BY <1>1, <1>2, <1>3, <1>4, <1>5, <1>6, <1>7, <1>8

(* The fields the proofs read are there, and interactions are sequences.   *)
HasFields(s) == {"epoch", "timestamp", "beliefs", "relationships", "rules"} \subseteq DOMAIN s
IdsAreSeqs(s) ==
  \A k \in DOMAIN s.relationships : \E S : s.relationships[k].ids \in Seq(S)

(* What no mutation targets stays.                                         *)
Spares(targets, old, new) ==
  /\ "beliefs" \notin targets => new.beliefs = old.beliefs
  /\ "relationships" \notin targets => new.relationships = old.relationships
  /\ "normative_rules" \notin targets => new.rules = old.rules

(* A sequence over a set is one over a larger set.                         *)
LEMMA SeqGrows == ASSUME NEW S, NEW T, NEW q \in Seq(S), S \subseteq T PROVE q \in Seq(T)
  OBVIOUS

(* Two sequences, joined.                                                  *)
LEMMA SeqJoins ==
  ASSUME NEW S, NEW T, NEW p \in Seq(S), NEW q \in Seq(T)
  PROVE  p \o q \in Seq(S \cup T)
<1>1. p \in Seq(S \cup T)
  BY SeqGrows
<1>2. q \in Seq(S \cup T)
  BY SeqGrows
<1> DEFINE U == S \cup T
<1> HIDE DEF U
<1>3. p \in Seq(U) /\ q \in Seq(U)
  BY <1>1, <1>2 DEF U
<1>4. p \o q \in Seq(U)
  BY <1>3
<1> QED  BY <1>4 DEF U

(* A mutation leaves what it does not target.                              *)
LEMMA EffectFrame ==
  ASSUME NEW pred, NEW s, NEW m, Admits(pred, s, m), HasFields(s)
  PROVE  HasFields(Effect(s, m)) /\ Spares({m.target}, s, Effect(s, m))
<1>1. m.op \in DOMAIN Targets /\ Targets[m.op] = m.target
  BY DEF Admits
<1>2. CASE m.op \in {"INSERT_KNOWLEDGE", "BACKDATE_KNOWLEDGE", "APPEND_CHRONICLE",
                     "REORDER_CHRONICLE", "REMOVE_CHRONICLE"}
  BY <1>2 DEF Effect, HasFields, Spares
<1>3. CASE m.op \in {"REWRITE_CHRONICLE",
            "DELETE_CHRONICLE_EVENT", "ANNOTATE_CORRECTION"}
  BY Zenon, <1>3 DEF Effect, HasFields, Spares, ChangeEvent
<1>4. CASE m.op \in {"EVICT_BUFFER", "INSERT_SUMMARY", "PRUNE_EXPIRED_CONTEXT",
            "UPDATE_RUNTIME_CONFIG", "REBIND_SUBSTRATE", "FORWARD_RESTORE", "SET_CLOCK",
            "CLAIM_SUCCESSION"}
  BY <1>4 DEF Effect, HasFields, Spares
<1>5. CASE m.op \in {"REVISE_BELIEF", "RETROACTIVE_BELIEF"}
  <2>1. m.target = "beliefs"
    BY <1>1, <1>5 DEF Targets
  <2>2. CASE m.op = "REVISE_BELIEF"
    BY <2>1, <2>2 DEF Effect, HasFields, Spares
  <2>3. CASE m.op = "RETROACTIVE_BELIEF"
    BY Zenon, <2>3, <2>1 DEF Effect, HasFields, Spares
  <2> QED  BY <1>5, <2>2, <2>3
<1>6. CASE m.op = "UPDATE_TRUST_TIER"
  BY <1>1, <1>6 DEF Effect, HasFields, Spares, Targets
<1>7. CASE m.op \in {"DELETE_NORMATIVE_RULE", "INSERT_NORMATIVE_RULE"}
  <2>1. m.target = "normative_rules"
    BY <1>1, <1>7 DEF Targets
  <2>2. CASE m.op = "DELETE_NORMATIVE_RULE"
    BY <2>1, <2>2 DEF Effect, HasFields, Spares
  <2>3. CASE m.op = "INSERT_NORMATIVE_RULE"
    BY <2>1, <2>3 DEF Effect, HasFields, Spares
  <2> QED  BY <1>7, <2>2, <2>3
<1> QED  BY <1>1, <1>2, <1>3, <1>4, <1>5, <1>6, <1>7 DEF Targets

(* It keeps the fields, and the interactions of an entity a sequence.      *)
LEMMA EffectTyped ==
  ASSUME NEW pred, NEW s, NEW m, Admits(pred, s, m), HasFields(s), IdsAreSeqs(s), Relates(m)
  PROVE  IdsAreSeqs(Effect(s, m))
<1>1. m.op \in DOMAIN Targets /\ Targets[m.op] = m.target
  BY DEF Admits
<1>2. CASE m.op # "UPDATE_TRUST_TIER"
  BY <1>1, <1>2, EffectFrame DEF Targets, Spares, IdsAreSeqs
<1>3. CASE m.op = "UPDATE_TRUST_TIER"
  <2> DEFINE new == UpdatedRelationship(s, m.args)
  <2>1. Effect(s, m).relationships = Put(s.relationships, m.args.entity, new)
    BY <1>3 DEF Effect, HasFields
  <2>2. \E S : new.ids \in Seq(S)
    <3>1. m.args.ids \in Seq({"s1", "s2"})
      BY <1>3 DEF Relates
    <3>2. CASE m.args.entity \in DOMAIN s.relationships
      <4>1. PICK S : s.relationships[m.args.entity].ids \in Seq(S)
        BY <3>2 DEF IdsAreSeqs
      <4>2. new.ids = s.relationships[m.args.entity].ids \o m.args.ids
        BY <3>2 DEF UpdatedRelationship
      <4> HIDE DEF new
      <4>3. s.relationships[m.args.entity].ids \o m.args.ids \in Seq(S \cup {"s1", "s2"})
        BY <3>1, <4>1, SeqJoins, Zenon
      <4>4. new.ids \in Seq(S \cup {"s1", "s2"})
        BY <4>2, <4>3, Zenon
      <4> QED  BY <4>4
    <3>3. CASE m.args.entity \notin DOMAIN s.relationships
      BY <3>3, <3>1 DEF UpdatedRelationship
    <3> QED  BY <3>2, <3>3
  <2>3. ASSUME NEW k \in DOMAIN Effect(s, m).relationships
        PROVE  Effect(s, m).relationships[k] \in {new} \/
               (k \in DOMAIN s.relationships /\ Effect(s, m).relationships[k] = s.relationships[k])
    <3> HIDE DEF new
    <3> QED BY <2>1, <2>3 DEF Put
  <2> HIDE DEF new
  <2> QED  BY <2>2, <2>3 DEF IdsAreSeqs
<1> QED  BY <1>2, <1>3

(* What the proofs keep of a state under way.                              *)
Grown(pred, t, targets) == HasFields(t) /\ IdsAreSeqs(t) /\ Spares(targets, pred, t)

(* The clock moves nothing else.                                           *)
LEMMA AdvancedGrown ==
  ASSUME NEW pred, NEW manifest, HasFields(pred), IdsAreSeqs(pred)
  PROVE  Grown(pred, Advanced(pred, manifest), {})
<1> DEFINE t == Advanced(pred, manifest)
<1>1. HasFields(t)
  BY DEF Advanced, HasFields
<1>2. /\ t.beliefs = pred.beliefs /\ t.relationships = pred.relationships
      /\ t.rules = pred.rules
  BY DEF Advanced, HasFields
<1> HIDE DEF t
<1>3. IdsAreSeqs(t)
  BY <1>2, Zenon DEF IdsAreSeqs
<1>4. Spares({}, pred, t)
  BY <1>2 DEF Spares
<1> QED  BY <1>1, <1>3, <1>4 DEF t, Grown

(* A mutation adds its own target to what may have changed.                *)
LEMMA EffectGrown ==
  ASSUME NEW pred, NEW s, NEW m, Admits(pred, s, m), Relates(m), NEW targets,
         Grown(pred, s, targets)
  PROVE  Grown(pred, Effect(s, m), targets \cup {m.target})
<1>1. /\ HasFields(Effect(s, m)) /\ IdsAreSeqs(Effect(s, m))
      /\ Spares({m.target}, s, Effect(s, m)) /\ Spares(targets, pred, s)
  BY EffectFrame, EffectTyped DEF Grown
<1>2. Spares(targets \cup {m.target}, pred, Effect(s, m))
  BY <1>1 DEF Spares
<1> QED  BY <1>1, <1>2 DEF Grown

(* However long the manifest, each round of the fold leaves what no        *)
(* mutation so far has targeted.                                           *)
LEMMA RoundsGrow ==
  ASSUME NEW pred, NEW manifest, NEW n \in Nat, NEW f, f = Round(pred, manifest, n, f),
         HasFields(pred), IdsAreSeqs(pred), \A i \in 1..n : Relates(manifest[i])
  PROVE  \A t \in f[1..n] : Grown(pred, t, {manifest[i].target : i \in 1..n})
<1> DEFINE Done(k) == {manifest[i].target : i \in 1..k}
<1> DEFINE P == {k \in Nat : k <= n => \A t \in f[1..k] : Grown(pred, t, Done(k))}
<1>1. 0 \in P
  <2>1. f[1..0] = {Advanced(pred, manifest)}
    BY DEF Round
  <2>2. Done(0) = {}
    OBVIOUS
  <2> QED  BY <2>1, <2>2, AdvancedGrown
<1>2. ASSUME NEW k \in P PROVE k + 1 \in P
  <2>0. k \in Nat
    BY <1>2
  <2>1. SUFFICES ASSUME k + 1 <= n, NEW t \in f[1..(k + 1)]
                 PROVE  Grown(pred, t, Done(k + 1))
    BY <2>0
  <2> DEFINE m == manifest[k + 1]
  <2>2. /\ 1..(k + 1) \in SUBSET (1..n) /\ 1..(k + 1) # {} /\ k + 1 \in 1..(k + 1)
        /\ (1..(k + 1)) \ {k + 1} = 1..k
    BY <2>0, <2>1
  <2>3. Max(1..(k + 1)) = k + 1
    BY <2>0, <2>2, GreatestIsLast
  <2>4. f[1..(k + 1)] = Admitted(pred, f[1..k], m)
    <3> DEFINE whole == 1..(k + 1)
    <3>1. f[whole] = Admitted(pred, f[whole \ {Max(whole)}], manifest[Max(whole)])
      <4> HIDE DEF whole
      <4>1. whole \in SUBSET (1..n) /\ whole # {}
        BY <2>2 DEF whole
      <4> QED  BY <4>1 DEF Round
    <3> QED  BY <2>2, <2>3, <3>1
  <2>5. PICK s \in f[1..k] : Admits(pred, s, m) /\ t = Effect(s, m)
    BY <2>1, <2>4 DEF Admitted
  <2>6. Grown(pred, s, Done(k)) /\ Relates(m)
    BY <1>2, <2>0, <2>1, <2>5
  <2>7. Done(k + 1) = Done(k) \cup {m.target}
    BY <2>0
  <2> HIDE DEF Done, m
  <2> QED  BY <2>5, <2>6, <2>7, EffectGrown
<1> HIDE DEF P
<1>3. P = Nat
  BY <1>1, <1>2, SetInduction DEF P
<1> QED  BY <1>3 DEF P

(* So the successor differs from the predecessor only where the manifest   *)
(* says, apart from the clock.                                             *)
LEMMA ApplyGrows ==
  ASSUME NEW pred, NEW manifest, WellMade(manifest), HasFields(pred), IdsAreSeqs(pred),
         NEW c \in Apply(pred, manifest)
  PROVE  Grown(pred, c, {manifest[i].target : i \in DOMAIN manifest})
<1>1. PICK n \in 0..2 : DOMAIN manifest = 1..n /\ \A i \in 1..n : Relates(manifest[i])
  BY DEF WellMade
<1>2. Identified(manifest)
  BY Zenon DEF Apply
<1> DEFINE f == CHOOSE iter : iter = Round(pred, manifest, n, iter)
<1>3. Apply(pred, manifest) = f[1..n]
  BY <1>1, <1>2, ApplyIsRound
<1>4. f = Round(pred, manifest, n, f)
  BY <1>1, RoundExists
<1> HIDE DEF f
<1>5. \A t \in f[1..n] : Grown(pred, t, {manifest[i].target : i \in 1..n})
  <2>1. n \in Nat
    OBVIOUS
  <2> QED  BY <1>1, <1>4, <2>1, RoundsGrow, Zenon
<1> QED  BY <1>1, <1>3, <1>5, Zenon

------------------------------------------------------------------------------
(* An option of one value holds that value.                                *)
LEMMA TheOnly == ASSUME NEW x PROVE The({x}) = x
  BY DEF The

(* What passed, failed no check and was not left unknown.                  *)
Passed(status) == status \notin {"FAIL", "UNKNOWN"}

(* Nothing else is in the conditions of a VALID verdict.                   *)
LEMMA ValidMeansPassed ==
  ASSUME NEW pred, NEW witness, NEW candidate, NEW policy, NEW context,
         Verdict(pred, witness, candidate, policy, context) = "VALID"
  PROVE  \A c \in Conditions(pred, witness, candidate, policy, context) : Passed(c)
  BY DEF Verdict, Passed

(* Each native semantic check the policy asks for is such a condition,     *)
LEMMA NativePassed ==
  ASSUME NEW pred, NEW witness, NEW candidate, NEW policy, NEW context,
         Verdict(pred, witness, candidate, policy, context) = "VALID",
         NEW name \in Semantics, name \in policy.requires, name \notin policy.attested
  PROVE  Passed(NativeCheck(name, pred, {w.proposal : w \in witness}, candidate, policy, context))
<1>1. NativeCheck(name, pred, {w.proposal : w \in witness}, candidate, policy, context)
        \in Conditions(pred, witness, candidate, policy, context)
  BY DEF Conditions
<1> QED  BY <1>1, ValidMeansPassed

(* as are authority, provenance and the application of the manifest.       *)
LEMMA OthersPassed ==
  ASSUME NEW pred, NEW witness, NEW candidate, NEW policy, NEW context,
         Verdict(pred, witness, candidate, policy, context) = "VALID",
         {"I_auth", "I_prov", "state_application"} \subseteq policy.requires
  PROVE  LET proposal == {w.proposal : w \in witness} IN
         /\ Passed(CheckAuthority(proposal, pred, policy, context))
         /\ Passed(CheckProvenance(proposal, context))
         /\ Passed(StateApplication(pred, proposal, candidate))
<1> DEFINE proposal == {w.proposal : w \in witness}
<1> DEFINE all == Conditions(pred, witness, candidate, policy, context)
<1>1. CheckAuthority(proposal, pred, policy, context) \in all
  BY DEF Conditions
<1>2. CheckProvenance(proposal, context) \in all
  BY DEF Conditions
<1>3. StateApplication(pred, proposal, candidate) \in all
  BY DEF Conditions
<1> HIDE DEF proposal, all
<1>4. /\ Passed(CheckAuthority(proposal, pred, policy, context))
      /\ Passed(CheckProvenance(proposal, context))
      /\ Passed(StateApplication(pred, proposal, candidate))
  BY <1>1, <1>2, <1>3, ValidMeansPassed, Zenon DEF all
<1> QED  BY <1>4 DEF proposal

(* And the binding of the proposal to its predecessor.                     *)
LEMMA LineagePassed ==
  ASSUME NEW pred, NEW w, NEW candidate, NEW policy, NEW context,
         Verdict(pred, {w}, candidate, policy, context) = "VALID",
         "I_lin" \in policy.requires
  PROVE  w.proposal.predecessor = StateDigest(pred)
<1> DEFINE lineage == LineageConditions(pred, candidate, {w}, policy, context)
<1>1. Range(lineage) \subseteq Conditions(pred, {w}, candidate, policy, context)
  BY DEF Conditions
<1>2. /\ "lineage_binding" \in DOMAIN lineage
      /\ lineage["lineage_binding"] = Or(w.proposal.predecessor = StateDigest(pred), "FAIL")
  BY TheOnly DEF LineageConditions
<1>3. lineage["lineage_binding"] \in Range(lineage)
  BY <1>2 DEF Range
<1>4. Passed(lineage["lineage_binding"])
  BY <1>1, <1>3, ValidMeansPassed
<1> QED  BY <1>2, <1>4 DEF Or, Passed

(* A combination passes when all its parts do.                             *)
LEMMA CombinePassed ==
  ASSUME NEW statuses, Passed(Combine(statuses))
  PROVE  \A c \in statuses : Passed(c)
  BY DEF Combine, Passed

(* A condition that passed holds.                                          *)
LEMMA OrPassed ==
  ASSUME NEW condition, NEW otherwise \in {"FAIL", "UNKNOWN"}, Passed(Or(condition, otherwise))
  PROVE  condition
  BY DEF Or, Passed

------------------------------------------------------------------------------
(* An offer as the generator makes it.                                     *)
Made(o) ==
  /\ o.name \in Names
  /\ o.manifest = Manifest([name |-> o.name, base |-> o.base])

(* The policies offers are judged by leave all checks in place; only in    *)
(* cases whose manifest leaves beliefs alone is that of beliefs attested.  *)
LEMMA PolicyInForce ==
  ASSUME NEW o
  PROVE  /\ {"I_lin", "I_auth", "I_prov", "state_application"} \cup Semantics
              \subseteq PolicyOf(o).requires
         /\ {"I_norm", "I_rel", "I_hist"} \cap PolicyOf(o).attested = {}
         /\ PolicyOf(o).trustThreshold = 2 /\ PolicyOf(o).normativeThreshold = 2
  BY DEF PolicyOf, DefaultPolicy, Semantics

(* The cases with attested beliefs only configure, or claim succession.    *)
LEMMA AttestedSparesBeliefs ==
  ASSUME NEW o, Made(o), "I_bel" \in PolicyOf(o).attested
  PROVE  \A i \in DOMAIN o.manifest : o.manifest[i].target # "beliefs"
<1> DEFINE r == [name |-> o.name, base |-> o.base]
<1>1. o.name \in {"D4", "attestation_conflict", "attestation_missing", "attestation_binding",
                  "attestation_pass", "attestation_stale"}
  BY DEF PolicyOf, DefaultPolicy
<1>2. Effective(r.name) \in {"L8", "succession"}
  BY <1>1 DEF Effective, OnTheUpgrade
<1>3. CASE Effective(r.name) = "L8"
  <2> DEFINE m == Mutation("UPDATE_RUNTIME_CONFIG", [adapter |-> Uri(r)], {}, 0)
  <2>1. Manifest(r) = <<m>>
    BY Zenon, <1>3 DEF Manifest
  <2>2. m.target # "beliefs"
    BY DEF Mutation, Targets
  <2> HIDE DEF m
  <2> QED  BY <2>1, <2>2 DEF Made
<1>4. CASE Effective(r.name) = "succession"
  <2> DEFINE m == Mutation("CLAIM_SUCCESSION", <<>>, {}, 0)
  <2>1. Manifest(r) = <<m>>
    BY Zenon, <1>4 DEF Manifest
  <2>2. m.target # "beliefs"
    BY DEF Mutation, Targets
  <2> HIDE DEF m
  <2> QED  BY <2>1, <2>2 DEF Made
<1> QED  BY <1>2, <1>3, <1>4

------------------------------------------------------------------------------
(* What a VALID verdict says of the offer.                                 *)
LEMMA CommitPassed ==
  ASSUME NEW s, NEW o, VerdictFrom(s, o) = "VALID"
  PROVE  LET Native(n) == NativeCheck(n, s, {ProposalOf(o)}, CandidateOf(o), PolicyOf(o),
                                      ContextAt(s)) IN
         /\ Passed(Native("I_hist")) /\ Passed(Native("I_norm")) /\ Passed(Native("I_rel"))
         /\ "I_bel" \notin PolicyOf(o).attested => Passed(Native("I_bel"))
         /\ Passed(CheckAuthority({ProposalOf(o)}, s, PolicyOf(o), ContextAt(s)))
         /\ Passed(CheckProvenance({ProposalOf(o)}, ContextAt(s)))
         /\ Passed(StateApplication(s, {ProposalOf(o)}, CandidateOf(o)))
<1> DEFINE proposal == {w.proposal : w \in {WitnessOf(o)}}
<1>1. proposal = {ProposalOf(o)}
  BY DEF WitnessOf
<1>2. Verdict(s, {WitnessOf(o)}, CandidateOf(o), PolicyOf(o), ContextAt(s)) = "VALID"
  BY DEF VerdictFrom
<1>3. \A n \in Semantics : n \notin PolicyOf(o).attested =>
        Passed(NativeCheck(n, s, proposal, CandidateOf(o), PolicyOf(o), ContextAt(s)))
  BY <1>2, PolicyInForce, NativePassed
<1>4. {"I_hist", "I_norm", "I_rel", "I_bel"} \subseteq Semantics
      /\ {"I_norm", "I_rel", "I_hist"} \cap PolicyOf(o).attested = {}
  BY PolicyInForce DEF Semantics
<1>5. /\ Passed(CheckAuthority(proposal, s, PolicyOf(o), ContextAt(s)))
      /\ Passed(CheckProvenance(proposal, ContextAt(s)))
      /\ Passed(StateApplication(s, proposal, CandidateOf(o)))
  BY <1>2, PolicyInForce, OthersPassed
<1> HIDE DEF proposal
<1> QED  BY <1>1, <1>3, <1>4, <1>5

(* A committed offer was made for the state it was committed on.           *)
LEMMA CommittedOnItsBase ==
  ASSUME NEW s, NEW o, VerdictFrom(s, o) = "VALID"
  PROVE  o.base = s
<1>1. WitnessOf(o).proposal.predecessor = StateDigest(s)
  BY PolicyInForce, LineagePassed DEF VerdictFrom
<1>2. WitnessOf(o).proposal.predecessor = ProposalOf(o).predecessor
  BY DEF WitnessOf
<1>3. ProposalOf(o).predecessor \in {Digest("OTHER", "stale"), StateDigest(o.base)}
  BY DEF ProposalOf
<1> QED  BY <1>1, <1>2, <1>3 DEF StateDigest, Digest

(* Its candidate is what its manifest makes of the state.                  *)
LEMMA CommitGrows ==
  ASSUME NEW s, NEW o, VerdictFrom(s, o) = "VALID", Made(o), HasFields(s), IdsAreSeqs(s)
  PROVE  Grown(s, CandidateOf(o), {o.manifest[i].target : i \in DOMAIN o.manifest})
<1>1. WellMade(o.manifest)
  BY Zenon, ManifestWellMade DEF Made
<1>2. ProposalOf(o).manifest = o.manifest
  BY DEF ProposalOf
<1>3. Passed(StateApplication(s, {ProposalOf(o)}, CandidateOf(o)))
  BY CommitPassed
<1>4. The({ProposalOf(o)}) = ProposalOf(o)
  BY TheOnly
<1>5. Apply(s, o.manifest) = {CandidateOf(o)}
  BY <1>2, <1>3, <1>4 DEF StateApplication, Or, Passed
<1> QED  BY <1>1, <1>5, ApplyGrows

------------------------------------------------------------------------------
(* What an event is called leads to it.                                    *)
LEMMA RecordedThere ==
  ASSUME NEW s, NEW id \in ToSet(EventIds(s))
  PROVE  Recorded(s, id) \in ToSet(s.chronicle) /\ Recorded(s, id).id = id
<1>1. \E e \in ToSet(s.chronicle) : e.id = id
  BY DEF EventIds, ToSet
<1> QED  BY <1>1 DEF Recorded, The

(* No two events of a chronicle without repetition share a name.           *)
LEMMA NamedOnce ==
  ASSUME NEW s, IsInjective(EventIds(s)), NEW e \in ToSet(s.chronicle),
         NEW d \in ToSet(s.chronicle), e.id = d.id
  PROVE  e = d
<1>1. PICK i \in DOMAIN s.chronicle : e = s.chronicle[i]
  BY DEF ToSet
<1>2. PICK j \in DOMAIN s.chronicle : d = s.chronicle[j]
  BY DEF ToSet
<1>3. EventIds(s)[i] = EventIds(s)[j] /\ i \in DOMAIN EventIds(s) /\ j \in DOMAIN EventIds(s)
  BY <1>1, <1>2 DEF EventIds
<1>4. i = j
  BY <1>3 DEF IsInjective
<1> QED  BY <1>1, <1>2, <1>4

(* Every event has its name among those of the chronicle.                  *)
LEMMA EventNamed ==
  ASSUME NEW s, NEW e \in ToSet(s.chronicle)
  PROVE  e.id \in ToSet(EventIds(s))
  BY DEF EventIds, ToSet

(* A commit keeps every event, and a tombstone exactly as it is.           *)
LEMMA CommitKeepsEvents ==
  ASSUME NEW s, NEW o, VerdictFrom(s, o) = "VALID"
  PROVE  /\ EventsKept(s, CandidateOf(o))
         /\ \A e \in ToSet(s.chronicle) : e.tombstone => Recorded(CandidateOf(o), e.id) = e
<1> DEFINE c == CandidateOf(o)
<1> DEFINE New(old) == CHOOSE e \in ToSet(c.chronicle) : e.id = old.id
<1> DEFINE Status(old) ==
      OldEventStatus(old, New(old), s, c, {ProposalOf(o)}, PolicyOf(o), ContextAt(s))
<1>1. Passed(CheckHistoricalChronicle(s, c, {ProposalOf(o)}, PolicyOf(o), ContextAt(s)))
  BY CommitPassed DEF NativeCheck
<1>2. IsInjective(EventIds(c)) /\ InOrder(EventIds(s), EventIds(c))
  BY <1>1 DEF CheckHistoricalChronicle, Passed
<1>3. \A old \in ToSet(s.chronicle) : Passed(Status(old))
  <2> DEFINE fresh == {NewEventStatus(e, ContextAt(s)) :
                e \in {n \in ToSet(c.chronicle) : n.id \notin ToSet(EventIds(s))}}
  <2> DEFINE all == {Status(old) : old \in ToSet(s.chronicle)} \cup fresh
  <2>1. Passed(Combine(all))
    BY <1>1, <1>2, Zenon DEF CheckHistoricalChronicle
  <2>2. \A x \in all : Passed(x)
    <3> HIDE DEF all
    <3> QED  BY <2>1, CombinePassed
  <2> HIDE DEF Status, fresh
  <2> QED  BY <2>2
<1> HIDE DEF c
<1>4. ASSUME NEW e \in ToSet(s.chronicle)
      PROVE  New(e) = Recorded(c, e.id)
  <2>1. e.id \in ToSet(EventIds(c))
    BY <1>2, EventNamed DEF InOrder
  <2>2. Recorded(c, e.id) \in ToSet(c.chronicle) /\ Recorded(c, e.id).id = e.id
    BY <2>1, RecordedThere
  <2>3. New(e) \in ToSet(c.chronicle) /\ New(e).id = e.id
    BY <2>2
  <2> HIDE DEF New
  <2> QED  BY <1>2, <2>2, <2>3, NamedOnce
<1> HIDE DEF New
<1>5. ASSUME NEW e \in ToSet(s.chronicle), NEW now, now = Recorded(c, e.id)
      PROVE  /\ IF now.tombstone /\ ~e.tombstone THEN now.original = {EventCommitment(e)}
                ELSE (now.tombstone <=> e.tombstone) /\ EventCommitment(now) = EventCommitment(e)
             /\ Continues(e.annotations, now.annotations)
             /\ e.tombstone => now = e
  <2>1. Passed(OldEventStatus(e, now, s, c, {ProposalOf(o)}, PolicyOf(o), ContextAt(s)))
    BY <1>3, <1>4, <1>5
  <2>2. now.tombstone /\ ~e.tombstone =>
          Passed(TombstoneStatus(e, now, s, c, {ProposalOf(o)}, PolicyOf(o), ContextAt(s)))
    BY <2>1 DEF OldEventStatus, Passed, Or
  <2>3. now.tombstone /\ ~e.tombstone => now.original = {EventCommitment(e)}
    BY <2>2 DEF TombstoneStatus, Passed
  <2>4. Continues(e.annotations, now.annotations)
    BY <2>1 DEF OldEventStatus, Passed
  <2>5. e.tombstone => now = e
    BY <2>1 DEF OldEventStatus, Passed, Or
  <2>6. ~now.tombstone /\ ~e.tombstone => EventCommitment(now) = EventCommitment(e)
    BY <2>1 DEF OldEventStatus, Passed, Or
  <2> QED  BY <2>3, <2>4, <2>5, <2>6, Zenon
<1> QED  BY <1>2, <1>5 DEF EventsKept, c

------------------------------------------------------------------------------
(* A step keeps every belief, and every entry of its history.              *)
BeliefsCarried(old, new) ==
  \A k \in DOMAIN old.beliefs :
    /\ k \in DOMAIN new.beliefs
    /\ new.beliefs[k].established = old.beliefs[k].established
    /\ ToSet(old.beliefs[k].history) \subseteq ToSet(new.beliefs[k].history)
    /\ BeliefSnapshot(old.beliefs[k]) \in
         ToSet(new.beliefs[k].history) \cup {BeliefSnapshot(new.beliefs[k])}

(* What is committed carries them, attested or checked natively.           *)
LEMMA CommitCarriesBeliefs ==
  ASSUME NEW s, NEW o, VerdictFrom(s, o) = "VALID", Made(o), HasFields(s), IdsAreSeqs(s)
  PROVE  BeliefsCarried(s, CandidateOf(o))
<1> DEFINE c == CandidateOf(o)
<1>1. CASE "I_bel" \in PolicyOf(o).attested
  <2>1. "beliefs" \notin {o.manifest[i].target : i \in DOMAIN o.manifest}
    BY <1>1, AttestedSparesBeliefs
  <2>2. c.beliefs = s.beliefs
    BY <2>1, CommitGrows DEF Grown, Spares
  <2> HIDE DEF c
  <2> QED  BY <2>2 DEF BeliefsCarried, c
<1>2. CASE "I_bel" \notin PolicyOf(o).attested
  <2>1. Passed(CheckBeliefCoherence(s, c, {ProposalOf(o)}, ContextAt(s)))
    BY <1>2, CommitPassed DEF NativeCheck
  <2>2. \A k \in DOMAIN s.beliefs : PriorBeliefKept(s.beliefs[k], Lookup(c.beliefs, k))
    BY <2>1 DEF CheckBeliefCoherence, Passed
  <2> HIDE DEF c
  <2>3. ASSUME NEW k \in DOMAIN s.beliefs, NEW old, old = s.beliefs[k],
               NEW new, new = c.beliefs[k]
        PROVE  /\ k \in DOMAIN c.beliefs
               /\ new.established = old.established
               /\ ToSet(old.history) \subseteq ToSet(new.history)
               /\ BeliefSnapshot(old) \in ToSet(new.history) \cup {BeliefSnapshot(new)}
    <3>1. k \in DOMAIN c.beliefs /\ Lookup(c.beliefs, k) = {new}
      BY <2>2, <2>3 DEF PriorBeliefKept, Lookup
    <3>2. The(Lookup(c.beliefs, k)) = new
      BY <3>1, TheOnly
    <3>3. /\ new.established = old.established /\ Continues(old.history, new.history)
          /\ new # old => \E i \in DOMAIN new.history : new.history[i] = BeliefSnapshot(old)
      BY <2>2, <2>3, <3>2 DEF PriorBeliefKept
    <3>4. ToSet(old.history) \subseteq ToSet(new.history)
      BY <3>3 DEF Continues, ToSet
    <3>5. BeliefSnapshot(old) \in ToSet(new.history) \cup {BeliefSnapshot(new)}
      BY <3>3 DEF ToSet
    <3> QED  BY <3>1, <3>3, <3>4, <3>5
  <2> QED  BY <2>3 DEF BeliefsCarried, c
<1> QED  BY <1>1, <1>2

(* Order is kept from step to step.                                        *)
LEMMA OrderCarried ==
  ASSUME NEW a, NEW b, NEW c, InOrder(a, b), InOrder(b, c)
  PROVE  InOrder(a, c)
<1>1. ToSet(a) \subseteq ToSet(c)
  BY DEF InOrder
<1>2. ASSUME NEW i \in DOMAIN a, NEW j \in DOMAIN a, i < j
      PROVE  \E x, y \in DOMAIN c : x < y /\ c[x] = a[i] /\ c[y] = a[j]
  <2>1. PICK x, y \in DOMAIN b : x < y /\ b[x] = a[i] /\ b[y] = a[j]
    BY <1>2 DEF InOrder
  <2> QED  BY <2>1 DEF InOrder
<1> QED  BY <1>1, <1>2 DEF InOrder

(* What a past state is kept by, a step from it keeps: for a buried event  *)
(* the step has to leave what it is buried under alone.                    *)
LEMMA EventsKeptOn ==
  ASSUME NEW a, NEW b, NEW c, EventsKept(a, b), EventsKept(b, c),
         \A e \in ToSet(b.chronicle) : e.tombstone => Recorded(c, e.id) = e
  PROVE  EventsKept(a, c)
<1>1. InOrder(EventIds(a), EventIds(c))
  BY OrderCarried DEF EventsKept
<1>2. ASSUME NEW e \in ToSet(a.chronicle), NEW d, d = Recorded(b, e.id),
             NEW now, now = Recorded(c, e.id)
      PROVE  /\ IF now.tombstone /\ ~e.tombstone THEN now.original = {EventCommitment(e)}
                ELSE (now.tombstone <=> e.tombstone) /\ EventCommitment(now) = EventCommitment(e)
             /\ Continues(e.annotations, now.annotations)
  <2>1. e.id \in ToSet(EventIds(b))
    BY EventNamed DEF EventsKept, InOrder
  <2>2. d \in ToSet(b.chronicle) /\ d.id = e.id
    BY <1>2, <2>1, RecordedThere
  <2>3. now = Recorded(c, d.id)
    BY <1>2, <2>2
  <2>4. /\ IF d.tombstone /\ ~e.tombstone THEN d.original = {EventCommitment(e)}
           ELSE (d.tombstone <=> e.tombstone) /\ EventCommitment(d) = EventCommitment(e)
        /\ Continues(e.annotations, d.annotations)
    BY <1>2, Zenon DEF EventsKept
  <2>5. /\ IF now.tombstone /\ ~d.tombstone THEN now.original = {EventCommitment(d)}
           ELSE (now.tombstone <=> d.tombstone) /\ EventCommitment(now) = EventCommitment(d)
        /\ Continues(d.annotations, now.annotations)
    BY <2>2, <2>3, Zenon DEF EventsKept
  <2>6. d.tombstone => now = d
    BY <2>2, <2>3
  <2>7. Continues(e.annotations, now.annotations)
    BY <2>4, <2>5 DEF Continues
  <2> QED  BY <2>4, <2>5, <2>6, <2>7, Zenon
<1> QED  BY <1>1, <1>2 DEF EventsKept

(* The same for beliefs.                                                   *)
LEMMA BeliefsKeptOn ==
  ASSUME NEW a, NEW b, NEW c, BeliefsKept(a, b), BeliefsCarried(b, c)
  PROVE  BeliefsKept(a, c)
<1>1. ASSUME NEW k \in DOMAIN a.beliefs
      PROVE  /\ k \in DOMAIN c.beliefs
             /\ c.beliefs[k].established = a.beliefs[k].established
             /\ BeliefSnapshot(a.beliefs[k]) \in
                  ToSet(c.beliefs[k].history) \cup {BeliefSnapshot(c.beliefs[k])}
  BY DEF BeliefsKept, BeliefsCarried
<1> QED  BY <1>1 DEF BeliefsKept

------------------------------------------------------------------------------
(* The log and what is pending are sequences; the state has its fields,    *)
(* and what is pending is as the generator makes it.                       *)
LogIsSequence == \E S : log \in Seq(S)
LifeInv ==
  /\ LogIsSequence /\ HasFields(state) /\ IdsAreSeqs(state)
  /\ (\E S : pending \in Seq(S)) /\ \A i \in DOMAIN pending : Made(pending[i])

(* It holds of the genesis state,                                          *)
LEMMA LifeInit == ASSUME Init PROVE LifeInv
<1>1. log \in Seq({}) /\ pending \in Seq({}) /\ DOMAIN pending = {}
  BY DEF Init
<1>2. HasFields(Genesis)
  BY DEF Genesis, HasFields
<1>3. IdsAreSeqs(Genesis)
  <2>1. /\ DOMAIN Genesis.relationships = {"collaborator", "stranger"}
        /\ Genesis.relationships["collaborator"].ids = <<"c1", "c2">>
        /\ Genesis.relationships["stranger"].ids = <<>>
    BY DEF Genesis
  <2>2. <<"c1", "c2">> \in Seq({"c1", "c2"}) /\ <<>> \in Seq({})
    OBVIOUS
  <2> QED  BY <2>1, <2>2 DEF IdsAreSeqs
<1> QED  BY <1>1, <1>2, <1>3 DEF Init, LifeInv, LogIsSequence

(* Whatever the loop does, either the state and the log stay or one offer  *)
(* was found VALID from the state and is now the log's last.               *)
LEMMA StepShape ==
  ASSUME LifeInv, [Next]_vars
  PROVE  \/ UNCHANGED <<state, log>>
         \/ \E o : /\ VerdictFrom(state, o) = "VALID" /\ Made(o)
                   /\ state' = CandidateOf(o) /\ log' = Append(log, o)
<1>1. ASSUME NEW i \in DOMAIN pending, Judge(i)
      PROVE  \/ UNCHANGED <<state, log>>
             \/ \E o : /\ VerdictFrom(state, o) = "VALID" /\ Made(o)
                       /\ state' = CandidateOf(o) /\ log' = Append(log, o)
  BY <1>1 DEF Judge, LifeInv
<1> QED
  BY <1>1 DEF Next, Propose, Archive, Revoke, LoseKeyHistory, LoseEvidence, vars

(* The second part of a joined sequence is the second sequence.            *)
LEMMA JoinedAt ==
  ASSUME NEW S, NEW a \in Seq(S), NEW b \in Seq(S),
         NEW n \in 1..(Len(a) + Len(b)), n > Len(a)
  PROVE  (a \o b)[n] = b[n - Len(a)]
  OBVIOUS

(* What is removed leaves the others, and only them.                       *)
LEMMA RemovalKeeps ==
  ASSUME NEW S, NEW q \in Seq(S), NEW i \in DOMAIN q
  PROVE  \A j \in DOMAIN RemoveAt(q, i) :
           \E k \in DOMAIN q : k # i /\ RemoveAt(q, i)[j] = q[k]
<1> DEFINE front == SubSeq(q, 1, i - 1)
<1> DEFINE back == SubSeq(q, i + 1, Len(q))
<1>1. /\ front \in Seq(S) /\ Len(front) = i - 1 /\ Len(q) \in Nat
      /\ \A n \in 1..(i - 1) : front[n] = q[n]
      /\ i \in 1..Len(q) /\ DOMAIN q = 1..Len(q)
  OBVIOUS
<1>2. /\ back \in Seq(S) /\ Len(back) = Len(q) - i
      /\ \A n \in 1..(Len(q) - i) : back[n] = q[i + n]
  OBVIOUS
<1> HIDE DEF front, back
<1>3. ASSUME NEW j \in DOMAIN (front \o back)
      PROVE  \E k \in 1..Len(q) : k # i /\ (front \o back)[j] = q[k]
  <2>1. j \in 1..(Len(front) + Len(back))
    BY <1>1, <1>2
  <2>2. CASE j <= i - 1
    <3>1. (front \o back)[j] = front[j] /\ j \in 1..(i - 1) /\ j \in 1..Len(q) /\ j # i
      BY <1>1, <1>2, <2>1, <2>2
    <3> QED  BY <1>1, <3>1
  <2>3. CASE ~(j <= i - 1)
    <3>1. j - (i - 1) \in 1..(Len(q) - i) /\ j > Len(front) /\ Len(front) = i - 1
      BY <1>1, <1>2, <2>1, <2>3
    <3>2. front \in Seq(S) /\ back \in Seq(S)
      BY <1>1, <1>2
    <3>3. (front \o back)[j] = back[j - Len(front)]
      BY <2>1, <3>1, <3>2, JoinedAt
    <3>4. /\ (front \o back)[j] = back[j - (i - 1)]
          /\ j - (i - 1) \in 1..(Len(q) - i)
      BY <3>1, <3>3
    <3>5. PICK x \in 1..(Len(q) - i) : (front \o back)[j] = back[x]
      BY <3>4
    <3>6. i + x \in 1..Len(q) /\ i + x # i
      BY <1>1
    <3> QED  BY <1>2, <3>5, <3>6
  <2> QED  BY <2>2, <2>3
<1>4. RemoveAt(q, i) = front \o back
  BY DEF RemoveAt, front, back
<1> QED  BY <1>1, <1>3, <1>4

(* stays true of what is pending,                                          *)
LEMMA PendingStays ==
  ASSUME LifeInv, [Next]_vars
  PROVE  (\E S : pending' \in Seq(S)) /\ \A i \in DOMAIN pending' : Made(pending'[i])
<1>1. PICK S : pending \in Seq(S)
  BY DEF LifeInv
<1>2. \A i \in DOMAIN pending : Made(pending[i])
  BY DEF LifeInv
<1>3. ASSUME NEW name \in Names, Propose(name)
      PROVE  (\E T : pending' \in Seq(T)) /\ \A i \in DOMAIN pending' : Made(pending'[i])
  <2>1. PICK o \in OfferOf(name, state) : pending' = Append(pending, o)
    BY <1>3 DEF Propose
  <2>2. Made(o)
    BY <2>1 DEF OfferOf, Made
  <2>3. pending' \in Seq(S \cup {o})
    BY <1>1, <2>1
  <2>4. \A i \in DOMAIN pending' : \/ i \in DOMAIN pending /\ pending'[i] = pending[i]
                                   \/ pending'[i] = o
    BY <1>1, <2>1
  <2> QED  BY <1>2, <2>2, <2>3, <2>4
<1>4. ASSUME NEW i \in DOMAIN pending, Judge(i)
      PROVE  (\E T : pending' \in Seq(T)) /\ \A j \in DOMAIN pending' : Made(pending'[j])
  <2>1. pending' = SubSeq(pending, 1, i - 1) \o SubSeq(pending, i + 1, Len(pending))
    BY <1>4 DEF Judge, RemoveAt
  <2>2. pending' \in Seq(S)
    BY <1>1, <2>1
  <2>3. \A j \in DOMAIN pending' : \E k \in DOMAIN pending : pending'[j] = pending[k]
    BY <1>1, <1>4, RemovalKeeps DEF Judge
  <2> QED  BY <1>2, <2>2, <2>3
<1>5. CASE UNCHANGED pending
  BY <1>1, <1>2, <1>5
<1> QED
  BY <1>3, <1>4, <1>5 DEF Next, Archive, Revoke, LoseKeyHistory, LoseEvidence, vars

(* and of the state and the log.                                           *)
LEMMA LifeStep ==
  ASSUME LifeInv, [Next]_vars
  PROVE  LifeInv'
<1>1. (\E S : pending' \in Seq(S)) /\ \A i \in DOMAIN pending' : Made(pending'[i])
  BY PendingStays
<1>2. LogIsSequence' /\ HasFields(state') /\ IdsAreSeqs(state')
  <2>1. CASE UNCHANGED <<state, log>>
    BY <2>1 DEF LifeInv, LogIsSequence
  <2>2. ASSUME NEW o, VerdictFrom(state, o) = "VALID", Made(o), state' = CandidateOf(o),
               log' = Append(log, o)
        PROVE  LogIsSequence' /\ HasFields(state') /\ IdsAreSeqs(state')
    <3>1. PICK S : log \in Seq(S)
      BY DEF LifeInv, LogIsSequence
    <3>2. log' \in Seq(S \cup {o})
      BY <2>2, <3>1
    <3>3. HasFields(CandidateOf(o)) /\ IdsAreSeqs(CandidateOf(o))
      BY <2>2, CommitGrows DEF LifeInv, Grown
    <3> QED  BY <2>2, <3>2, <3>3 DEF LogIsSequence
  <2> QED  BY <2>1, <2>2, StepShape
<1> QED  BY <1>1, <1>2 DEF LifeInv, Made

------------------------------------------------------------------------------
(* A commit adds one state to the life and leaves the others.              *)
LEMMA PastStays ==
  ASSUME NEW S, log \in Seq(S), NEW o, log' = Append(log, o), o.base = state,
         NEW n, n = Len(log)
  PROVE  /\ Moments' = Moments \cup {n + 2} /\ Moments = 1..(n + 1) /\ n \in Nat
         /\ \A i \in Moments : StateAt(i)' = StateAt(i)
         /\ StateAt(n + 1) = state /\ StateAt(n + 2)' = state'
<1>1. /\ Len(log') = n + 1 /\ n \in Nat
      /\ \A j \in 1..n : log'[j] = log[j]
      /\ log'[n + 1] = o
  OBVIOUS
<1>2. Moments = 1..(n + 1) /\ Moments' = 1..(n + 2)
  BY <1>1 DEF Moments
<1>3. Moments' = Moments \cup {n + 2}
  BY <1>1, <1>2
<1>4. ASSUME NEW i \in Moments PROVE StateAt(i)' = StateAt(i)
  <2>1. CASE i \in 1..n
    BY <1>1, <2>1 DEF StateAt
  <2>2. CASE i = n + 1
    BY <1>1, <2>2 DEF StateAt
  <2> QED  BY <1>1, <1>2, <2>1, <2>2
<1>5. StateAt(n + 1) = state /\ StateAt(n + 2)' = state'
  BY <1>1 DEF StateAt
<1> QED  BY <1>1, <1>2, <1>3, <1>4, <1>5

(* However transitions of several kinds follow each other, and whatever    *)
(* becomes of keys and evidence, no committed state rewrites the past of   *)
(* another.                                                                *)
THEOREM PastStands == Spec => []PastIsKept
<1>1. Init => LifeInv /\ PastIsKept
  <2>1. Init => PastIsKept
    <3>1. ASSUME Init PROVE Moments = {1}
      BY <3>1 DEF Init, Moments
    <3> QED  BY <3>1 DEF PastIsKept
  <2> QED  BY <2>1, LifeInit
<1>2. LifeInv /\ PastIsKept /\ [Next]_vars => LifeInv' /\ PastIsKept'
  <2> SUFFICES ASSUME LifeInv, PastIsKept, [Next]_vars PROVE LifeInv' /\ PastIsKept'
    OBVIOUS
  <2>1. CASE UNCHANGED <<state, log>>
    BY <2>1, LifeStep DEF PastIsKept, Moments, StateAt
  <2>2. ASSUME NEW o, VerdictFrom(state, o) = "VALID", Made(o), state' = CandidateOf(o),
               log' = Append(log, o)
        PROVE  PastIsKept'
    <3>1. PICK S : log \in Seq(S)
      BY DEF LifeInv, LogIsSequence
    <3>2. o.base = state
      BY <2>2, CommittedOnItsBase
    <3> PICK n : n = Len(log)
      OBVIOUS
    <3>3. /\ Moments' = Moments \cup {n + 2} /\ Moments = 1..(n + 1) /\ n \in Nat
          /\ \A i \in Moments : StateAt(i)' = StateAt(i)
          /\ StateAt(n + 1) = state /\ StateAt(n + 2)' = state'
      BY <2>2, <3>1, <3>2, PastStays
    <3>4. /\ EventsKept(state, state') /\ BeliefsCarried(state, state')
          /\ \A e \in ToSet(state.chronicle) : e.tombstone => Recorded(state', e.id) = e
      BY <2>2, CommitKeepsEvents, CommitCarriesBeliefs DEF LifeInv
    <3>5. BeliefsKept(state, state')
      BY <3>4 DEF BeliefsKept, BeliefsCarried
    <3>6. ASSUME NEW i \in Moments
          PROVE  EventsKept(StateAt(i), state') /\ BeliefsKept(StateAt(i), state')
      <4>1. CASE i = n + 1
        BY <3>3, <3>4, <3>5, <4>1
      <4>2. CASE i # n + 1
        BY <3>3, <4>2, <3>4, EventsKeptOn, BeliefsKeptOn DEF PastIsKept
      <4> QED  BY <4>1, <4>2
    <3>7. ASSUME NEW i \in Moments', NEW j \in Moments', i < j
          PROVE  EventsKept(StateAt(i)', StateAt(j)') /\ BeliefsKept(StateAt(i)', StateAt(j)')
      <4>1. i \in Moments
        BY <3>3, <3>7
      <4>2. CASE j \in Moments
        BY <3>3, <3>7, <4>1, <4>2 DEF PastIsKept
      <4>3. CASE j = n + 2
        BY <3>3, <3>6, <4>1, <4>3
      <4> QED  BY <3>3, <4>2, <4>3
    <3> QED  BY <3>7 DEF PastIsKept
  <2> QED  BY <2>1, <2>2, StepShape, LifeStep
<1>3. LifeInv /\ PastIsKept => PastIsKept
  OBVIOUS
<1> QED  BY <1>1, <1>2, <1>3, PTL DEF Spec

------------------------------------------------------------------------------
(* The first numbers, counted.                                             *)
LEMMA IntervalCount ==
  ASSUME NEW n \in Nat
  PROVE  IsFiniteSet(1..n) /\ Cardinality(1..n) = n
  BY FS_Interval

(* A sequence that names nothing twice has as many values as places.       *)
LEMMA InjectiveCount ==
  ASSUME NEW S, NEW q \in Seq(S), IsInjective(q)
  PROVE  IsFiniteSet(ToSet(q)) /\ Cardinality(ToSet(q)) = Len(q)
<1>1. Len(q) \in Nat /\ DOMAIN q = 1..Len(q)
  OBVIOUS
<1>2. IsFiniteSet(1..Len(q)) /\ Cardinality(1..Len(q)) = Len(q)
  BY <1>1, IntervalCount, Zenon
<1>3. q \in Surjection(1..Len(q), ToSet(q)) /\ q \in Injection(1..Len(q), ToSet(q))
  BY <1>1 DEF Surjection, Injection, IsInjective, ToSet
<1> QED  BY <1>2, <1>3, FS_Surjection, Zenon

(* The signers of an offer are numbered.                                   *)
LEMMA SignersNumbered ==
  ASSUME NEW o, NEW signers, signers = Signers(ProposalOf(o))
  PROVE  Len(signers) \in Nat /\ DOMAIN signers = 1..Len(signers)
<1>1. CASE o.name = "authority_missing"
  BY <1>1 DEF ProposalOf, Signers
<1>2. CASE o.name # "authority_missing"
  <2>1. PICK f : ProposalOf(o).authority = {f} /\ DOMAIN f = DOMAIN SignersOf(o.name)
    BY <1>2 DEF ProposalOf
  <2>2. signers = f
    BY <2>1, TheOnly DEF Signers
  <2>3. \E n \in 1..2 : DOMAIN SignersOf(o.name) = 1..n
    BY DEF SignersOf
  <2> QED  BY <2>1, <2>2, <2>3
<1> QED  BY <1>1, <1>2

(* Authority that passed a rule for two: two people of the predecessor's   *)
(* governance, both custodians, have signed for it.                        *)
LEMMA AuthorityMeansTwo ==
  ASSUME NEW o, NEW s, NEW policy, NEW context, policy.normativeThreshold = 2,
         Passed(CheckAuthority({ProposalOf(o)}, s, policy, context)),
         NEW i \in DOMAIN ProposalOf(o).manifest,
         ProposalOf(o).manifest[i].target = "normative_rules"
  PROVE  Cardinality(Custodians(s, ProposalOf(o))) >= 2
<1> DEFINE q == ProposalOf(o)
<1> DEFINE m == q.manifest[i]
<1> DEFINE all == Signers(q)
<1> DEFINE signers == ToSet(all)
<1> DEFINE principals == {x.principal : x \in signers}
<1> DEFINE Eligible == {x \in signers : /\ Granted(s, x) /\ SignerStatus(q, x, context) = "PASS"
                                        /\ InScope(s, x, m)}
<1>1. The({q}) = q
  BY TheOnly
<1>2. Cardinality(principals) = Len(all)
  BY <1>1 DEF CheckAuthority, Passed
<1>3. ~(Cardinality(Eligible) < Threshold(policy, m))
  BY <1>1 DEF CheckAuthority, Passed
<1>4. Threshold(policy, m) = 2
  BY DEF Threshold
<1>5. \A x \in Eligible : /\ x \in signers /\ Granted(s, x)
                          /\ s.governance[x.principal].role = "IDENTITY_CUSTODIAN"
  BY DEF InScope, Granted, Lookup
<1>6. Len(all) \in Nat /\ DOMAIN all = 1..Len(all)
  BY SignersNumbered
<1> DEFINE who == Custodians(s, q)
<1>9. \A x \in Eligible : x.principal \in who
  <2> HIDE DEF Eligible
  <2> QED  BY <1>5 DEF Custodians
<1>10. who \subseteq principals
  BY DEF Custodians
<1> HIDE DEF who, all, Eligible, m, q
<1>7. IsFiniteSet(signers) /\ IsFiniteSet(principals)
  <2> DEFINE f == [k \in 1..Len(all) |-> all[k]]
  <2>1. f \in Surjection(1..Len(all), signers)
    BY <1>6 DEF ToSet, Surjection
  <2> DEFINE g == [k \in 1..Len(all) |-> all[k].principal]
  <2>2. g \in Surjection(1..Len(all), principals)
    BY <1>6 DEF ToSet, Surjection
  <2>3. IsFiniteSet(1..Len(all))
    BY <1>6, IntervalCount, Zenon
  <2> HIDE DEF f, g, signers, principals
  <2> QED  BY <2>1, <2>2, <2>3, FS_Surjection, Zenon

(* Nobody signed twice, so the principal tells the signer.                 *)
<1>8. \A x, y \in signers : x.principal = y.principal => x = y
  <2> DEFINE g == [k \in 1..Len(all) |-> all[k].principal]
  <2>1. g \in Surjection(1..Len(all), principals)
    BY <1>6 DEF ToSet, Surjection
  <2>2. IsFiniteSet(1..Len(all)) /\ Cardinality(1..Len(all)) = Len(all)
    BY <1>6, IntervalCount, Zenon
  <2>3. g \in Injection(1..Len(all), principals)
    <3> HIDE DEF g, principals
    <3>1. Cardinality(principals) = Cardinality(1..Len(all))
      BY <1>2, <2>2
    <3> QED  BY <2>1, <2>2, <3>1, FS_Surjection, Zenon
  <2>4. ASSUME NEW a \in 1..Len(all), NEW b \in 1..Len(all),
               all[a].principal = all[b].principal
        PROVE  a = b
    <3>1. g[a] = g[b] /\ DOMAIN g = 1..Len(all)
      BY <2>4
    <3> HIDE DEF g
    <3> QED  BY <2>3, <3>1 DEF Injection, IsInjective
  <2> QED  BY <1>6, <2>4 DEF ToSet
<1>11. IsFiniteSet(who)
  BY <1>7, <1>10, FS_Subset
<1>12. Cardinality(Eligible) <= Cardinality(who) /\ IsFiniteSet(Eligible)
  <2> DEFINE f == [x \in Eligible |-> x.principal]
  <2>1. f \in Injection(Eligible, who)
    BY <1>5, <1>8, <1>9 DEF Injection, IsInjective
  <2> HIDE DEF f
  <2> QED  BY <1>11, <2>1, FS_Injection, Zenon
<1>13. Cardinality(Eligible) \in Nat /\ Cardinality(who) \in Nat
  BY <1>11, <1>12, FS_CardinalityType
<1>14. Cardinality(who) >= 2
  BY <1>3, <1>4, <1>12, <1>13
<1> QED  BY <1>14 DEF who, q

------------------------------------------------------------------------------
(* A commit leaves what may not be amended as it was,                      *)
LEMMA CommitKeepsCore ==
  ASSUME NEW s, NEW o, VerdictFrom(s, o) = "VALID",
         NEW r \in DOMAIN s.rules, s.rules[r].fixed
  PROVE  Lookup(CandidateOf(o).rules, r) = {s.rules[r]}
<1>1. Passed(CheckNormative(s, CandidateOf(o)))
  BY CommitPassed DEF NativeCheck
<1> QED  BY <1>1 DEF CheckNormative, Or, Passed

(* and changes the rest of the rules only as two custodians have signed.   *)
LEMMA CommitIsGoverned ==
  ASSUME NEW s, NEW o, VerdictFrom(s, o) = "VALID", Made(o), HasFields(s), IdsAreSeqs(s),
         CandidateOf(o).rules # s.rules
  PROVE  Cardinality(Custodians(s, ProposalOf(o))) >= 2
<1>1. "normative_rules" \in {o.manifest[i].target : i \in DOMAIN o.manifest}
  BY CommitGrows DEF Grown, Spares
<1>2. ProposalOf(o).manifest = o.manifest
  BY DEF ProposalOf
<1>3. PICK i \in DOMAIN ProposalOf(o).manifest :
        ProposalOf(o).manifest[i].target = "normative_rules"
  BY <1>1, <1>2
<1>4. Passed(CheckAuthority({ProposalOf(o)}, s, PolicyOf(o), ContextAt(s)))
  BY CommitPassed
<1>5. PolicyOf(o).normativeThreshold = 2
  BY PolicyInForce
<1> QED  BY <1>3, <1>4, <1>5, AuthorityMeansTwo

(* The non-amendable rules of the genesis state are never changed: not by  *)
(* any sequence of cases, any signers, any loss of keys or of evidence.    *)
(* Any other change of the rules has the signatures of two custodians of   *)
(* the state it was made to.                                               *)
THEOREM RulesAreGoverned == Spec => []CoreIsGoverned
<1>1. Init => LifeInv /\ CoreIsGoverned
  BY LifeInit DEF Init, CoreStands, Lookup, CoreIsGoverned
<1>2. LifeInv /\ CoreIsGoverned /\ [Next]_vars => LifeInv' /\ CoreIsGoverned'
  <2> SUFFICES ASSUME LifeInv, CoreIsGoverned, [Next]_vars PROVE LifeInv' /\ CoreIsGoverned'
    OBVIOUS
  <2>1. CASE UNCHANGED <<state, log>>
    BY <2>1, LifeStep DEF CoreIsGoverned, CoreStands, StateAt
  <2>2. ASSUME NEW o, VerdictFrom(state, o) = "VALID", Made(o), state' = CandidateOf(o),
               log' = Append(log, o)
        PROVE  CoreIsGoverned'
    <3>1. CoreStands'
      <4> SUFFICES ASSUME NEW k \in DOMAIN Genesis.rules, Genesis.rules[k].fixed
                   PROVE  Lookup(CandidateOf(o).rules, k) = {Genesis.rules[k]}
        BY <2>2 DEF CoreStands
      <4>1. k \in DOMAIN state.rules /\ state.rules[k] = Genesis.rules[k]
        BY DEF CoreIsGoverned, CoreStands, Lookup
      <4> QED  BY <2>2, <4>1, CommitKeepsCore
    <3>2. PICK S : log \in Seq(S)
      BY DEF LifeInv, LogIsSequence
    <3>3. o.base = state
      BY <2>2, CommittedOnItsBase
    <3> PICK n : n = Len(log)
      OBVIOUS
    <3>4. /\ n \in Nat /\ DOMAIN log' = 1..(n + 1) /\ DOMAIN log = 1..n
          /\ \A i \in 1..n : log'[i] = log[i]
          /\ log'[n + 1] = o
      BY <2>2, <3>2
    <3>5. /\ \A i \in 1..(n + 1) : StateAt(i)' = StateAt(i)
          /\ StateAt(n + 2)' = state'
      BY <2>2, <3>2, <3>3, PastStays
    <3>6. ASSUME NEW i \in 1..n, log'[i].base.rules # StateAt(i + 1)'.rules
          PROVE  Cardinality(Custodians(log'[i].base, ProposalOf(log'[i]))) >= 2
      BY <3>4, <3>5, <3>6 DEF CoreIsGoverned
    <3>7. ASSUME o.base.rules # state'.rules
          PROVE  Cardinality(Custodians(o.base, ProposalOf(o))) >= 2
      BY <2>2, <3>3, <3>7, CommitIsGoverned DEF LifeInv
    <3>8. ASSUME NEW i \in DOMAIN log', log'[i].base.rules # StateAt(i + 1)'.rules
          PROVE  Cardinality(Custodians(log'[i].base, ProposalOf(log'[i]))) >= 2
      <4>1. CASE i \in 1..n
        BY <3>6, <3>8, <4>1
      <4>2. CASE i = n + 1
        BY <3>4, <3>5, <4>2, <3>7, <3>8
      <4> QED  BY <3>4, <4>1, <4>2
    <3> QED  BY <3>1, <3>8 DEF CoreIsGoverned
  <2> QED  BY <2>1, <2>2, StepShape, LifeStep
<1>3. LifeInv /\ CoreIsGoverned => CoreIsGoverned
  OBVIOUS
<1> QED  BY <1>1, <1>2, <1>3, PTL DEF Spec

------------------------------------------------------------------------------
(* A tier has a rank.                                                      *)
LEMMA RankIsNumber == ASSUME NEW tier PROVE Rank(tier) \in 0..2
  BY DEF Rank, Ranks

(* Whatever a proposal depends on, it is by the digest of the evidence its *)
(* offer cites: the store can vouch with nothing else.                     *)
LEMMA EvidenceProposed ==
  ASSUME NEW o, NEW d \in Dependencies({ProposalOf(o)})
  PROVE  d.digest = Digest("EVIDENCE", EvidenceOf(o))
<1> DEFINE one == [id |-> Uri(o), uri |-> Uri(o), digest |-> Digest("EVIDENCE", EvidenceOf(o))]
<1> DEFINE named == [dependencies |-> <<one>>, citations |-> {Uri(o)}]
<1>1. The({ProposalOf(o)}) = ProposalOf(o)
  BY TheOnly
<1>2. ProposalOf(o).provenance \in {{}, {named}}
  BY DEF ProposalOf
<1>3. ProposalOf(o).provenance # {} /\ d \in ToSet(The(ProposalOf(o).provenance).dependencies)
  BY <1>1 DEF Dependencies
<1> HIDE DEF named
<1>4. The(ProposalOf(o).provenance) = named
  BY <1>2, <1>3, TheOnly
<1>5. d \in ToSet(named.dependencies)
  BY <1>3, <1>4
<1> HIDE DEF one
<1>6. named.dependencies = <<one>>
  BY DEF named
<1>7. d = one
  BY <1>5, <1>6 DEF ToSet
<1> QED  BY <1>7 DEF one

(* So whatever the store resolves for it is that evidence.                 *)
LEMMA EvidenceResolved ==
  ASSUME NEW o, NEW context, Passed(CheckProvenance({ProposalOf(o)}, context)),
         NEW d \in Dependencies({ProposalOf(o)}), NEW source \in Lookup(context.store, d.uri)
  PROVE  source = EvidenceOf(o)
<1> DEFINE deps == Dependencies({ProposalOf(o)})
<1>1. Passed(DependencyStatus(d, context))
  <2>1. \A x \in deps : Passed(DependencyStatus(x, context))
    <3> DEFINE q == The({ProposalOf(o)})
    <3> DEFINE p == The(q.provenance)
    <3> DEFINE M(i) == q.manifest[i]
    <3> DEFINE ops == DOMAIN q.manifest
    <3> DEFINE required == (UNION {M(i).ref : i \in ops}) \cup p.citations
    <3> DEFINE each == {DependencyStatus(x, context) : x \in deps}
    <3> DEFINE others == {Or(M(i).op \in EvidenceOps => M(i).ref # {}, "UNKNOWN") : i \in ops}
          \cup {Or(required \subseteq {x.id : x \in deps}, "UNKNOWN")}
          \cup {Or(\A e \in AcquiredFrom(M(i)) : e # {} /\ e \subseteq {x.uri : x \in deps},
                   "UNKNOWN") : i \in ops}
    <3>1. Passed(Combine(each \cup others))
      BY DEF CheckProvenance, Passed
    <3>2. \A x \in each \cup others : Passed(x)
      <4> HIDE DEF each, others
      <4> QED  BY <3>1, CombinePassed
    <3> HIDE DEF others, deps
    <3> QED  BY <3>2
  <2> HIDE DEF deps
  <2> QED  BY <2>1 DEF deps
<1>2. Lookup(context.store, d.uri) = {source}
  BY DEF Lookup
<1>3. Resolved(context, {d.uri}) = {source}
  BY <1>2 DEF Resolved
<1>4. d.digest = Digest("EVIDENCE", source)
  BY <1>1, <1>3, TheOnly DEF DependencyStatus, Or, Passed
<1>5. d.digest = Digest("EVIDENCE", EvidenceOf(o))
  BY EvidenceProposed
<1> QED  BY <1>4, <1>5 DEF Digest

------------------------------------------------------------------------------
(* The evidence of an offer vouches for these interactions with an entity. *)
VouchedBy(o, k, ids) ==
  \A id \in ToSet(ids) : \E x \in UNION SupportedRecords(o) :
    x.session = id /\ x.entity = k /\ x.positive

(* What a commit changes of an entity it raises only on what the state     *)
(* before counted, counts each interaction once, and counts those only     *)
(* that the evidence of the offer itself vouches for.                      *)
LEMMA CommitRelates ==
  ASSUME NEW s, NEW o, VerdictFrom(s, o) = "VALID",
         NEW k \in DOMAIN CandidateOf(o).relationships,
         NEW new, new = CandidateOf(o).relationships[k],
         Lookup(s.relationships, k) # {new}
  PROVE  /\ Earned(Lookup(s.relationships, k), new, PolicyOf(o))
         /\ IsInjective(new.ids) /\ new.count = Len(new.ids)
         /\ VouchedBy(o, k, new.ids)
<1> DEFINE c == CandidateOf(o)
<1> DEFINE proposal == {ProposalOf(o)}
<1> DEFINE context == ContextAt(s)
<1> DEFINE old == Lookup(s.relationships, k)
<1> DEFINE kept == Or(RecordsKept(old, new) /\ Earned(old, new, PolicyOf(o)), "FAIL")
<1> DEFINE support == RelationSupport(k, new, c, proposal, context)
<1>1. Passed(Combine({kept, support}))
  <2> DEFINE changed == {j \in DOMAIN c.relationships :
                           Lookup(s.relationships, j) # {c.relationships[j]}}
  <2> DEFINE Status(j) ==
        LET before == Lookup(s.relationships, j)
            after == c.relationships[j]
        IN  Combine({ Or(RecordsKept(before, after) /\ Earned(before, after, PolicyOf(o)), "FAIL"),
                      RelationSupport(j, after, c, proposal, context) })
  <2>1. Passed(CheckRelational(s, c, PolicyOf(o), proposal, context))
    BY CommitPassed DEF NativeCheck
  <2>2. Passed(Combine({Status(j) : j \in changed}))
    BY <2>1, Zenon DEF CheckRelational, Passed
  <2>3. \A x \in {Status(j) : j \in changed} : Passed(x)
    <3> HIDE DEF Status, changed
    <3> QED  BY <2>2, CombinePassed
  <2>4. k \in changed
    OBVIOUS
  <2>5. Passed(Status(k))
    <3> HIDE DEF Status, changed
    <3> QED  BY <2>3, <2>4
  <2> QED  BY <2>5
<1>2. Passed(kept) /\ Passed(support)
  <2> HIDE DEF kept, support
  <2> QED  BY <1>1, CombinePassed
<1>3. RecordsKept(old, new) /\ Earned(old, new, PolicyOf(o))
  BY <1>2 DEF Or, Passed
<1>4. ASSUME NEW id \in ToSet(new.ids)
      PROVE  \E x \in UNION SupportedRecords(o) :
               x.session = id /\ x.entity = k /\ x.positive
  <2> DEFINE Concerns(m) == m.op = "UPDATE_TRUST_TIER" /\ m.args.entity = k
  <2> DEFINE refs == UNION {UNION {m.ref : m \in {n \in ToSet(q.manifest) : Concerns(n)}} :
                              q \in proposal}
  <2> DEFINE deps == {d \in Dependencies(proposal) : d.id \in refs}
  <2> DEFINE sources == Resolved(context, {d.uri : d \in deps})
  <2> DEFINE scoped == {x \in sources : /\ x.records # {}
                                        /\ x.identity = The(proposal).identity
                                        /\ x.epoch = The(proposal).epoch}
  <2> DEFINE supported == {r.session : r \in {x \in UNION {The(y.records) : y \in scoped} :
                                              Supports(x, k, c)}}
  <2> DEFINE resolved == IF \E d \in deps : d.uri \notin DOMAIN context.store THEN "UNKNOWN"
                         ELSE Or(ToSet(new.ids) \subseteq supported, "FAIL")
  <2> DEFINE cited == {CitedStatus(x, k, c, The(proposal)) : x \in sources}
  <2>1. Passed(Combine(cited \cup {resolved}))
    BY <1>2 DEF RelationSupport, Passed
  <2>2. Passed(resolved)
    <3> HIDE DEF cited, resolved
    <3> QED  BY <2>1, CombinePassed
  <2>3. ToSet(new.ids) \subseteq supported
    <3> HIDE DEF deps, supported
    <3> QED  BY <2>2 DEF Or, Passed
  <2>4. PICK y \in scoped : \E x \in The(y.records) : x.session = id /\ Supports(x, k, c)
    <3> HIDE DEF scoped
    <3> QED  BY <2>3, <1>4
  <2>5. PICK x \in The(y.records) : x.session = id /\ Supports(x, k, c)
    BY <2>4
  <2>6. PICK d \in Dependencies(proposal) : y \in Lookup(context.store, d.uri)
    <3>1. y \in sources
      OBVIOUS
    <3> HIDE DEF refs, scoped
    <3> QED  BY <3>1 DEF Resolved
  <2>7. y = EvidenceOf(o)
    BY CommitPassed, <2>6, EvidenceResolved
  <2>8. y.records # {}
    BY <2>4
  <2>9. y.records = SupportedRecords(o)
    BY <2>7 DEF EvidenceOf
  <2>10. The(y.records) \in SupportedRecords(o)
    BY <2>8, <2>9 DEF The
  <2> QED  BY <2>5, <2>10 DEF Supports
<1> HIDE DEF old
<1>5. IsInjective(new.ids) /\ new.count = Len(new.ids)
  BY <1>3 DEF RecordsKept
<1> QED  BY <1>3, <1>4, <1>5 DEF old, VouchedBy

(* Nothing in the genesis state is trusted beyond the default, and what it *)
(* counts is what it names.                                                *)
LEMMA GenesisTrustsNobody ==
  ASSUME NEW k \in DOMAIN Genesis.relationships
  PROVE  /\ Rank(Genesis.relationships[k].tier) = 0
         /\ Genesis.relationships[k].count = Cardinality(ToSet(Genesis.relationships[k].ids))
<1> DEFINE q == Genesis.relationships[k].ids
<1>1. Rank(Genesis.relationships[k].tier) = 0
  BY DEF Genesis, Rank, Ranks
<1>2. q \in Seq({"c1", "c2"}) /\ IsInjective(q) /\ Genesis.relationships[k].count = Len(q)
  <2>1. \/ q = <<"c1", "c2">> /\ Genesis.relationships[k].count = 2
        \/ q = <<>> /\ Genesis.relationships[k].count = 0
    BY DEF Genesis
  <2>2. <<"c1", "c2">> \in Seq({"c1", "c2"}) /\ IsInjective(<<"c1", "c2">>)
        /\ Len(<<"c1", "c2">>) = 2
    BY DEF IsInjective
  <2>3. <<>> \in Seq({"c1", "c2"}) /\ IsInjective(<<>>) /\ Len(<<>>) = 0
    BY DEF IsInjective
  <2> HIDE DEF q
  <2> QED  BY <2>1, <2>2, <2>3, Zenon
<1> HIDE DEF q
<1>3. Genesis.relationships[k].count = Cardinality(ToSet(q))
  BY <1>2, InjectiveCount
<1> QED  BY <1>1, <1>3 DEF q

(* A raise once logged stays logged, as the next offer starts where the    *)
(* last one ended.                                                         *)
LEMMA RaiseStays ==
  ASSUME NEW S, log \in Seq(S), NEW o, log' = Append(log, o), o.base = state,
         NEW i \in DOMAIN log, NEW k, RaisedAt(i, k)
  PROVE  i \in DOMAIN log' /\ RaisedAt(i, k)'
<1>1. /\ Len(log') = Len(log) + 1 /\ DOMAIN log' = 1..(Len(log) + 1)
      /\ \A j \in 1..Len(log) : log'[j] = log[j]
      /\ log'[Len(log) + 1] = o
  OBVIOUS
<1>2. i \in 1..Len(log) /\ Len(log) \in Nat
  OBVIOUS
<1>3. StateAt(i + 1)' = StateAt(i + 1)
  BY <1>1, <1>2 DEF StateAt
<1> QED  BY <1>1, <1>2, <1>3 DEF RaisedAt

(* Who is newly trusted was raised by the last transition, from a state    *)
(* that counted enough.                                                    *)
LEMMA RaisedByTheLast ==
  ASSUME NEW S, log \in Seq(S), NEW o, log' = Append(log, o), o.base = state,
         state' = CandidateOf(o), VerdictFrom(state, o) = "VALID",
         NEW k \in DOMAIN state'.relationships, Rank(state'.relationships[k].tier) > 0,
         k \in DOMAIN state.relationships => Rank(state.relationships[k].tier) = 0,
         NEW n, n = Len(log) + 1
  PROVE  n \in DOMAIN log' /\ RaisedAt(n, k)'
<1> DEFINE new == CandidateOf(o).relationships[k]
<1>1. Lookup(state.relationships, k) # {new}
  <2>1. Rank(new.tier) > 0
    OBVIOUS
  <2> HIDE DEF new
  <2>2. CASE k \in DOMAIN state.relationships
    BY <2>1, <2>2 DEF Lookup
  <2>3. CASE k \notin DOMAIN state.relationships
    BY <2>3 DEF Lookup
  <2> QED  BY <2>2, <2>3
<1>2. Earned(Lookup(state.relationships, k), new, PolicyOf(o))
  BY <1>1, CommitRelates
<1>3. k \in DOMAIN state.relationships /\ state.relationships[k].count >= 2
  <2>1. CASE k \notin DOMAIN state.relationships
    BY <1>2, <2>1, PolicyInForce DEF Earned, Lookup
  <2>2. CASE k \in DOMAIN state.relationships
    BY <2>2, TheOnly, <1>2, PolicyInForce DEF Lookup, Earned
  <2> QED  BY <2>1, <2>2
<1>4. /\ Len(log') = n /\ n \in Nat /\ n \in DOMAIN log' /\ log'[n] = o
  OBVIOUS
<1>5. StateAt(n + 1)' = state'
  BY <1>4 DEF StateAt
<1>6. DefaultPolicy.trustThreshold = 2
  BY DEF DefaultPolicy
<1> QED  BY <1>3, <1>4, <1>5, <1>6 DEF RaisedAt

------------------------------------------------------------------------------
(* Where the interactions counted for an entity come from.                 *)
Vouched(k, id) ==
  \/ id \in ToSet(Genesis.relationships[k].ids)
  \/ \E i \in DOMAIN log : \E x \in UNION SupportedRecords(log[i]) :
       x.session = id /\ x.entity = k /\ x.positive

(* A commit counts what was vouched for, before it or by its own evidence. *)
LEMMA CountsVouched ==
  ASSUME LifeInv, TrustIsEarned, NEW o, VerdictFrom(state, o) = "VALID", Made(o),
         state' = CandidateOf(o), log' = Append(log, o),
         NEW k \in DOMAIN state'.relationships, NEW r, r = state'.relationships[k]
  PROVE  r.count = Cardinality(ToSet(r.ids)) /\ \A id \in ToSet(r.ids) : Vouched(k, id)'
<1>1. PICK S : log \in Seq(S)
  BY DEF LifeInv, LogIsSequence
<1>2. PICK n : n = Len(log)
  OBVIOUS
<1>3. /\ n \in Nat /\ DOMAIN log' = 1..(n + 1) /\ DOMAIN log = 1..n
      /\ \A i \in 1..n : log'[i] = log[i]
      /\ log'[n + 1] = o
  BY <1>1, <1>2
<1>4. CASE Lookup(state.relationships, k) = {r}
  <2>1. k \in DOMAIN state.relationships /\ state.relationships[k] = r
    BY <1>4 DEF Lookup
  <2>2. r.count = Cardinality(ToSet(r.ids)) /\ \A id \in ToSet(r.ids) : Vouched(k, id)
    <3>1. /\ state.relationships[k].count = Cardinality(ToSet(state.relationships[k].ids))
          /\ \A id \in ToSet(state.relationships[k].ids) : Vouched(k, id)
      BY <2>1, Zenon DEF TrustIsEarned, Vouched
    <3> QED  BY <2>1, <3>1
  <2>3. ASSUME NEW id, Vouched(k, id) PROVE Vouched(k, id)'
    <3>1. CASE id \in ToSet(Genesis.relationships[k].ids)
      BY <3>1 DEF Vouched
    <3>2. CASE \E i \in DOMAIN log : \E x \in UNION SupportedRecords(log[i]) :
                 x.session = id /\ x.entity = k /\ x.positive
      <4>1. PICK i \in DOMAIN log : \E x \in UNION SupportedRecords(log[i]) :
                   x.session = id /\ x.entity = k /\ x.positive
        BY <3>2
      <4>2. i \in DOMAIN log' /\ log'[i] = log[i]
        BY <1>3
      <4> QED  BY <4>1, <4>2 DEF Vouched
    <3> QED  BY <2>3, <3>1, <3>2 DEF Vouched
  <2> QED  BY <2>2, <2>3
<1>5. CASE Lookup(state.relationships, k) # {r}
  <2>1. /\ IsInjective(r.ids) /\ r.count = Len(r.ids)
        /\ VouchedBy(o, k, r.ids)
    <3>1. k \in DOMAIN CandidateOf(o).relationships /\ r = CandidateOf(o).relationships[k]
      OBVIOUS
    <3>2. Lookup(state.relationships, k) # {r} /\ VerdictFrom(state, o) = "VALID"
      BY <1>5
    <3>3. /\ Earned(Lookup(state.relationships, k), r, PolicyOf(o))
          /\ IsInjective(r.ids) /\ r.count = Len(r.ids)
          /\ VouchedBy(o, k, r.ids)
      BY <3>1, <3>2, CommitRelates
    <3> QED  BY <3>3
  <2>2. PICK T : r.ids \in Seq(T)
    BY CommitGrows DEF LifeInv, Grown, IdsAreSeqs
  <2>3. r.count = Cardinality(ToSet(r.ids))
    BY <2>1, <2>2, InjectiveCount
  <2>4. n + 1 \in DOMAIN log' /\ log'[n + 1] = o
    BY <1>3
  <2> QED  BY <2>1, <2>3, <2>4 DEF Vouched, VouchedBy
<1> QED  BY <1>4, <1>5

(* Trust is only ever given on a past that had earned it, and what it is   *)
(* earned by was counted once each and vouched for by evidence, for any    *)
(* sequence of cases, rivals and faults.                                   *)
THEOREM TrustHasAHistory == Spec => []TrustIsEarned
<1>1. Init => LifeInv /\ TrustIsEarned
  BY LifeInit, GenesisTrustsNobody DEF Init, TrustIsEarned, TrustFollowsHistory
<1>2. LifeInv /\ TrustIsEarned /\ [Next]_vars => LifeInv' /\ TrustIsEarned'
  <2> SUFFICES ASSUME LifeInv, TrustIsEarned, [Next]_vars PROVE LifeInv' /\ TrustIsEarned'
    OBVIOUS
  <2>1. CASE UNCHANGED <<state, log>>
    BY <2>1, LifeStep DEF TrustIsEarned, TrustFollowsHistory, RaisedAt, StateAt
  <2>2. ASSUME NEW o, VerdictFrom(state, o) = "VALID", Made(o), state' = CandidateOf(o),
               log' = Append(log, o)
        PROVE  TrustIsEarned'
    <3>1. PICK S : log \in Seq(S)
      BY DEF LifeInv, LogIsSequence
    <3>2. o.base = state
      BY <2>2, CommittedOnItsBase
    <3>3. ASSUME NEW k \in DOMAIN state'.relationships,
                 Rank(state'.relationships[k].tier) > 0
          PROVE  \E i \in DOMAIN log' : RaisedAt(i, k)'
      <4>1. CASE k \in DOMAIN state.relationships /\ Rank(state.relationships[k].tier) > 0
        <5>1. PICK i \in DOMAIN log : RaisedAt(i, k)
          BY <4>1 DEF TrustIsEarned, TrustFollowsHistory
        <5> QED  BY <2>2, <3>1, <3>2, <5>1, RaiseStays
      <4>2. CASE ~(k \in DOMAIN state.relationships /\ Rank(state.relationships[k].tier) > 0)
        <5>1. k \in DOMAIN state.relationships => Rank(state.relationships[k].tier) = 0
          BY <4>2, RankIsNumber
        <5>2. PICK n : n = Len(log) + 1
          OBVIOUS
        <5>3. n \in DOMAIN log' /\ RaisedAt(n, k)'
          BY <2>2, <3>1, <3>2, <3>3, <5>1, <5>2, RaisedByTheLast
        <5> QED  BY <5>3
      <4> QED  BY <4>1, <4>2
    <3>4. TrustFollowsHistory'
      BY <3>3 DEF TrustFollowsHistory
    <3>5. \A k \in DOMAIN state'.relationships :
            /\ state'.relationships[k].count = Cardinality(ToSet(state'.relationships[k].ids))
            /\ \A id \in ToSet(state'.relationships[k].ids) : Vouched(k, id)'
      BY <2>2, CountsVouched
    <3> QED  BY <3>4, <3>5, Zenon DEF TrustIsEarned, Vouched
  <2> QED  BY <2>1, <2>2, StepShape, LifeStep
<1>3. LifeInv /\ TrustIsEarned => TrustIsEarned
  OBVIOUS
<1> QED  BY <1>1, <1>2, <1>3, PTL DEF Spec

(* What the fold starts from and each mutation keeps, it ends with.        *)
LEMMA RoundsStay ==
  ASSUME NEW pred, NEW manifest, NEW n \in Nat, NEW f, f = Round(pred, manifest, n, f),
         NEW Good, Advanced(pred, manifest) \in Good,
         \A k \in 1..n : \A s \in Good : \A t \in f[1..k] :
           Admits(pred, s, manifest[k]) /\ t = Effect(s, manifest[k]) => t \in Good
  PROVE  f[1..n] \subseteq Good
<1> DEFINE P == {k \in Nat : k <= n => f[1..k] \subseteq Good}
<1>1. 0 \in P
  BY DEF Round
<1>2. ASSUME NEW k \in P PROVE k + 1 \in P
  <2>0. k \in Nat
    BY <1>2
  <2>1. SUFFICES ASSUME k + 1 <= n, NEW t \in f[1..(k + 1)]
                 PROVE  t \in Good
    BY <2>0
  <2> DEFINE m == manifest[k + 1]
  <2>2. /\ 1..(k + 1) \in SUBSET (1..n) /\ 1..(k + 1) # {} /\ k + 1 \in 1..(k + 1)
        /\ (1..(k + 1)) \ {k + 1} = 1..k
    BY <2>0, <2>1
  <2>3. Max(1..(k + 1)) = k + 1
    BY <2>0, <2>2, GreatestIsLast
  <2>4. f[1..(k + 1)] = Admitted(pred, f[1..k], m)
    <3> DEFINE whole == 1..(k + 1)
    <3>1. f[whole] = Admitted(pred, f[whole \ {Max(whole)}], manifest[Max(whole)])
      <4> HIDE DEF whole
      <4>1. whole \in SUBSET (1..n) /\ whole # {}
        BY <2>2 DEF whole
      <4> QED  BY <4>1 DEF Round
    <3> QED  BY <2>2, <2>3, <3>1
  <2>5. PICK s \in f[1..k] : Admits(pred, s, m) /\ t = Effect(s, m)
    BY <2>1, <2>4 DEF Admitted
  <2>6. s \in Good /\ k + 1 \in 1..n
    BY <1>2, <2>0, <2>1, <2>5
  <2> HIDE DEF m
  <2> QED  BY <2>1, <2>5, <2>6 DEF m
<1> HIDE DEF P
<1>3. P = Nat
  BY <1>1, <1>2, SetInduction DEF P
<1> QED  BY <1>3 DEF P

------------------------------------------------------------------------------
(* The fields of an event and of a claim that decide their evidence.       *)
EventShape(e) == {"id", "evidence", "tombstone", "principal"} \subseteq DOMAIN e
ClaimShape(v) == {"structured", "claimed", "evidence"} \subseteq DOMAIN v

(* Who may sign a tombstone in these cases.                                *)
Undertakers == {{"gov1"}, {"runtime"}}

(* What a mutation of an offer brings comes with the evidence of the offer.*)
Tells(o, m) ==
  /\ m.op = "APPEND_CHRONICLE" =>
       EventShape(m.args.event) /\ m.args.event.evidence = {Uri(o)} /\ ~m.args.event.tombstone
  /\ m.op = "INSERT_KNOWLEDGE" =>
       /\ ClaimShape(m.args.value) /\ m.args.value.evidence = {Uri(o)}
       /\ m.args.value.claimed # {}
  /\ m.op = "BACKDATE_KNOWLEDGE" => m.args.claimed = 0
  /\ m.op = "DELETE_CHRONICLE_EVENT" => m.args.principal \in Undertakers
  /\ m.op = "REORDER_CHRONICLE" => \E n \in Nat : DOMAIN m.args.order = 1..n
  /\ m.op = "SET_CLOCK" => m.args.timestamp = o.base.timestamp + 1

AllTell(o, q) == \A i \in DOMAIN q : Tells(o, q[i])

(* One mutation that tells is a manifest that tells,                       *)
LEMMA TellOne == ASSUME NEW o, NEW m, Tells(o, m) PROVE AllTell(o, <<m>>)
<1>1. DOMAIN <<m>> = 1..1 /\ <<m>>[1] = m
  OBVIOUS
<1>2. \A i \in 1..1 : Tells(o, <<m>>[i])
  BY <1>1
<1> QED BY <1>1, <1>2 DEF AllTell

(* and so are two,                                                         *)
LEMMA TellTwo ==
  ASSUME NEW o, NEW m, Tells(o, m), NEW n, Tells(o, n) PROVE AllTell(o, <<m, n>>)
<1>1. DOMAIN <<m, n>> = 1..2 /\ <<m, n>>[1] = m /\ <<m, n>>[2] = n
  OBVIOUS
<1>2. \A i \in 1..2 : Tells(o, <<m, n>>[i])
  BY <1>1
<1> QED BY <1>1, <1>2 DEF AllTell

(* and none.                                                               *)
LEMMA TellNone == ASSUME NEW o PROVE AllTell(o, <<>>)
  BY DEF AllTell

(* The operations that bring no event, claim or clock of their own         *)
Silent == {"REWRITE_CHRONICLE", "REMOVE_CHRONICLE", "ANNOTATE_CORRECTION",
  "REVISE_BELIEF", "RETROACTIVE_BELIEF", "UPDATE_TRUST_TIER", "EVICT_BUFFER", "INSERT_SUMMARY",
  "PRUNE_EXPIRED_CONTEXT", "UPDATE_RUNTIME_CONFIG", "REBIND_SUBSTRATE", "FORWARD_RESTORE",
  "DELETE_NORMATIVE_RULE", "INSERT_NORMATIVE_RULE", "CLAIM_SUCCESSION"}

(* tell, whatever their arguments.                                         *)
LEMMA SilentTells ==
  ASSUME NEW o, NEW op \in Silent, NEW args, NEW ref, NEW i
  PROVE  Tells(o, Mutation(op, args, ref, i))
  BY DEF Tells, Mutation, Silent

(* The event an offer appends has the evidence of the offer.               *)
LEMMA EventTells ==
  ASSUME NEW o, NEW content
  PROVE  /\ EventShape(NewEvent(o, content)) /\ NewEvent(o, content).evidence = {Uri(o)}
         /\ ~NewEvent(o, content).tombstone
  BY DEF NewEvent, PlainEvent, EventShape

(* Appending such an event tells.                                          *)
LEMMA AppendTells ==
  ASSUME NEW o, NEW e, EventShape(e), e.evidence = {Uri(o)}, ~e.tombstone, NEW ref, NEW i
  PROVE  Tells(o, Mutation("APPEND_CHRONICLE", [event |-> e], ref, i))
  BY DEF Tells, Mutation

(* Inserting a claim tells: it names the evidence and a time.              *)
LEMMA LearnTells == ASSUME NEW o, NEW time PROVE Tells(o, Learn(o, time))
  BY DEF Tells, Mutation, Learn, Claim, ClaimShape

(* A backdated claim tells.                                                *)
LEMMA BackdateTells ==
  ASSUME NEW o, NEW key, NEW ref, NEW i
  PROVE  Tells(o, Mutation("BACKDATE_KNOWLEDGE", [key |-> key, claimed |-> 0], ref, i))
  BY DEF Tells, Mutation

(* A tombstone of the governor or of the runtime tells.                    *)
LEMMA RedactTells ==
  ASSUME NEW o, NEW p, {p} \in Undertakers, NEW i PROVE Tells(o, Redact(o, p, i))
  BY DEF Tells, Mutation, Redact

(* A chronicle put in another order tells.                                 *)
LEMMA ReorderTells ==
  ASSUME NEW o, NEW S, o.base.chronicle \in Seq(S)
  PROVE  Tells(o, Mutation("REORDER_CHRONICLE", [order |-> Reverse(EventIds(o.base))], {}, 0))
<1> DEFINE ids == EventIds(o.base)
<1>1. DOMAIN ids = 1..Len(o.base.chronicle) /\ Len(o.base.chronicle) \in Nat
  BY DEF EventIds
<1>2. ids \in Seq({ids[i] : i \in 1..Len(o.base.chronicle)})
  <2> HIDE DEF ids
  <2>1. ids = [i \in 1..Len(o.base.chronicle) |-> ids[i]]
    BY <1>1 DEF ids, EventIds
  <2> QED BY <1>1, <2>1
<1> HIDE DEF ids
<1>3. Len(ids) \in Nat
  BY <1>2
<1>4. DOMAIN Reverse(ids) = 1..Len(ids)
  BY DEF Reverse
<1>5. Tells(o, Mutation("REORDER_CHRONICLE", [order |-> Reverse(ids)], {}, 0))
  BY <1>3, <1>4 DEF Tells, Mutation
<1> QED BY <1>5 DEF ids

(* The clock moves one tick on from the offer's predecessor.               *)
LEMMA ClockTells ==
  ASSUME NEW o, NEW epoch, NEW ref, NEW i
  PROVE  Tells(o, Mutation("SET_CLOCK", [epoch |-> epoch, timestamp |-> o.base.timestamp + 1],
                           ref, i))
  BY DEF Tells, Mutation

(* Case by case: the manifest of every offer tells.                        *)
LEMMA ManifestTells ==
  ASSUME NEW o, o.name \in Names, NEW S, o.base.chronicle \in Seq(S)
  PROVE  AllTell(o, Manifest(o))
<1> DEFINE e == Effective(o.name)
<1> USE DEF Silent
<1>1. CASE e \in {"L3", "L4", "I4", "L6", "L7", "L8", "L9", "L10", "meet", "meet_and_trust"}
  BY <1>1, TellNone, TellOne, SilentTells DEF Manifest, Revise, Relate
<1>2. CASE e \in {"I2", "I3", "I5", "I8", "succession", "I7", "historical"}
  BY <1>2, TellOne, SilentTells DEF Manifest, Forget, Rewrite
<1>3. CASE e \in {"amend", "amend_alone", "amend_repeated", "amend_runtime", "weaken"}
  BY <1>3, TellOne, SilentTells DEF Manifest, Amend
<1>4. CASE e \in {"L2", "I1"}
  BY <1>4, TellOne, AppendTells, EventTells DEF Manifest
<1>5. CASE e \in {"redact", "redact_runtime", "rewrite_and_redact"}
  <2>1. {"gov1"} \in Undertakers /\ {"runtime"} \in Undertakers
    BY DEF Undertakers
  <2>2. \A p : {p} \in Undertakers => \A i : Tells(o, Redact(o, p, i))
    BY RedactTells
  <2> QED  BY <1>5, <2>1, <2>2, TellOne, TellTwo, SilentTells DEF Manifest, Rewrite
<1>6. CASE e \in {"L1", "temporal"}
  BY <1>6, TellOne, LearnTells DEF Manifest
<1>7. CASE e \in {"L5", "revise_twice", "revise_and_forget"}
  BY <1>7, TellTwo, SilentTells DEF Manifest, Revise, Forget
<1>8. CASE e \in {"backdate", "learn_and_backdate"}
  BY <1>8, TellNone, TellOne, TellTwo, LearnTells, BackdateTells DEF Manifest
<1>9. CASE e = "set_clock"
  BY <1>9, TellOne, ClockTells DEF Manifest
<1>10. CASE e = "disguised_delete"
  <2> DEFINE m == Mutation("DELETE_NORMATIVE_RULE", [rule |-> "extra"], {}, 0)
  <2>1. Tells(o, [m EXCEPT !.target = "runtime_config"])
    BY DEF Mutation, Tells
  <2>2. Manifest(o) = <<[m EXCEPT !.target = "runtime_config"]>>
    BY <1>10 DEF Manifest
  <2> HIDE DEF m
  <2> QED  BY <2>1, <2>2, TellOne
<1>11. CASE e = "replace_last"
  <2> DEFINE last == LastEvent(o.base).id
  <2> DEFINE new == [NewEvent(o, "replaced") EXCEPT !.id = last]
  <2>1. EventShape(new) /\ new.evidence = {Uri(o)} /\ ~new.tombstone
    BY DEF NewEvent, PlainEvent, EventShape
  <2>2. Manifest(o) = << Mutation("REMOVE_CHRONICLE", [event |-> last], {}, 0),
                         Mutation("APPEND_CHRONICLE", [event |-> new], {Uri(o)}, 1) >>
    BY <1>11 DEF Manifest
  <2> HIDE DEF new, last
  <2> QED  BY <2>1, <2>2, TellTwo, AppendTells, SilentTells
<1>13. CASE e = "reorder"
  BY <1>13, TellOne, ReorderTells DEF Manifest
<1>14. e \in {"L1", "L2", "I1", "L3", "L6", "L7", "L8", "L9", "L10", "I2", "I3", "I5", "I8",
             "succession", "I7", "historical", "temporal", "amend", "amend_alone",
             "amend_repeated", "amend_runtime", "weaken", "redact", "redact_runtime", "reorder",
             "set_clock", "L4", "I4", "meet", "meet_and_trust", "disguised_delete", "L5",
             "rewrite_and_redact", "replace_last", "revise_twice", "revise_and_forget",
             "backdate", "learn_and_backdate"}
  BY DEF Effective, Names, Families, OnTheUpgrade, SingleCases, CompoundCases, Extra
<1> QED  BY <1>1, <1>2, <1>3, <1>4, <1>5, <1>6, <1>7, <1>8, <1>9, <1>10, <1>11, <1>13, <1>14
------------------------------------------------------------------------------
(* The least of some places of a sequence is there.                        *)
LEMMA LeastIsThere ==
  ASSUME NEW n \in Nat, NEW I, I \subseteq 1..n, I # {}
  PROVE  Min(I) \in I
<1>1. IsWellFoundedOn({pair \in Nat \X Nat : pair[1] < pair[2]}, Nat)
  BY NatLessThanWellFounded DEF OpToRel
<1>2. I \subseteq Nat
  OBVIOUS
<1>3. PICK m \in I : \A k \in I : <<k, m>> \notin {pair \in Nat \X Nat : pair[1] < pair[2]}
  <2>1. I # {}
    OBVIOUS
  <2>2. QED
    BY <1>1, <1>2, <2>1, WFMin
<1>4. ASSUME NEW k \in I PROVE m <= k
  <2>1. k \in Nat /\ m \in Nat
    BY <1>2
  <2>2. <<k, m>> \in Nat \X Nat => ~(<<k, m>>[1] < <<k, m>>[2])
    BY <1>3
  <2> QED  BY <2>1, <2>2
<1> QED  BY <1>4 DEF Min

(* An event that is held has a place.                                      *)
LEMMA PositionIsPlace ==
  ASSUME NEW s, NEW S, s.chronicle \in Seq(S), NEW id, Holds(s, id)
  PROVE  Position(s, id) \in 1..Len(s.chronicle)
<1> DEFINE I == {i \in 1..Len(s.chronicle) : s.chronicle[i].id = id}
<1>1. I # {}
  <2>1. PICK i \in DOMAIN EventIds(s) : EventIds(s)[i] = id
    BY DEF Holds, ToSet
  <2>2. i \in 1..Len(s.chronicle) /\ s.chronicle[i].id = id
    BY <2>1 DEF EventIds
  <2> QED  BY <2>2
<1>2. Position(s, id) = IF I # {} THEN Min(I) ELSE 0
  BY DEF Position, SelectInSeq
<1>3. I \in SUBSET (1..Len(s.chronicle)) /\ Len(s.chronicle) \in Nat
  OBVIOUS
<1> HIDE DEF I
<1>4. Min(I) \in I
  BY <1>1, <1>3, LeastIsThere, Zenon
<1> QED  BY <1>1, <1>2, <1>3, <1>4

------------------------------------------------------------------------------
(* What an offer may have made of an event and of a claim: an event that   *)
(* is not the base's has the evidence of the offer, and so has a claim     *)
(* that is not the base's, or the base's backdated.                        *)
EventTold(o, e) ==
  /\ EventShape(e)
  /\ e.tombstone => e.principal \in Undertakers
  /\ e.id \in ToSet(EventIds(o.base)) \/ e.evidence = {Uri(o)}
ClaimTold(o, v) ==
  /\ ClaimShape(v)
  /\ v.structured =>
       \/ v.evidence = {Uri(o)} /\ v.claimed # {}
       \/ \E k \in DOMAIN o.base.knowledge : LET w == o.base.knowledge[k] IN
            w.structured /\ w.evidence = v.evidence /\ v.claimed \in {w.claimed, {0}}

(* The same of a whole chronicle, of all knowledge and of a state.         *)
ChronicleTold(o, c) == \E S : c \in Seq(S) /\ \A e \in S : EventTold(o, e)
KnowledgeTold(o, f) == \A k \in DOMAIN f : ClaimTold(o, f[k])
PastGenesis(time) == time \in Int /\ time > 0
Fields == {"chronicle", "knowledge", "timestamp", "governance"}
Told(o, s) ==
  /\ Fields \subseteq DOMAIN s /\ PastGenesis(s.timestamp)
  /\ ChronicleTold(o, s.chronicle) /\ KnowledgeTold(o, s.knowledge)
  /\ s.governance = o.base.governance

(* A changed event, if what is changed of it is not its evidence.          *)
LEMMA ChronicleChanged ==
  ASSUME NEW o, NEW c, ChronicleTold(o, c), NEW i, NEW new,
         i \in DOMAIN c /\ EventTold(o, c[i]) => EventTold(o, new)
  PROVE  ChronicleTold(o, [c EXCEPT ![i] = new])
<1>1. PICK S : c \in Seq(S) /\ \A e \in S : EventTold(o, e)
  BY DEF ChronicleTold
<1>2. CASE i \in DOMAIN c
  <2>1. EventTold(o, new)
    BY <1>1, <1>2
  <2>2. [c EXCEPT ![i] = new] \in Seq(S \cup {new})
    BY <1>1, <1>2
  <2> QED  BY <1>1, <2>1, <2>2 DEF ChronicleTold
<1>3. CASE i \notin DOMAIN c
  BY <1>1, <1>3
<1> QED  BY <1>2, <1>3

(* An event that is told can be appended.                                  *)
LEMMA ChronicleAppended ==
  ASSUME NEW o, NEW c, ChronicleTold(o, c), NEW e, EventTold(o, e)
  PROVE  ChronicleTold(o, Append(c, e))
<1>1. PICK S : c \in Seq(S) /\ \A d \in S : EventTold(o, d)
  BY DEF ChronicleTold
<1>2. Append(c, e) \in Seq(S \cup {e})
  BY <1>1
<1> QED  BY <1>1, <1>2 DEF ChronicleTold

(* An event can be taken out.                                              *)
LEMMA ChronicleShortened ==
  ASSUME NEW o, NEW c, ChronicleTold(o, c), NEW i \in 1..Len(c)
  PROVE  ChronicleTold(o, RemoveAt(c, i))
<1>1. PICK S : c \in Seq(S) /\ \A d \in S : EventTold(o, d)
  BY DEF ChronicleTold
<1>2. RemoveAt(c, i) \in Seq(S)
  BY <1>1 DEF RemoveAt
<1> QED  BY <1>1, <1>2 DEF ChronicleTold

(* What REORDER_CHRONICLE makes of a chronicle:                            *)
Reordered(s, order) ==
  [i \in DOMAIN order |-> CHOOSE e \in ToSet(s.chronicle) : e.id = order[i]]

(* the events of the chronicle, no others.                                 *)
LEMMA ChronicleReordered ==
  ASSUME NEW o, NEW s, ChronicleTold(o, s.chronicle), NEW n \in Nat, NEW order,
         DOMAIN order = 1..n, \A id \in ToSet(order) : Holds(s, id)
  PROVE  ChronicleTold(o, Reordered(s, order))
<1>1. PICK S : s.chronicle \in Seq(S) /\ \A d \in S : EventTold(o, d)
  BY DEF ChronicleTold
<1> DEFINE new == Reordered(s, order)
<1>2. ASSUME NEW i \in 1..n PROVE (CHOOSE e \in ToSet(s.chronicle) : e.id = order[i]) \in S
  <2>1. Holds(s, order[i])
    BY <1>2 DEF ToSet
  <2>2. \E e \in ToSet(s.chronicle) : e.id = order[i]
    BY <2>1 DEF Holds, EventIds, ToSet
  <2>3. ToSet(s.chronicle) \subseteq S
    BY <1>1 DEF ToSet
  <2> QED  BY <2>2, <2>3
<1>3. new \in [1..n -> S]
  BY <1>2 DEF Reordered
<1> HIDE DEF new
<1>4. new \in Seq(S)
  BY <1>3
<1>5. ChronicleTold(o, new)
  BY <1>1, <1>4 DEF ChronicleTold
<1> QED  BY <1>5 DEF new

(* So every mutation of the offer tells its story on.                      *)
LEMMA EffectTold ==
  ASSUME NEW pred, NEW o, NEW s, NEW m, Admits(pred, s, m), Tells(o, m), Told(o, s),
         PastGenesis(o.base.timestamp)
  PROVE  Told(o, Effect(s, m))
<1> DEFINE t == Effect(s, m)
<1>0. /\ Fields \subseteq DOMAIN s /\ PastGenesis(s.timestamp)
      /\ ChronicleTold(o, s.chronicle) /\ KnowledgeTold(o, s.knowledge)
      /\ s.governance = o.base.governance
  BY DEF Told
<1>1. m.op \in DOMAIN Targets
  BY DEF Admits
<1>2. CASE m.op = "INSERT_KNOWLEDGE"
  <2>1. t = [s EXCEPT !.knowledge = Put(s.knowledge, m.args.key, m.args.value)]
    BY <1>2 DEF Effect
  <2>2. ClaimTold(o, m.args.value)
    BY <1>2 DEF Tells, ClaimTold
  <2>3. KnowledgeTold(o, Put(s.knowledge, m.args.key, m.args.value))
    BY <1>0, <2>2 DEF KnowledgeTold, Put
  <2> QED  BY <1>0, <2>1, <2>3 DEF Told, Fields
<1>3. CASE m.op = "BACKDATE_KNOWLEDGE"
  <2> DEFINE v == s.knowledge[m.args.key]
  <2>1. t = [s EXCEPT !.knowledge = [s.knowledge EXCEPT ![m.args.key] = [v EXCEPT !.claimed = {0}]]]
    BY <1>3, Zenon DEF Effect, Tells
  <2>2. m.args.key \in DOMAIN s.knowledge
    BY <1>3 DEF Admits
  <2>3. ClaimTold(o, v)
    BY <1>0, <2>2 DEF KnowledgeTold
  <2>4. ClaimTold(o, [v EXCEPT !.claimed = {0}])
    <3> HIDE DEF v
    <3> DEFINE w == [v EXCEPT !.claimed = {0}]
    <3>1. /\ DOMAIN w = DOMAIN v /\ w.structured = v.structured /\ w.evidence = v.evidence
          /\ w.claimed = {0}
      BY <2>3 DEF ClaimTold, ClaimShape
    <3> HIDE DEF w
    <3>2. ClaimTold(o, w)
      BY <2>3, <3>1 DEF ClaimTold, ClaimShape
    <3> QED  BY <3>2 DEF w
  <2>5. KnowledgeTold(o, [s.knowledge EXCEPT ![m.args.key] = [v EXCEPT !.claimed = {0}]])
    <3> DEFINE w == [v EXCEPT !.claimed = {0}]
    <3> HIDE DEF w
    <3>1. KnowledgeTold(o, [s.knowledge EXCEPT ![m.args.key] = w])
      BY <1>0, <2>4 DEF KnowledgeTold, w
    <3> QED  BY <3>1 DEF w
  <2> HIDE DEF v
  <2> QED  BY <1>0, <2>1, <2>5 DEF Told, Fields
<1>4. CASE m.op = "APPEND_CHRONICLE"
  <2>1. t = [s EXCEPT !.chronicle = Append(s.chronicle, m.args.event)]
    BY <1>4 DEF Effect
  <2>2. EventTold(o, m.args.event)
    BY <1>4 DEF Tells, EventTold
  <2>3. ChronicleTold(o, Append(s.chronicle, m.args.event))
    BY <1>0, <2>2, ChronicleAppended
  <2> QED  BY <1>0, <2>1, <2>3 DEF Told, Fields
<1>5. CASE m.op \in {"ANNOTATE_CORRECTION", "REWRITE_CHRONICLE", "DELETE_CHRONICLE_EVENT"}
  <2> DEFINE i == Position(s, m.args.event)
  <2> DEFINE e == s.chronicle[i]
  <2> HIDE DEF i
  <2>1. PICK new : /\ t = [s EXCEPT !.chronicle = [s.chronicle EXCEPT ![i] = new]]
                   /\ EventTold(o, e) => EventTold(o, new)
    <3>1. CASE m.op = "ANNOTATE_CORRECTION"
      <4> DEFINE new == [e EXCEPT !.annotations =
                           Append(e.annotations, [text |-> m.args.correction, ref |-> m.ref])]
      <4>1. t = [s EXCEPT !.chronicle = [s.chronicle EXCEPT ![i] = new]]
        BY <3>1, Zenon DEF Effect, ChangeEvent, i
      <4>2. EventTold(o, e) => EventTold(o, new)
        BY DEF EventTold, EventShape
      <4> HIDE DEF new
      <4> QED  BY <4>1, <4>2
    <3>2. CASE m.op = "REWRITE_CHRONICLE"
      <4> DEFINE new == [e EXCEPT !.content = m.args.content]
      <4>1. t = [s EXCEPT !.chronicle = [s.chronicle EXCEPT ![i] = new]]
        BY <3>2, Zenon DEF Effect, ChangeEvent, i
      <4>2. EventTold(o, e) => EventTold(o, new)
        BY DEF EventTold, EventShape
      <4> HIDE DEF new
      <4> QED  BY <4>1, <4>2
    <3>3. CASE m.op = "DELETE_CHRONICLE_EVENT"
      <4> DEFINE new == Tombstone(e, m.args)
      <4>1. t = [s EXCEPT !.chronicle = [s.chronicle EXCEPT ![i] = new]]
        BY <3>3, Zenon DEF Effect, ChangeEvent, i
      <4>2. m.args.principal \in Undertakers
        BY <3>3 DEF Tells
      <4>3. EventTold(o, e) => EventTold(o, new)
        BY <4>2 DEF EventTold, EventShape, Tombstone
      <4> HIDE DEF new
      <4> QED  BY <4>1, <4>3
    <3> QED  BY <1>5, <3>1, <3>2, <3>3
  <2>2. ChronicleTold(o, [s.chronicle EXCEPT ![i] = new])
    BY <1>0, <2>1, ChronicleChanged
  <2>3. Told(o, t)
    <3> HIDE DEF t
    <3> QED  BY <1>0, <2>1, <2>2 DEF Told, Fields
  <2> QED  BY <2>3
<1>6. CASE m.op = "REMOVE_CHRONICLE"
  <2> DEFINE c == RemoveAt(s.chronicle, Position(s, m.args.event))
  <2>1. t = IF Holds(s, m.args.event) THEN [s EXCEPT !.chronicle = c] ELSE s
    BY <1>6 DEF Effect
  <2>2. ASSUME Holds(s, m.args.event) PROVE ChronicleTold(o, c)
    BY <1>0, <2>2, PositionIsPlace, ChronicleShortened DEF ChronicleTold
  <2> HIDE DEF c
  <2> QED  BY <1>0, <2>1, <2>2 DEF Told, Fields
<1>7. CASE m.op = "REORDER_CHRONICLE"
  <2> DEFINE c == Reordered(s, m.args.order)
  <2>1. t = [s EXCEPT !.chronicle = c]
    BY <1>7 DEF Effect, Reordered
  <2>2. PICK n \in Nat : DOMAIN m.args.order = 1..n
    BY <1>7 DEF Tells
  <2>3. \A id \in ToSet(m.args.order) : Holds(s, id)
    BY <1>7, SMTT(30) DEF Admits, Holds
  <2>4. ChronicleTold(o, c)
    BY <1>0, <2>2, <2>3, ChronicleReordered
  <2> HIDE DEF c
  <2> QED  BY <1>0, <2>1, <2>4 DEF Told, Fields
<1>8. CASE m.op = "SET_CLOCK"
  <2>1. t.timestamp = o.base.timestamp + 1 /\ PastGenesis(t.timestamp)
    <3>1. m.args.timestamp = o.base.timestamp + 1
      BY <1>8 DEF Tells
    <3>2. t.timestamp = m.args.timestamp
      BY <1>0, <1>8 DEF Effect, Fields
    <3> QED  BY <3>1, <3>2 DEF PastGenesis
  <2>2. /\ t.chronicle = s.chronicle /\ t.knowledge = s.knowledge /\ DOMAIN t = DOMAIN s
        /\ t.governance = s.governance
    BY <1>0, <1>8 DEF Effect, Fields
  <2> QED  BY <1>0, <2>1, <2>2 DEF Told
<1>9. CASE m.op \in {"REVISE_BELIEF", "RETROACTIVE_BELIEF", "UPDATE_TRUST_TIER", "EVICT_BUFFER",
                     "INSERT_SUMMARY", "PRUNE_EXPIRED_CONTEXT", "UPDATE_RUNTIME_CONFIG",
                     "REBIND_SUBSTRATE", "FORWARD_RESTORE", "DELETE_NORMATIVE_RULE",
                     "INSERT_NORMATIVE_RULE", "CLAIM_SUCCESSION"}
  <2>1. /\ t.chronicle = s.chronicle /\ t.knowledge = s.knowledge /\ t.timestamp = s.timestamp
        /\ DOMAIN t = DOMAIN s /\ t.governance = s.governance
    <3>1. CASE m.op \in {"REVISE_BELIEF", "UPDATE_TRUST_TIER", "EVICT_BUFFER",
                     "INSERT_SUMMARY", "PRUNE_EXPIRED_CONTEXT"}
      BY <1>0, <3>1 DEF Effect, Fields
    <3>2. CASE m.op \in {"UPDATE_RUNTIME_CONFIG",
                     "REBIND_SUBSTRATE", "FORWARD_RESTORE", "DELETE_NORMATIVE_RULE",
                     "INSERT_NORMATIVE_RULE", "CLAIM_SUCCESSION"}
      BY <1>0, <3>2 DEF Effect, Fields
    <3>3. CASE m.op = "RETROACTIVE_BELIEF"
      BY Zenon, <3>3, <1>0 DEF Effect, Fields
    <3> QED  BY <1>9, <3>1, <3>2, <3>3
  <2> QED  BY <1>0, <2>1 DEF Told
<1> QED  BY <1>1, <1>2, <1>3, <1>4, <1>5, <1>6, <1>7, <1>8, <1>9 DEF Targets
------------------------------------------------------------------------------
(* What the story of a state needs, whatever is made of it.                *)
Storied(s) ==
  /\ Fields \subseteq DOMAIN s /\ PastGenesis(s.timestamp)
  /\ \E S : s.chronicle \in Seq(S)
  /\ \A e \in ToSet(s.chronicle) : EventShape(e) /\ (e.tombstone => e.principal \in Undertakers)
  /\ \A k \in DOMAIN s.knowledge : ClaimShape(s.knowledge[k])

(* What an offer may make of a state has a story that can go on.           *)
LEMMA ToldIsStoried ==
  ASSUME NEW o, NEW s, Told(o, s)
  PROVE  Storied(s) /\ \A e \in ToSet(s.chronicle) : EventTold(o, e)
<1>1. PICK S : s.chronicle \in Seq(S) /\ \A e \in S : EventTold(o, e)
  BY DEF Told, ChronicleTold
<1>2. ToSet(s.chronicle) \subseteq S
  BY <1>1 DEF ToSet
<1>3. \A e \in ToSet(s.chronicle) : EventTold(o, e)
  BY <1>1, <1>2
<1>4. \A e \in ToSet(s.chronicle) : EventShape(e) /\ (e.tombstone => e.principal \in Undertakers)
  BY <1>3 DEF EventTold
<1>5. \A k \in DOMAIN s.knowledge : ClaimShape(s.knowledge[k])
  BY DEF Told, KnowledgeTold, ClaimTold
<1> QED  BY <1>1, <1>3, <1>4, <1>5 DEF Storied, Told

(* The predecessor is told as it is.                                       *)
LEMMA BaseTold ==
  ASSUME NEW o, Storied(o.base)
  PROVE  Told(o, o.base)
<1> DEFINE c == o.base.chronicle
<1>1. PICK S : c \in Seq(S)
  BY DEF Storied
<1>2. c \in Seq(ToSet(c))
  <2> HIDE DEF c
  <2>1. /\ Len(c) \in Nat /\ DOMAIN c = 1..Len(c) /\ c = [i \in 1..Len(c) |-> c[i]]
        /\ \A i \in 1..Len(c) : c[i] \in ToSet(c)
    BY <1>1 DEF ToSet
  <2>2. c \in [1..Len(c) -> ToSet(c)]
    BY <2>1
  <2> QED  BY <2>1, <2>2
<1>3. ASSUME NEW e \in ToSet(c) PROVE EventTold(o, e)
  BY <1>3, EventNamed DEF Storied, EventTold
<1>4. ChronicleTold(o, c)
  <2> HIDE DEF c
  <2> QED  BY <1>2, <1>3 DEF ChronicleTold
<1>5. KnowledgeTold(o, o.base.knowledge)
  BY DEF Storied, KnowledgeTold, ClaimTold
<1> QED  BY <1>4, <1>5 DEF Told, Storied

(* The clock tells nothing.                                                *)
LEMMA AdvancedTold ==
  ASSUME NEW o, NEW s, NEW manifest, Told(o, s)
  PROVE  Told(o, Advanced(s, manifest))
<1> DEFINE t == Advanced(s, manifest)
<1>1. /\ t.chronicle = s.chronicle /\ t.knowledge = s.knowledge /\ DOMAIN t = DOMAIN s
      /\ t.timestamp \in {s.timestamp, s.timestamp + 1} /\ t.governance = s.governance
  BY DEF Advanced, Told, Fields
<1> HIDE DEF t
<1>2. PastGenesis(t.timestamp)
  BY <1>1 DEF Told, PastGenesis
<1>3. Told(o, t)
  BY <1>1, <1>2 DEF Told
<1> QED  BY <1>3 DEF t

(* Mutation by mutation, a candidate is told.                              *)
LEMMA ApplyTold ==
  ASSUME NEW o, Storied(o.base), WellMade(o.manifest), AllTell(o, o.manifest),
         NEW c \in Apply(o.base, o.manifest)
  PROVE  Told(o, c)
<1> DEFINE pred == o.base
<1> DEFINE manifest == o.manifest
<1>1. PICK n \in 0..2 : DOMAIN manifest = 1..n
  BY DEF WellMade
<1>2. Identified(manifest)
  BY Zenon DEF Apply
<1> DEFINE f == CHOOSE iter : iter = Round(pred, manifest, n, iter)
<1>3. Apply(pred, manifest) = f[1..n]
  BY <1>1, <1>2, ApplyIsRound
<1>4. f = Round(pred, manifest, n, f)
  BY <1>1, RoundExists
<1> HIDE DEF f
<1> DEFINE Good == {t \in {Advanced(pred, manifest)} \cup UNION {f[1..k] : k \in 1..n} : Told(o, t)}
<1>5. Advanced(pred, manifest) \in Good
  BY BaseTold, AdvancedTold
<1>6. \A k \in 1..n : \A s \in Good : \A t \in f[1..k] :
        Admits(pred, s, manifest[k]) /\ t = Effect(s, manifest[k]) => t \in Good
  <2> SUFFICES ASSUME NEW k \in 1..n, NEW s \in Good, NEW t \in f[1..k],
                      Admits(pred, s, manifest[k]), t = Effect(s, manifest[k])
               PROVE  t \in Good
    OBVIOUS
  <2>1. Tells(o, manifest[k]) /\ Told(o, s) /\ PastGenesis(o.base.timestamp)
    BY <1>1 DEF AllTell, Storied
  <2>2. Told(o, t)
    BY <2>1, EffectTold
  <2> QED  BY <2>2
<1> HIDE DEF Good
<1>7. f[1..n] \subseteq Good
  <2>1. n \in Nat
    OBVIOUS
  <2> HIDE DEF pred, manifest
  <2> QED  BY <1>4, <1>5, <1>6, <2>1, RoundsStay
<1> QED  BY <1>3, <1>7 DEF Good

(* What a committed offer makes of a state is told.                        *)
LEMMA CommitTold ==
  ASSUME NEW s, NEW o, VerdictFrom(s, o) = "VALID", Made(o), Storied(s)
  PROVE  Told(o, CandidateOf(o))
<1> DEFINE r == [name |-> o.name, base |-> o.base]
<1>1. r.name \in Names /\ r.base = o.base /\ o.manifest = Manifest(r) /\ Uri(r) = Uri(o)
  BY DEF Made, Uri
<1>2. o.base = s
  BY CommittedOnItsBase
<1> HIDE DEF r
<1>3. WellMade(o.manifest)
  BY <1>1, ManifestWellMade
<1>4. AllTell(r, o.manifest)
  BY <1>1, <1>2, ManifestTells DEF Storied
<1>5. AllTell(o, o.manifest)
  BY <1>1, <1>4 DEF AllTell, Tells
<1>6. ProposalOf(o).manifest = o.manifest
  BY DEF ProposalOf
<1>7. Passed(StateApplication(s, {ProposalOf(o)}, CandidateOf(o)))
  BY CommitPassed
<1>8. The({ProposalOf(o)}) = ProposalOf(o)
  BY TheOnly
<1>9. Apply(s, o.manifest) = {CandidateOf(o)}
  BY <1>6, <1>7, <1>8 DEF StateApplication, Or, Passed
<1> QED  BY <1>2, <1>3, <1>5, <1>9, ApplyTold
------------------------------------------------------------------------------
(* A condition that is not contradicted and, if everything is there, not   *)
(* unknown either.                                                         *)
Stands(status, full) == status # "FAIL" /\ (full => status # "UNKNOWN")

(* Conditions that all stand do so combined.                               *)
LEMMA CombineStands ==
  ASSUME NEW statuses, NEW full, \A c \in statuses : Stands(c, full)
  PROVE  Stands(Combine(statuses), full)
  BY DEF Stands, Combine

(* What passed stands.                                                     *)
LEMMA PassedStands == ASSUME NEW status, Passed(status), NEW full PROVE Stands(status, full)
  BY DEF Stands, Passed

(* The same key, at most revoked for later epochs or with its history lost.*)
Agrees(x, y, epoch, full) ==
  /\ y.key = x.key /\ y.from = x.from /\ y.until = x.until /\ y.compromised = x.compromised
  /\ \A e \in y.revoked : epoch < e
  /\ full => y.statusKnown

(* A later trust in which an offer is judged again.                        *)
Later(X, Y, o, full) ==
  /\ X.known /\ Y.known /\ Y.identity = X.identity /\ Y.epoch = X.epoch
  /\ Y.kernels = X.kernels /\ Y.time = X.time
  /\ DOMAIN Y.credentials = DOMAIN X.credentials
  /\ \A p \in DOMAIN X.credentials :
       Agrees(X.credentials[p], Y.credentials[p], o.base.epoch, full)
  /\ \A p \in Evaluators : Lookup(Y.credentials, p) = Lookup(X.credentials, p)
  /\ Lookup(Y.store, Uri(o)) \subseteq {EvidenceOf(o)}
  /\ full => Lookup(Y.store, Uri(o)) # {}

(* A signature is good, bad or unknown.                                    *)
LEMMA SignatureIsStatus ==
  ASSUME NEW kind, NEW payload, NEW signature, NEW credential, NEW epoch
  PROVE  VerifySignature(kind, payload, signature, credential, epoch)
           \in {"PASS", "FAIL", "UNKNOWN"}
  BY DEF VerifySignature, Or

(* A signature that was good for the epoch is not contradicted later.      *)
LEMMA SignatureStands ==
  ASSUME NEW kind, NEW payload, NEW signature, NEW x, NEW y, NEW epoch, NEW full,
         Passed(VerifySignature(kind, payload, signature, {x}, epoch)),
         Agrees(x, y, epoch, full)
  PROVE  Stands(VerifySignature(kind, payload, signature, {y}, epoch), full)
<1>1. The({x}) = x /\ The({y}) = y
  BY TheOnly
<1>2. /\ signature # {} /\ The(signature) = [key |-> x.key, kind |-> kind, over |-> payload]
      /\ epoch >= x.from /\ \A last \in x.until : epoch <= last
      /\ \A e \in x.compromised \cup x.revoked : epoch < e
  BY <1>1, Zenon DEF VerifySignature, Passed, Or
<1>3. /\ epoch >= y.from /\ \A last \in y.until : epoch <= last
      /\ \A e \in y.compromised \cup y.revoked : epoch < e
  BY <1>2 DEF Agrees
<1>4. The(signature) = [key |-> y.key, kind |-> kind, over |-> payload]
  BY <1>2 DEF Agrees
<1> DEFINE good == /\ epoch >= y.from /\ \A last \in y.until : epoch <= last
                   /\ \A e \in y.compromised \cup y.revoked : epoch < e
<1>5. VerifySignature(kind, payload, signature, {y}, epoch) =
        IF ~y.statusKnown THEN "UNKNOWN" ELSE Or(good, "FAIL")
  BY <1>1, <1>2, <1>4, Zenon DEF VerifySignature
<1>6. Or(good, "FAIL") = "PASS"
  BY <1>3 DEF Or
<1> HIDE DEF good
<1> QED  BY <1>5, <1>6 DEF Stands, Agrees

(* So with the key any later trust has for the same principal.             *)
LEMMA KeyStands ==
  ASSUME NEW X, NEW Y, NEW o, NEW full, Later(X, Y, o, full), NEW kind, NEW payload,
         NEW signature, NEW p,
         Passed(VerifySignature(kind, payload, signature, Lookup(X.credentials, p), o.base.epoch))
  PROVE  Stands(VerifySignature(kind, payload, signature, Lookup(Y.credentials, p), o.base.epoch),
                full)
<1>1. p \in DOMAIN X.credentials /\ p \in DOMAIN Y.credentials
  BY DEF VerifySignature, Passed, Lookup, Later
<1>2. /\ Lookup(X.credentials, p) = {X.credentials[p]}
      /\ Lookup(Y.credentials, p) = {Y.credentials[p]}
  BY <1>1 DEF Lookup
<1>3. Agrees(X.credentials[p], Y.credentials[p], o.base.epoch, full)
  BY <1>1 DEF Later
<1> QED  BY <1>2, <1>3, SignatureStands

------------------------------------------------------------------------------
(* The one piece of evidence a proposal depends on.                        *)
One(o) == [id |-> Uri(o), uri |-> Uri(o), digest |-> Digest("EVIDENCE", EvidenceOf(o))]

(* A proposal with provenance depends on that piece alone,                 *)
LEMMA DependsOnOne ==
  ASSUME NEW o, ProposalOf(o).provenance # {}
  PROVE  Dependencies({ProposalOf(o)}) = {One(o)}
<1> DEFINE named == [dependencies |-> <<One(o)>>, citations |-> {Uri(o)}]
<1>1. The({ProposalOf(o)}) = ProposalOf(o)
  BY TheOnly
<1>2. ProposalOf(o).provenance \in {{}, {named}}
  BY DEF ProposalOf, One
<1> HIDE DEF named
<1>3. ProposalOf(o).provenance = {named}
  BY <1>2
<1>4. The(ProposalOf(o).provenance) = named
  BY <1>3, TheOnly
<1>5. Dependencies({ProposalOf(o)}) = ToSet(named.dependencies)
  BY <1>1, <1>3, <1>4 DEF Dependencies
<1>6. ToSet(<<One(o)>>) = {One(o)}
  BY DEF ToSet
<1> QED  BY <1>5, <1>6 DEF named

(* What passes the check of provenance has its evidence at hand.           *)
AtHand(X, o) ==
  /\ ProposalOf(o).provenance # {} /\ Dependencies({ProposalOf(o)}) = {One(o)}
  /\ Lookup(X.store, Uri(o)) = {EvidenceOf(o)}

(* What the rest of that check says, whatever the store holds.             *)
ProvenanceRest(q) ==
  LET p == The(q.provenance)
      deps == Dependencies({q})
      M(i) == q.manifest[i]
      ops == DOMAIN q.manifest
      required == (UNION {M(i).ref : i \in ops}) \cup p.citations
  IN  {Or(M(i).op \in EvidenceOps => M(i).ref # {}, "UNKNOWN") : i \in ops}
      \cup {Or(required \subseteq {d.id : d \in deps}, "UNKNOWN")}
      \cup {Or(\A e \in AcquiredFrom(M(i)) : e # {} /\ e \subseteq {d.uri : d \in deps},
               "UNKNOWN") : i \in ops}
(* Two dependencies of one name are refused.                               *)
Confused(q) == Cardinality({d.id : d \in Dependencies({q})}) # Len(The(q.provenance).dependencies)

(* The check of provenance in these terms.                                 *)
LEMMA ProvenanceShape ==
  ASSUME NEW q, NEW context
  PROVE  CheckProvenance({q}, context) =
           IF q.provenance = {} THEN "UNKNOWN"
           ELSE IF Confused(q) THEN "FAIL"
           ELSE Combine({DependencyStatus(d, context) : d \in Dependencies({q})}
                        \cup ProvenanceRest(q))
<1>1. The({q}) = q
  BY TheOnly
<1>2. ({q} = {} \/ (\A x \in {q} : x.provenance = {})) <=> q.provenance = {}
  OBVIOUS
<1>3. CASE q.provenance = {}
  BY <1>2, <1>3 DEF CheckProvenance
<1>4. CASE q.provenance # {}
  <2> DEFINE p == The(q.provenance)
  <2> DEFINE deps == Dependencies({q})
  <2> DEFINE M(i) == q.manifest[i]
  <2> DEFINE ops == DOMAIN q.manifest
  <2> DEFINE required == (UNION {M(i).ref : i \in ops}) \cup p.citations
  <2> DEFINE A == {DependencyStatus(d, context) : d \in deps}
  <2> DEFINE B == {Or(M(i).op \in EvidenceOps => M(i).ref # {}, "UNKNOWN") : i \in ops}
  <2> DEFINE C == {Or(required \subseteq {d.id : d \in deps}, "UNKNOWN")}
  <2> DEFINE D == {Or(\A e \in AcquiredFrom(M(i)) : e # {} /\ e \subseteq {d.uri : d \in deps},
                      "UNKNOWN") : i \in ops}
  <2>1. CheckProvenance({q}, context) =
          IF Confused(q) THEN "FAIL" ELSE Combine(A \cup B \cup C \cup D)
    BY <1>1, <1>2, <1>4, Zenon DEF CheckProvenance, Confused
  <2>2. ProvenanceRest(q) = B \cup C \cup D
    BY Zenon DEF ProvenanceRest
  <2> HIDE DEF A, B, C, D
  <2>3. A \cup B \cup C \cup D = A \cup ProvenanceRest(q)
    BY <2>2
  <2> QED  BY <1>4, <2>1, <2>3 DEF A
<1> QED  BY <1>3, <1>4

(* A provenance that passed had its evidence in the store,                 *)
LEMMA EvidenceAtHand ==
  ASSUME NEW o, NEW X, Passed(CheckProvenance({ProposalOf(o)}, X))
  PROVE  AtHand(X, o)
<1> DEFINE q == ProposalOf(o)
<1> DEFINE each == {DependencyStatus(d, X) : d \in Dependencies({q})}
<1>1. q.provenance # {} /\ Passed(Combine(each \cup ProvenanceRest(q)))
  <2> HIDE DEF q
  <2> QED  BY ProvenanceShape DEF Passed, q
<1>2. Dependencies({q}) = {One(o)}
  BY <1>1, DependsOnOne
<1>3. Passed(DependencyStatus(One(o), X))
  <2>1. DependencyStatus(One(o), X) \in each
    BY <1>2
  <2> HIDE DEF each
  <2> QED  BY <1>1, <2>1, CombinePassed
<1>4. One(o).uri = Uri(o) /\ One(o).digest = Digest("EVIDENCE", EvidenceOf(o))
  BY DEF One
<1>5. Resolved(X, {Uri(o)}) = Lookup(X.store, Uri(o))
  BY DEF Resolved
<1>6. Lookup(X.store, Uri(o)) = {X.store[Uri(o)]}
  BY <1>3, <1>4, <1>5 DEF DependencyStatus, Passed, Lookup
<1>7. The(Lookup(X.store, Uri(o))) = X.store[Uri(o)]
  BY <1>6, TheOnly
<1>8. Digest("EVIDENCE", EvidenceOf(o)) = Digest("EVIDENCE", X.store[Uri(o)])
  BY <1>3, <1>4, <1>5, <1>6, <1>7 DEF DependencyStatus, Passed, Or
<1>9. EvidenceOf(o) = X.store[Uri(o)]
  BY <1>8 DEF Digest
<1> QED  BY <1>1, <1>2, <1>6, <1>9 DEF AtHand

(* and stands as long as the store does not say otherwise.                 *)
LEMMA ProvenanceStands ==
  ASSUME NEW X, NEW Y, NEW o, NEW full, Later(X, Y, o, full),
         Passed(CheckProvenance({ProposalOf(o)}, X))
  PROVE  Stands(CheckProvenance({ProposalOf(o)}, Y), full)
<1> DEFINE q == ProposalOf(o)
<1>1. /\ q.provenance # {} /\ ~Confused(q)
      /\ Passed(Combine({DependencyStatus(d, X) : d \in Dependencies({q})} \cup ProvenanceRest(q)))
  <2> HIDE DEF q
  <2> QED  BY ProvenanceShape DEF Passed, q
<1>2. \A c \in ProvenanceRest(q) : Stands(c, full)
  <2> DEFINE each == {DependencyStatus(d, X) : d \in Dependencies({q})}
  <2> HIDE DEF each, q
  <2>1. \A c \in each \cup ProvenanceRest(q) : Passed(c)
    BY <1>1, CombinePassed DEF each
  <2> QED  BY <2>1, PassedStands
<1>3. Dependencies({q}) = {One(o)}
  BY <1>1, DependsOnOne
<1>4. Stands(DependencyStatus(One(o), Y), full)
  <2>1. One(o).uri = Uri(o) /\ One(o).digest = Digest("EVIDENCE", EvidenceOf(o))
    BY DEF One
  <2>2. Resolved(Y, {Uri(o)}) = Lookup(Y.store, Uri(o))
    BY DEF Resolved
  <2>3. Lookup(Y.store, Uri(o)) \subseteq {EvidenceOf(o)} /\ (full => Lookup(Y.store, Uri(o)) # {})
    BY DEF Later
  <2>4. CASE Lookup(Y.store, Uri(o)) = {}
    BY <2>1, <2>2, <2>3, <2>4 DEF DependencyStatus, Stands
  <2>5. CASE Lookup(Y.store, Uri(o)) = {EvidenceOf(o)}
    BY <2>5, TheOnly, <2>1, <2>2 DEF DependencyStatus, Stands, Or
  <2> QED  BY <2>3, <2>4, <2>5
<1>5. Stands(Combine({DependencyStatus(d, Y) : d \in Dependencies({q})}
                      \cup ProvenanceRest(q)), full)
  <2> DEFINE each == {DependencyStatus(d, Y) : d \in Dependencies({q})}
  <2>1. \A c \in each \cup ProvenanceRest(q) : Stands(c, full)
    BY <1>2, <1>3, <1>4
  <2> HIDE DEF each, q
  <2>2. Stands(Combine(each \cup ProvenanceRest(q)), full)
    BY <2>1, CombineStands
  <2> QED  BY <2>2 DEF each
<1> HIDE DEF q
<1>6. Stands(CheckProvenance({q}, Y), full)
  BY <1>1, <1>5, ProvenanceShape
<1> QED  BY <1>6 DEF q
------------------------------------------------------------------------------
(* A proposal is of the epoch it was made in.                              *)
LEMMA ProposalIsOfEpoch ==
  ASSUME NEW o
  PROVE  /\ ProposalOf(o).epoch = o.base.epoch /\ ProposalOf(o).manifest = o.manifest
         /\ The({ProposalOf(o)}) = ProposalOf(o)
<1>1. ProposalOf(o).epoch = o.base.epoch /\ ProposalOf(o).manifest = o.manifest
  BY DEF ProposalOf
<1> QED  BY <1>1, TheOnly

(* The signatures and grants of the signers of a proposal.                 *)
SignatureStatuses(q, context) == {SignerStatus(q, x, context) : x \in ToSet(Signers(q))}
GrantStatuses(q, pred) == {Or(Granted(pred, x), "FAIL") : x \in ToSet(Signers(q))}
EligibleFor(q, pred, context, m) ==
  {x \in ToSet(Signers(q)) :
     Granted(pred, x) /\ SignerStatus(q, x, context) = "PASS" /\ InScope(pred, x, m)}
Outnumbered(q, pred, policy, context) ==
  \E i \in DOMAIN q.manifest :
    Cardinality(EligibleFor(q, pred, context, q.manifest[i])) < Threshold(policy, q.manifest[i])
NamedTwice(q) ==
  Cardinality({x.principal : x \in ToSet(Signers(q))}) # Len(Signers(q))

(* The check of authority in these terms.                                  *)
LEMMA AuthorityShape ==
  ASSUME NEW q, NEW pred, NEW policy, NEW context
  PROVE  LET statuses == SignatureStatuses(q, context) \cup GrantStatuses(q, pred) IN
         CheckAuthority({q}, pred, policy, context) =
           IF ToSet(Signers(q)) = {} THEN "UNKNOWN"
           ELSE IF NamedTwice(q) \/ "FAIL" \in statuses THEN "FAIL"
           ELSE IF Outnumbered(q, pred, policy, context)
             THEN IF "UNKNOWN" \in statuses THEN "UNKNOWN" ELSE "FAIL"
           ELSE Combine(statuses)
<1>1. The({q}) = q /\ {q} # {}
  BY TheOnly
<1> QED
  BY <1>1, Zenon DEF CheckAuthority, SignatureStatuses, GrantStatuses, EligibleFor, Outnumbered,
                     NamedTwice

(* Keys revoked for later epochs take no authority from a proposal.        *)
LEMMA AuthorityStands ==
  ASSUME NEW X, NEW Y, NEW o, NEW full, Later(X, Y, o, full), NEW s, NEW policy,
         Passed(CheckAuthority({ProposalOf(o)}, s, policy, X))
  PROVE  Stands(CheckAuthority({ProposalOf(o)}, s, policy, Y), full)
<1> DEFINE q == ProposalOf(o)
<1>0. q.epoch = o.base.epoch
  BY ProposalIsOfEpoch
<1> HIDE DEF q
<1> DEFINE before == SignatureStatuses(q, X) \cup GrantStatuses(q, s)
<1> DEFINE now == SignatureStatuses(q, Y) \cup GrantStatuses(q, s)
<1>1. /\ ToSet(Signers(q)) # {} /\ ~NamedTwice(q) /\ ~Outnumbered(q, s, policy, X)
      /\ Passed(Combine(before))
  <2> HIDE DEF before
  <2>1. CheckAuthority({q}, s, policy, X) =
          IF ToSet(Signers(q)) = {} THEN "UNKNOWN"
          ELSE IF NamedTwice(q) \/ "FAIL" \in before THEN "FAIL"
          ELSE IF Outnumbered(q, s, policy, X)
            THEN IF "UNKNOWN" \in before THEN "UNKNOWN" ELSE "FAIL"
          ELSE Combine(before)
    BY AuthorityShape DEF before
  <2>2. Passed(CheckAuthority({q}, s, policy, X))
    BY DEF q
  <2> QED  BY <2>1, <2>2 DEF Passed
<1>2. \A c \in before : Passed(c)
  <2> HIDE DEF before
  <2> QED  BY <1>1, CombinePassed
<1>3. ASSUME NEW x \in ToSet(Signers(q))
      PROVE  /\ SignerStatus(q, x, X) = "PASS" /\ Stands(SignerStatus(q, x, Y), full)
             /\ SignerStatus(q, x, Y) \in {"PASS", "FAIL", "UNKNOWN"}
  <2>1. Passed(SignerStatus(q, x, X))
    BY <1>2 DEF SignatureStatuses
  <2>2. SignerStatus(q, x, X) = "PASS"
    BY <2>1, SignatureIsStatus DEF SignerStatus, Passed
  <2>3. Stands(SignerStatus(q, x, Y), full)
    BY <1>0, <2>1, KeyStands DEF SignerStatus
  <2> QED  BY <2>2, <2>3, SignatureIsStatus DEF SignerStatus
<1>4. \A c \in now : Stands(c, full)
  BY <1>3, <1>2, PassedStands DEF SignatureStatuses
<1>5. "FAIL" \notin now /\ (full => "UNKNOWN" \notin now)
  BY <1>4 DEF Stands
<1>6. Outnumbered(q, s, policy, Y) => "UNKNOWN" \in now
  <2> SUFFICES ASSUME "UNKNOWN" \notin now PROVE ~Outnumbered(q, s, policy, Y)
    OBVIOUS
  <2>1. \A x \in ToSet(Signers(q)) : SignerStatus(q, x, Y) = "PASS"
    <3>1. ASSUME NEW x \in ToSet(Signers(q)) PROVE SignerStatus(q, x, Y) \in now
      BY DEF SignatureStatuses
    <3> QED  BY <1>3, <1>5, <3>1
  <2>2. \A m : EligibleFor(q, s, Y, m) = EligibleFor(q, s, X, m)
    BY <1>3, <2>1 DEF EligibleFor
  <2> QED  BY <1>1, <2>2, Zenon DEF Outnumbered
<1>7. Stands(Combine(now), full)
  <2> HIDE DEF now
  <2> QED  BY <1>4, CombineStands
<1> HIDE DEF now
<1>8. CheckAuthority({q}, s, policy, Y) =
        IF ToSet(Signers(q)) = {} THEN "UNKNOWN"
        ELSE IF NamedTwice(q) \/ "FAIL" \in now THEN "FAIL"
        ELSE IF Outnumbered(q, s, policy, Y)
          THEN IF "UNKNOWN" \in now THEN "UNKNOWN" ELSE "FAIL"
        ELSE Combine(now)
  BY AuthorityShape DEF now
<1>9. Stands(CheckAuthority({q}, s, policy, Y), full)
  BY <1>1, <1>5, <1>6, <1>7, <1>8 DEF Stands
<1> QED  BY <1>9 DEF q

------------------------------------------------------------------------------
(* A new tombstone.                                                        *)
LEMMA TombstoneStands ==
  ASSUME NEW X, NEW Y, NEW o, NEW full, Later(X, Y, o, full), NEW s, NEW c, NEW policy,
         NEW old, NEW new, new.principal \in Undertakers,
         Passed(TombstoneStatus(old, new, s, c, {ProposalOf(o)}, policy, X))
  PROVE  Stands(TombstoneStatus(old, new, s, c, {ProposalOf(o)}, policy, Y), full)
<1> DEFINE q == ProposalOf(o)
<1> DEFINE Signature(context) ==
      VerifySignature("TOMBSTONE", TombstonePayload({q}, new), new.signature,
        UNION {Lookup(context.credentials, p) : p \in new.principal}, o.base.epoch)
<1> DEFINE bad == \/ new.original # {EventCommitment(old)}
                  \/ new.timestamp # old.timestamp \/ new.epoch # old.epoch
<1> DEFINE nobody == \A p \in new.principal : \A g \in Lookup(s.governance, p) :
                       g.role \notin policy.tombstoneRoles
<1>1. The({q}).epoch = o.base.epoch /\ {q} # {}
  BY ProposalIsOfEpoch
<1>2. ASSUME NEW context
      PROVE  TombstoneStatus(old, new, s, c, {q}, policy, context) =
               IF bad THEN "FAIL" ELSE IF nobody THEN "FAIL" ELSE Signature(context)
  <2> HIDE DEF q
  <2> QED  BY <1>1, Zenon DEF TombstoneStatus
<1> HIDE DEF bad, nobody
<1>3. PICK p : new.principal = {p}
  BY DEF Undertakers
<1>4. ASSUME NEW context
      PROVE  UNION {Lookup(context.credentials, x) : x \in new.principal}
               = Lookup(context.credentials, p)
  BY <1>3
<1>5. ~bad /\ ~nobody /\ Passed(Signature(X))
  <2> HIDE DEF Signature
  <2> QED  BY <1>2 DEF Passed
<1>6. Stands(Signature(Y), full)
  <2> DEFINE payload == TombstonePayload({q}, new)
  <2> DEFINE Key(context) ==
        VerifySignature("TOMBSTONE", payload, new.signature, Lookup(context.credentials, p),
                        o.base.epoch)
  <2>1. Signature(X) = Key(X) /\ Signature(Y) = Key(Y)
    BY <1>4
  <2> HIDE DEF payload, Signature
  <2>2. Passed(Key(X))
    BY <1>5, <2>1
  <2>3. Stands(Key(Y), full)
    BY <2>2, KeyStands
  <2> QED  BY <2>1, <2>3
<1> HIDE DEF Signature
<1> QED  BY <1>2, <1>5, <1>6

(* So whatever became of an old event stands,                              *)
LEMMA OldEventStands ==
  ASSUME NEW X, NEW Y, NEW o, NEW full, Later(X, Y, o, full), NEW s, NEW c, NEW policy,
         NEW old, NEW new, new.tombstone => new.principal \in Undertakers,
         Passed(OldEventStatus(old, new, s, c, {ProposalOf(o)}, policy, X))
  PROVE  Stands(OldEventStatus(old, new, s, c, {ProposalOf(o)}, policy, Y), full)
<1> DEFINE Rest(context) == TombstoneStatus(old, new, s, c, {ProposalOf(o)}, policy, context)
<1>1. CASE ~old.tombstone /\ new.tombstone
  <2>1. Continues(old.annotations, new.annotations) /\ Passed(Rest(X))
    BY <1>1 DEF OldEventStatus, Passed
  <2>2. Stands(Rest(Y), full)
    BY <1>1, <2>1, TombstoneStands
  <2>3. OldEventStatus(old, new, s, c, {ProposalOf(o)}, policy, Y) = Rest(Y)
    BY <1>1, <2>1 DEF OldEventStatus
  <2> HIDE DEF Rest
  <2> QED  BY <2>2, <2>3
<1>2. CASE ~(~old.tombstone /\ new.tombstone)
  BY <1>2, PassedStands DEF OldEventStatus
<1> QED  BY <1>1, <1>2

(* What the later store holds of the offer's evidence is what it held.     *)
LEMMA EvidenceLater ==
  ASSUME NEW X, NEW Y, NEW o, NEW full, Later(X, Y, o, full), AtHand(X, o)
  PROVE  /\ Resolved(X, {Uri(o)}) = {EvidenceOf(o)}
         /\ Resolved(Y, {Uri(o)}) \in {{}, Resolved(X, {Uri(o)})}
         /\ full => Resolved(Y, {Uri(o)}) = Resolved(X, {Uri(o)})
<1>1. ASSUME NEW context PROVE Resolved(context, {Uri(o)}) = Lookup(context.store, Uri(o))
  BY DEF Resolved
<1> QED  BY <1>1 DEF Later, AtHand

(* a new event is no older than its evidence,                              *)
LEMMA NewEventStands ==
  ASSUME NEW X, NEW Y, NEW o, NEW full, Later(X, Y, o, full), AtHand(X, o),
         NEW e, e.evidence = {Uri(o)}, Passed(NewEventStatus(e, X))
  PROVE  Stands(NewEventStatus(e, Y), full)
<1>1. CASE Resolved(Y, {Uri(o)}) = Resolved(X, {Uri(o)})
  BY <1>1, PassedStands DEF NewEventStatus
<1>2. CASE Resolved(Y, {Uri(o)}) = {} /\ ~full
  BY <1>2 DEF NewEventStatus, Stands
<1>3. \/ Resolved(Y, {Uri(o)}) = Resolved(X, {Uri(o)})
      \/ Resolved(Y, {Uri(o)}) = {} /\ ~full
  BY EvidenceLater
<1> QED  BY <1>1, <1>2, <1>3

(* and the check of history stands.                                        *)
LEMMA HistoricalStands ==
  ASSUME NEW X, NEW Y, NEW o, NEW full, Later(X, Y, o, full), AtHand(X, o), NEW s, o.base = s,
         NEW c, \A e \in ToSet(c.chronicle) : EventTold(o, e), NEW policy,
         Passed(CheckHistoricalChronicle(s, c, {ProposalOf(o)}, policy, X))
  PROVE  Stands(CheckHistoricalChronicle(s, c, {ProposalOf(o)}, policy, Y), full)
<1> DEFINE New(old) == CHOOSE e \in ToSet(c.chronicle) : e.id = old.id
<1> DEFINE Status(old, context) ==
      OldEventStatus(old, New(old), s, c, {ProposalOf(o)}, policy, context)
<1> DEFINE Recent == {n \in ToSet(c.chronicle) : n.id \notin ToSet(EventIds(s))}
<1> DEFINE Olds(context) == {Status(old, context) : old \in ToSet(s.chronicle)}
<1> DEFINE News(context) == {NewEventStatus(e, context) : e \in Recent}
<1> DEFINE torn == ~IsInjective(EventIds(c)) \/ ~InOrder(EventIds(s), EventIds(c))
<1>1. ASSUME NEW context
      PROVE  CheckHistoricalChronicle(s, c, {ProposalOf(o)}, policy, context) =
               IF torn THEN "FAIL" ELSE Combine(Olds(context) \cup News(context))
  BY Zenon DEF CheckHistoricalChronicle
<1>2. ~torn /\ Passed(Combine(Olds(X) \cup News(X)))
  <2> HIDE DEF torn, Olds, News
  <2> QED  BY <1>1 DEF Passed
<1>3. \A x \in Olds(X) \cup News(X) : Passed(x)
  <2> HIDE DEF Olds, News
  <2> QED  BY <1>2, CombinePassed
<1>4. ASSUME NEW old \in ToSet(s.chronicle) PROVE Stands(Status(old, Y), full)
  <2>1. Passed(Status(old, X))
    <3> HIDE DEF Status, News
    <3> QED  BY <1>3
  <2>2. old.id \in ToSet(EventIds(c))
    BY <1>2, EventNamed DEF InOrder
  <2>3. Recorded(c, old.id) \in ToSet(c.chronicle) /\ Recorded(c, old.id).id = old.id
    BY <2>2, RecordedThere
  <2>4. New(old) \in ToSet(c.chronicle)
    BY <2>3
  <2>5. New(old).tombstone => New(old).principal \in Undertakers
    <3> HIDE DEF New
    <3> QED  BY <2>4 DEF EventTold
  <2> HIDE DEF New
  <2> QED  BY <2>1, <2>5, OldEventStands
<1>5. ASSUME NEW e \in Recent PROVE Stands(NewEventStatus(e, Y), full)
  <2>1. e.evidence = {Uri(o)}
    BY DEF EventTold
  <2>2. Passed(NewEventStatus(e, X))
    <3> HIDE DEF Olds, Recent
    <3> QED  BY <1>3
  <2> QED  BY <2>1, <2>2, NewEventStands
<1>6. \A x \in Olds(Y) \cup News(Y) : Stands(x, full)
  <2> HIDE DEF Status, Recent
  <2> QED  BY <1>4, <1>5
<1>7. Stands(Combine(Olds(Y) \cup News(Y)), full)
  <2> HIDE DEF Olds, News
  <2> QED  BY <1>6, CombineStands
<1> HIDE DEF torn, Olds, News
<1> QED  BY <1>1, <1>2, <1>7
------------------------------------------------------------------------------
(* A claim of the offer is no older than its evidence,                     *)
LEMMA DatedStands ==
  ASSUME NEW X, NEW Y, NEW o, NEW full, Later(X, Y, o, full), AtHand(X, o), NEW time,
         Passed(NotBefore(Resolved(X, {Uri(o)}), time))
  PROVE  Stands(NotBefore(Resolved(Y, {Uri(o)}), time), full)
<1>1. CASE Resolved(Y, {Uri(o)}) = Resolved(X, {Uri(o)})
  BY <1>1, PassedStands
<1>2. CASE Resolved(Y, {Uri(o)}) = {} /\ ~full
  BY <1>2 DEF NotBefore, Stands
<1>3. \/ Resolved(Y, {Uri(o)}) = Resolved(X, {Uri(o)})
      \/ Resolved(Y, {Uri(o)}) = {} /\ ~full
  BY EvidenceLater
<1> QED  BY <1>1, <1>2, <1>3

(* The claims of a state stand in a later trust.                           *)
ClaimStands(v, Y, full) ==
  v.structured /\ v.claimed # {} => Stands(NotBefore(Resolved(Y, v.evidence), The(v.claimed)), full)

(* and the check of time stands.                                           *)
LEMMA TemporalStands ==
  ASSUME NEW X, NEW Y, NEW o, NEW full, Later(X, Y, o, full), AtHand(X, o), NEW s, o.base = s,
         NEW c, \A e \in ToSet(c.chronicle) : EventTold(o, e),
         \A v \in Range(c.knowledge) : ClaimStands(v, Y, full),
         Passed(CheckTemporal(s, c, X))
  PROVE  Stands(CheckTemporal(s, c, Y), full)
<1> DEFINE claimed == {k \in Range(c.knowledge) : k.structured /\ k.claimed # {}}
<1> DEFINE Recent == {n \in ToSet(c.chronicle) : n.id \notin ToSet(EventIds(s))}
<1> DEFINE Claims(context) ==
      {NotBefore(Resolved(context, k.evidence), The(k.claimed)) : k \in claimed}
<1> DEFINE News(context) == {NotBefore(Resolved(context, e.evidence), e.timestamp) : e \in Recent}
<1> DEFINE Acquired ==
      {Or(\A a \in e.acquired : e.timestamp >= a, "FAIL") : e \in ToSet(c.chronicle)}
<1> DEFINE back == LatestEvent(c) < LatestEvent(s)
<1>1. ASSUME NEW context
      PROVE  CheckTemporal(s, c, context) =
               IF back THEN "FAIL" ELSE Combine(Claims(context) \cup News(context) \cup Acquired)
  BY Zenon DEF CheckTemporal
<1>2. ~back /\ Passed(Combine(Claims(X) \cup News(X) \cup Acquired))
  <2> HIDE DEF back, Claims, News, Acquired
  <2> QED  BY <1>1 DEF Passed
<1>3. \A x \in Claims(X) \cup News(X) \cup Acquired : Passed(x)
  <2> HIDE DEF Claims, News, Acquired
  <2> QED  BY <1>2, CombinePassed
<1>4. \A x \in Claims(Y) : Stands(x, full)
  BY DEF ClaimStands
<1>5. ASSUME NEW e \in Recent PROVE Stands(NotBefore(Resolved(Y, e.evidence), e.timestamp), full)
  <2>1. e.evidence = {Uri(o)}
    BY DEF EventTold
  <2>2. Passed(NotBefore(Resolved(X, e.evidence), e.timestamp))
    <3> HIDE DEF Claims, Recent, Acquired
    <3> QED  BY <1>3
  <2> QED  BY <2>1, <2>2, DatedStands
<1>6. \A x \in News(Y) : Stands(x, full)
  <2> HIDE DEF Recent
  <2> QED  BY <1>5
<1>7. \A x \in Acquired : Stands(x, full)
  <2> HIDE DEF Claims, News, Acquired
  <2> QED  BY <1>3, PassedStands
<1>8. Stands(Combine(Claims(Y) \cup News(Y) \cup Acquired), full)
  <2> HIDE DEF Claims, News, Acquired
  <2>1. \A x \in Claims(Y) \cup News(Y) \cup Acquired : Stands(x, full)
    BY <1>4, <1>6, <1>7
  <2> QED  BY <2>1, CombineStands
<1> HIDE DEF back, Claims, News, Acquired
<1> QED  BY <1>1, <1>2, <1>8

------------------------------------------------------------------------------
(* The evidence a belief was revised on is what it was,                    *)
LEMMA SupportStands ==
  ASSUME NEW X, NEW Y, NEW o, NEW full, Later(X, Y, o, full), AtHand(X, o), NEW key, NEW new,
         Passed(BeliefSupport(key, new, {ProposalOf(o)}, X))
  PROVE  Stands(BeliefSupport(key, new, {ProposalOf(o)}, Y), full)
<1> DEFINE q == ProposalOf(o)
<1> DEFINE deps == {d \in Dependencies({q}) : d.id \in new.ref}
<1> DEFINE Source(context) == Resolved(context, {d.uri : d \in deps})
<1> DEFINE Says(context) ==
      Or(/\ The(Source(context)).identity = The({q}).identity
         /\ The(Source(context)).epoch = The({q}).epoch
         /\ The(Source(context)).revision = {<<key, new.value>>}, "FAIL")
<1>1. ASSUME NEW context
      PROVE  BeliefSupport(key, new, {q}, context) =
               IF new.ref = {} \/ deps = {} \/ Source(context) = {} THEN "UNKNOWN"
               ELSE Says(context)
  <2> HIDE DEF q
  <2> QED  BY Zenon DEF BeliefSupport
<1>2. new.ref # {} /\ deps # {}
  <2> HIDE DEF Source, deps, Says
  <2> QED  BY <1>1 DEF Passed
<1>3. {d.uri : d \in deps} = {Uri(o)}
  <2>1. deps = {One(o)}
    BY <1>2 DEF AtHand
  <2>2. One(o).uri = Uri(o)
    BY DEF One
  <2> HIDE DEF deps
  <2> QED  BY <2>1, <2>2
<1>4. CASE Resolved(Y, {Uri(o)}) = Resolved(X, {Uri(o)})
  <2>1. Source(Y) = Source(X)
    BY <1>3, <1>4
  <2>2. Says(Y) = Says(X)
    <3> HIDE DEF Source
    <3> QED  BY <2>1
  <2> HIDE DEF Source, deps, Says
  <2>3. BeliefSupport(key, new, {q}, Y) = BeliefSupport(key, new, {q}, X)
    BY <1>1, <2>1, <2>2
  <2> QED  BY <2>3, PassedStands
<1>5. CASE Resolved(Y, {Uri(o)}) = {} /\ ~full
  <2>1. Source(Y) = {}
    BY <1>3, <1>5
  <2> HIDE DEF Source, deps, Says
  <2> QED  BY <1>1, <1>5, <2>1 DEF Stands
<1>6. \/ Resolved(Y, {Uri(o)}) = Resolved(X, {Uri(o)})
      \/ Resolved(Y, {Uri(o)}) = {} /\ ~full
  BY EvidenceLater
<1> QED  BY <1>4, <1>5, <1>6

(* and the check of beliefs stands.                                        *)
LEMMA BeliefsStand ==
  ASSUME NEW X, NEW Y, NEW o, NEW full, Later(X, Y, o, full), AtHand(X, o), NEW s, NEW c,
         Passed(CheckBeliefCoherence(s, c, {ProposalOf(o)}, X))
  PROVE  Stands(CheckBeliefCoherence(s, c, {ProposalOf(o)}, Y), full)
<1> DEFINE changed == {k \in DOMAIN c.beliefs : Lookup(s.beliefs, k) # {c.beliefs[k]}}
<1> DEFINE Dated(k) ==
      /\ c.beliefs[k].proposition = k /\ c.beliefs[k].revised = c.epoch
      /\ k \notin DOMAIN s.beliefs => c.beliefs[k].established = c.epoch
<1> DEFINE Dates == {Or(Dated(k), "FAIL") : k \in changed}
<1> DEFINE Grounds(context) ==
      {BeliefSupport(k, c.beliefs[k], {ProposalOf(o)}, context) : k \in changed}
<1> DEFINE erased == \E k \in DOMAIN s.beliefs :
                       ~PriorBeliefKept(s.beliefs[k], Lookup(c.beliefs, k))
<1>1. ASSUME NEW context
      PROVE  CheckBeliefCoherence(s, c, {ProposalOf(o)}, context) =
               IF erased THEN "FAIL" ELSE Combine(Dates \cup Grounds(context))
  BY Zenon DEF CheckBeliefCoherence
<1>2. ~erased /\ Passed(Combine(Dates \cup Grounds(X)))
  <2> HIDE DEF erased, Dates, Grounds
  <2> QED  BY <1>1 DEF Passed
<1>3. \A x \in Dates \cup Grounds(X) : Passed(x)
  <2> HIDE DEF Dates, Grounds
  <2> QED  BY <1>2, CombinePassed
<1>4. \A x \in Dates : Stands(x, full)
  <2> HIDE DEF Dates, Grounds
  <2> QED  BY <1>3, PassedStands
<1>5. \A x \in Grounds(Y) : Stands(x, full)
  <2>1. ASSUME NEW k \in changed
        PROVE  Stands(BeliefSupport(k, c.beliefs[k], {ProposalOf(o)}, Y), full)
    <3>1. Passed(BeliefSupport(k, c.beliefs[k], {ProposalOf(o)}, X))
      <4> HIDE DEF changed, Dates
      <4> QED  BY <1>3
    <3> QED  BY <3>1, SupportStands
  <2> HIDE DEF changed
  <2> QED  BY <2>1
<1>6. Stands(Combine(Dates \cup Grounds(Y)), full)
  <2> HIDE DEF Dates, Grounds
  <2>1. \A x \in Dates \cup Grounds(Y) : Stands(x, full)
    BY <1>4, <1>5
  <2> QED  BY <2>1, CombineStands
<1> HIDE DEF erased, Dates, Grounds
<1> QED  BY <1>1, <1>2, <1>6

------------------------------------------------------------------------------
(* What a relationship's support looks at of a context.                    *)
CitedBy(q, key) ==
  UNION {UNION {m.ref : m \in {n \in ToSet(x.manifest) :
                                 n.op = "UPDATE_TRUST_TIER" /\ n.args.entity = key}} :
           x \in {q}}
(* What the cited sources say of it,                                       *)
Says(q, key, new, c, sources, absent) ==
  LET scoped == {s \in sources : /\ s.records # {} /\ s.identity = The({q}).identity
                                 /\ s.epoch = The({q}).epoch}
      supported == {r.session : r \in {x \in UNION {The(s.records) : s \in scoped} :
                                       Supports(x, key, c)}}
  IN  Combine({CitedStatus(s, key, c, The({q})) : s \in sources}
        \cup {IF absent THEN "UNKNOWN" ELSE Or(ToSet(new.ids) \subseteq supported, "FAIL")})
(* and the dependencies cited, one of them perhaps absent.                 *)
CitedDeps(q, key) == {d \in Dependencies({q}) : d.id \in CitedBy(q, key)}
AbsentFrom(deps, context) == \E d \in deps : d.uri \notin DOMAIN context.store

(* A relationship's support in these terms.                                *)
LEMMA RelationShape ==
  ASSUME NEW q, NEW key, NEW new, NEW c, NEW context
  PROVE  RelationSupport(key, new, c, {q}, context) =
           IF CitedBy(q, key) = {} \/ {d.id : d \in CitedDeps(q, key)} # CitedBy(q, key)
             THEN "UNKNOWN"
           ELSE Says(q, key, new, c, Resolved(context, {d.uri : d \in CitedDeps(q, key)}),
                     AbsentFrom(CitedDeps(q, key), context))
  BY Zenon DEF RelationSupport, CitedBy, CitedDeps, AbsentFrom, Says

(* The sessions that supported a relationship are what they were,          *)
LEMMA RelationStands ==
  ASSUME NEW X, NEW Y, NEW o, NEW full, Later(X, Y, o, full), AtHand(X, o), NEW key, NEW new,
         NEW c, Passed(RelationSupport(key, new, c, {ProposalOf(o)}, X))
  PROVE  Stands(RelationSupport(key, new, c, {ProposalOf(o)}, Y), full)
<1> DEFINE q == ProposalOf(o)
<1> DEFINE deps == CitedDeps(q, key)
<1> DEFINE uris == {d.uri : d \in deps}
<1> DEFINE Absent(context) == AbsentFrom(deps, context)
<1> HIDE DEF q
<1>1. ASSUME NEW context
      PROVE  RelationSupport(key, new, c, {q}, context) =
               IF CitedBy(q, key) = {} \/ {d.id : d \in deps} # CitedBy(q, key) THEN "UNKNOWN"
               ELSE Says(q, key, new, c, Resolved(context, uris), Absent(context))
  BY RelationShape
<1>2. CitedBy(q, key) # {} /\ {d.id : d \in deps} = CitedBy(q, key)
  <2> HIDE DEF deps, uris, Absent
  <2> QED  BY <1>1 DEF Passed, q
<1>3. deps = {One(o)} /\ One(o).uri = Uri(o)
  <2>1. deps # {}
    <3> HIDE DEF deps
    <3> QED  BY <1>2
  <2>2. One(o).uri = Uri(o)
    BY DEF One
  <2> QED  BY <2>1, <2>2 DEF AtHand, q, CitedDeps
<1>4. uris = {Uri(o)} /\ \A context : Absent(context) <=> Uri(o) \notin DOMAIN context.store
  <2> HIDE DEF deps
  <2> QED  BY <1>3 DEF AbsentFrom
<1> HIDE DEF deps, uris, Absent
<1>5. CASE Resolved(Y, {Uri(o)}) = Resolved(X, {Uri(o)})
  <2>1. Lookup(X.store, Uri(o)) # {} /\ Lookup(Y.store, Uri(o)) # {}
    BY <1>5, EvidenceLater DEF Resolved
  <2>2. ~Absent(X) /\ ~Absent(Y)
    BY <1>4, <2>1 DEF Lookup
  <2>3. Resolved(Y, uris) = Resolved(X, uris)
    BY <1>4, <1>5
  <2>4. Absent(X) = Absent(Y)
    BY <1>4, <2>1 DEF Lookup
  <2>5. RelationSupport(key, new, c, {q}, Y) = RelationSupport(key, new, c, {q}, X)
    BY <1>1, <2>3, <2>4, Zenon
  <2> QED  BY <2>5, PassedStands DEF q
<1>6. CASE Resolved(Y, {Uri(o)}) = {} /\ ~full
  <2>1. Resolved(Y, uris) = {}
    BY <1>4, <1>6
  <2>2. Absent(Y)
    BY <1>4, <1>6 DEF Resolved, Lookup
  <2>3. Says(q, key, new, c, {}, TRUE) # "FAIL"
    BY DEF Says, Combine
  <2>4. Absent(Y) = TRUE
    BY <1>4, <2>2
  <2>5. RelationSupport(key, new, c, {q}, Y) = Says(q, key, new, c, {}, TRUE)
    BY <1>1, <1>2, <2>1, <2>4, Zenon
  <2> QED  BY <1>6, <2>3, <2>5 DEF Stands, q
<1>7. \/ Resolved(Y, {Uri(o)}) = Resolved(X, {Uri(o)})
      \/ Resolved(Y, {Uri(o)}) = {} /\ ~full
  BY EvidenceLater
<1> QED  BY <1>5, <1>6, <1>7

(* and the check of relationships stands.                                  *)
LEMMA RelationsStand ==
  ASSUME NEW X, NEW Y, NEW o, NEW full, Later(X, Y, o, full), AtHand(X, o), NEW s, NEW c,
         NEW policy, Passed(CheckRelational(s, c, policy, {ProposalOf(o)}, X))
  PROVE  Stands(CheckRelational(s, c, policy, {ProposalOf(o)}, Y), full)
<1> DEFINE changed == {k \in DOMAIN c.relationships :
                         Lookup(s.relationships, k) # {c.relationships[k]}}
<1> DEFINE Kept(k) ==
      Or(/\ RecordsKept(Lookup(s.relationships, k), c.relationships[k])
         /\ Earned(Lookup(s.relationships, k), c.relationships[k], policy), "FAIL")
<1> DEFINE Supported(k, context) ==
      RelationSupport(k, c.relationships[k], c, {ProposalOf(o)}, context)
<1> DEFINE Status(k, context) == Combine({Kept(k), Supported(k, context)})
<1> DEFINE All(context) == {Status(k, context) : k \in changed}
<1> DEFINE dropped == ~(DOMAIN s.relationships \subseteq DOMAIN c.relationships)
<1>1. ASSUME NEW context
      PROVE  CheckRelational(s, c, policy, {ProposalOf(o)}, context) =
               IF dropped THEN "FAIL" ELSE Combine(All(context))
  BY Zenon DEF CheckRelational
<1>2. ~dropped /\ Passed(Combine(All(X)))
  <2> HIDE DEF dropped, All
  <2> QED  BY <1>1 DEF Passed
<1>3. \A x \in All(X) : Passed(x)
  <2> HIDE DEF All
  <2> QED  BY <1>2, CombinePassed
<1>4. ASSUME NEW k \in changed PROVE Stands(Status(k, Y), full)
  <2> HIDE DEF Kept, Supported, changed
  <2>1. Passed(Combine({Kept(k), Supported(k, X)}))
    BY <1>3
  <2>2. Passed(Kept(k)) /\ Passed(Supported(k, X))
    BY <2>1, CombinePassed
  <2>3. Stands(Kept(k), full)
    BY <2>2, PassedStands
  <2>4. Stands(Supported(k, Y), full)
    BY <2>2, RelationStands DEF Supported
  <2>5. \A x \in {Kept(k), Supported(k, Y)} : Stands(x, full)
    BY <2>3, <2>4
  <2> QED  BY <2>5, CombineStands
<1>5. Stands(Combine(All(Y)), full)
  <2>1. \A x \in All(Y) : Stands(x, full)
    <3> HIDE DEF Status, changed
    <3> QED  BY <1>4
  <2> HIDE DEF All
  <2> QED  BY <2>1, CombineStands
<1> HIDE DEF dropped, All
<1> QED  BY <1>1, <1>2, <1>5
------------------------------------------------------------------------------
(* What an attestation looks at: records, votes and reasons to refuse or wait.*)
RecordsOn(check, w) == {i \in DOMAIN w.records : w.records[i].check = check}
StatusOf(w, context, i) == RecordStatus(w.records[i], w.proposal, context)
Void(check, w, policy, context) ==
  \/ \E i, j \in RecordsOn(check, w) :
       i # j /\ w.records[i].evaluator = w.records[j].evaluator
  \/ \E i \in RecordsOn(check, w) :
       \/ ~RecordBound(w.records[i], w.proposal, policy)
       \/ StatusOf(w, context, i) = "FAIL" \/ ~Fresh(w.records[i], policy, context)
VotesFor(check, w, context, s) ==
  Cardinality({i \in RecordsOn(check, w) :
    StatusOf(w, context, i) = "PASS" /\ w.records[i].status = s})
Decisions(check, w, policy, context) ==
  {s \in {"PASS", "FAIL"} : VotesFor(check, w, context, s) >= policy.quorum}
Open(check, w, policy, context) ==
  \/ Cardinality(Decisions(check, w, policy, context)) # 1 \/ context.time = {}
  \/ \E i \in RecordsOn(check, w) : StatusOf(w, context, i) = "UNKNOWN"

(* The check of an attestation in these terms.                             *)
LEMMA AttestationShape ==
  ASSUME NEW check, NEW w, NEW policy, NEW context
  PROVE  CheckAttestation(check, {w}, policy, context) =
           IF RecordsOn(check, w) = {} THEN "UNKNOWN"
           ELSE IF Void(check, w, policy, context) THEN "FAIL"
           ELSE IF Open(check, w, policy, context) THEN "UNKNOWN"
           ELSE The(Decisions(check, w, policy, context))
<1>1. The({w}) = w /\ {w} # {}
  BY TheOnly
<1> QED
  BY <1>1, ZenonT(60) DEF CheckAttestation, RecordsOn, StatusOf, Void, VotesFor, Decisions, Open

(* Evaluators keep their keys, so an attestation stands.                   *)
LEMMA AttestationStands ==
  ASSUME NEW X, NEW Y, NEW o, NEW full, Later(X, Y, o, full), NEW check, NEW w, NEW policy,
         DOMAIN policy.evaluators = Evaluators,
         Passed(CheckAttestation(check, {w}, policy, X))
  PROVE  Stands(CheckAttestation(check, {w}, policy, Y), full)
<1>1. RecordsOn(check, w) # {} /\ ~Void(check, w, policy, X)
  BY AttestationShape DEF Passed
<1>2. ASSUME NEW i \in RecordsOn(check, w)
      PROVE  StatusOf(w, Y, i) = StatusOf(w, X, i)
  <2> DEFINE r == w.records[i]
  <2>1. RecordBound(r, w.proposal, policy)
    BY <1>1 DEF Void
  <2>2. r.evaluator \in Evaluators
    BY <2>1 DEF RecordBound
  <2>3. Lookup(Y.credentials, r.evaluator) = Lookup(X.credentials, r.evaluator)
    BY <2>2 DEF Later
  <2> HIDE DEF r
  <2>4. RecordStatus(r, w.proposal, Y) = RecordStatus(r, w.proposal, X)
    BY <2>3 DEF RecordStatus
  <2> QED  BY <2>4 DEF StatusOf, r
<1>3. Y.time = X.time
  BY DEF Later
<1>4. \A r : Fresh(r, policy, Y) = Fresh(r, policy, X)
  BY <1>3 DEF Fresh
<1>5. Void(check, w, policy, Y) = Void(check, w, policy, X)
  BY <1>2, <1>4 DEF Void
<1>6. \A s : VotesFor(check, w, Y, s) = VotesFor(check, w, X, s)
  <2>1. ASSUME NEW s
        PROVE  {i \in RecordsOn(check, w) :
                  StatusOf(w, Y, i) = "PASS" /\ w.records[i].status = s}
             = {i \in RecordsOn(check, w) :
                  StatusOf(w, X, i) = "PASS" /\ w.records[i].status = s}
    BY <1>2
  <2> QED  BY <2>1, Zenon DEF VotesFor
<1>7. Decisions(check, w, policy, Y) = Decisions(check, w, policy, X)
  BY <1>6 DEF Decisions
<1>8. Open(check, w, policy, Y) = Open(check, w, policy, X)
  BY <1>2, <1>3, <1>7 DEF Open
<1>9. CheckAttestation(check, {w}, policy, Y) = CheckAttestation(check, {w}, policy, X)
  BY <1>5, <1>7, <1>8, AttestationShape
<1> QED  BY <1>9, PassedStands

------------------------------------------------------------------------------
(* The conditions of the lineage, one by one.                              *)
ScopeStatus(q, context) ==
  IF ~context.known THEN "UNKNOWN"
  ELSE Or(q.identity = context.identity /\ q.epoch = context.epoch, "FAIL")
ReceiptSignature(r, context) ==
  IF ~context.known THEN "UNKNOWN"
  ELSE IF r.kernel \notin context.kernels THEN "FAIL"
  ELSE VerifySignature("COMMIT-RECEIPT", Unsigned(r), r.signature,
         Lookup(context.credentials, r.kernel), r.epoch)

(* The lineage in these terms.                                             *)
LEMMA LineageShape ==
  ASSUME NEW s, NEW c, NEW w, NEW r, w.receipt = {r}, NEW policy, NEW context
  PROVE  Range(LineageConditions(s, c, {w}, policy, context)) =
           { Or(w.proposal.predecessor = StateDigest(s), "FAIL"),
             ScopeStatus(w.proposal, context),
             Or(ReceiptBound(w, c, r), "FAIL"),
             ReceiptSignature(r, context),
             CheckCanonicalHead(w.proposal, c, policy, context) }
<1>1. The({w}) = w /\ {w} # {} /\ The(w.receipt) = r /\ w.receipt # {}
  BY TheOnly
<1> DEFINE a == Or(w.proposal.predecessor = StateDigest(s), "FAIL")
<1> DEFINE b == ScopeStatus(w.proposal, context)
<1> DEFINE d == Or(ReceiptBound(w, c, r), "FAIL")
<1> DEFINE e == ReceiptSignature(r, context)
<1> DEFINE h == CheckCanonicalHead(w.proposal, c, policy, context)
<1>2. LineageConditions(s, c, {w}, policy, context) =
        [lineage_binding |-> a, scope |-> b, receipt_binding |-> d, receipt_signature |-> e,
         canonical_head |-> h]
  BY <1>1, Zenon DEF LineageConditions, ScopeStatus, ReceiptSignature
<1> HIDE DEF a, b, d, e, h
<1>3. Range([lineage_binding |-> a, scope |-> b, receipt_binding |-> d, receipt_signature |-> e,
             canonical_head |-> h]) = {a, b, d, e, h}
  BY DEF Range
<1> QED  BY <1>2, <1>3 DEF a, b, d, e, h

(* Every offer has its receipt.                                            *)
LEMMA ReceiptThere == ASSUME NEW o PROVE \E r : WitnessOf(o).receipt = {r}
  BY DEF WitnessOf

(* The lineage stands if the canonical head does.                          *)
LEMMA LineageStands ==
  ASSUME NEW X, NEW Y, NEW o, NEW full, Later(X, Y, o, full), NEW s, NEW c, NEW policy,
         \A x \in Range(LineageConditions(s, c, {WitnessOf(o)}, policy, X)) : Passed(x),
         Stands(CheckCanonicalHead(ProposalOf(o), c, policy, Y), full)
  PROVE  \A x \in Range(LineageConditions(s, c, {WitnessOf(o)}, policy, Y)) : Stands(x, full)
<1> DEFINE w == WitnessOf(o)
<1>1. PICK r : w.receipt = {r}
  BY ReceiptThere
<1>2. w.proposal = ProposalOf(o)
  BY DEF WitnessOf
<1> HIDE DEF w
<1>3. /\ Passed(Or(w.proposal.predecessor = StateDigest(s), "FAIL"))
      /\ Passed(ScopeStatus(w.proposal, X)) /\ Passed(Or(ReceiptBound(w, c, r), "FAIL"))
      /\ Passed(ReceiptSignature(r, X))
  BY <1>1, LineageShape DEF w
<1>4. ScopeStatus(w.proposal, Y) = ScopeStatus(w.proposal, X)
  BY DEF ScopeStatus, Later
<1>5. r.epoch = o.base.epoch
  BY <1>3, OrPassed, <1>2, ProposalIsOfEpoch DEF ReceiptBound
<1>6. Stands(ReceiptSignature(r, Y), full)
  <2> DEFINE Signature(context) ==
        VerifySignature("COMMIT-RECEIPT", Unsigned(r), r.signature,
                        Lookup(context.credentials, r.kernel), o.base.epoch)
  <2>1. X.known /\ Y.known /\ Y.kernels = X.kernels
    BY DEF Later
  <2>2. r.kernel \in X.kernels /\ Passed(Signature(X))
    BY <1>3, <1>5, <2>1 DEF ReceiptSignature, Passed
  <2>3. Stands(Signature(Y), full)
    BY <2>2, KeyStands
  <2>4. ReceiptSignature(r, Y) = Signature(Y)
    BY <1>5, <2>1, <2>2 DEF ReceiptSignature
  <2> HIDE DEF Signature
  <2> QED  BY <2>3, <2>4
<1>7. \A x \in Range(LineageConditions(s, c, {w}, policy, Y)) : Stands(x, full)
  BY <1>2, <1>3, <1>4, PassedStands, <1>1, <1>6, LineageShape
<1> QED  BY <1>7 DEF w
------------------------------------------------------------------------------
(* A VALID verdict that asks for the lineage had all of it,                *)
LEMMA LineageAsked ==
  ASSUME NEW pred, NEW witness, NEW candidate, NEW policy, NEW context,
         Verdict(pred, witness, candidate, policy, context) = "VALID",
         "I_lin" \in policy.requires
  PROVE  \A x \in Range(LineageConditions(pred, candidate, witness, policy, context)) : Passed(x)
<1>1. Range(LineageConditions(pred, candidate, witness, policy, context))
        \subseteq Conditions(pred, witness, candidate, policy, context)
  BY DEF Conditions
<1> QED  BY <1>1, ValidMeansPassed

(* and what it asks evaluators for was attested.                           *)
LEMMA AttestedPassed ==
  ASSUME NEW pred, NEW witness, NEW candidate, NEW policy, NEW context,
         Verdict(pred, witness, candidate, policy, context) = "VALID",
         NEW name \in Semantics, name \in policy.requires, name \in policy.attested
  PROVE  Passed(CheckAttestation(name, witness, policy, context))
<1>1. CheckAttestation(name, witness, policy, context)
        \in Conditions(pred, witness, candidate, policy, context)
  BY DEF Conditions
<1> QED  BY <1>1, ValidMeansPassed

(* A semantic condition is attested or checked natively.                   *)
SemanticStatus(n, s, w, c, policy, context) ==
  IF n \in policy.attested THEN CheckAttestation(n, {w}, policy, context)
  ELSE NativeCheck(n, s, {w.proposal}, c, policy, context)

(* All conditions of a verdict, when the policy asks for all.              *)
LEMMA ConditionsShape ==
  ASSUME NEW s, NEW w, NEW c, NEW policy, NEW context,
         {"I_lin", "I_auth", "I_prov", "state_application"} \cup Semantics \subseteq policy.requires
  PROVE  Conditions(s, {w}, c, policy, context) =
           Range(LineageConditions(s, c, {w}, policy, context))
           \cup {CheckAuthority({w.proposal}, s, policy, context),
                 CheckProvenance({w.proposal}, context),
                 StateApplication(s, {w.proposal}, c)}
           \cup {SemanticStatus(n, s, w, c, policy, context) : n \in Semantics}
<1>1. {v.proposal : v \in {w}} = {w.proposal}
  OBVIOUS
<1> DEFINE a == CheckAuthority({w.proposal}, s, policy, context)
<1> DEFINE p == CheckProvenance({w.proposal}, context)
<1> DEFINE t == StateApplication(s, {w.proposal}, c)
<1> DEFINE lineage == LineageConditions(s, c, {w}, policy, context)
<1> DEFINE If(n, status) == IF n \in policy.requires THEN status ELSE "PASS"
<1>2. Conditions(s, {w}, c, policy, context) =
        (IF "I_lin" \in policy.requires THEN Range(lineage) ELSE {})
        \cup {If("I_auth", a), If("I_prov", p), If("state_application", t)}
        \cup {If(n, SemanticStatus(n, s, w, c, policy, context)) : n \in Semantics}
  BY <1>1, Zenon DEF Conditions, SemanticStatus
<1> HIDE DEF a, p, t, lineage
<1>3. /\ "I_lin" \in policy.requires /\ If("I_auth", a) = a /\ If("I_prov", p) = p
      /\ If("state_application", t) = t
  OBVIOUS
<1>4. {If(n, SemanticStatus(n, s, w, c, policy, context)) : n \in Semantics}
        = {SemanticStatus(n, s, w, c, policy, context) : n \in Semantics}
  OBVIOUS
<1> HIDE DEF If
<1>5. Conditions(s, {w}, c, policy, context) =
        Range(lineage) \cup {a, p, t}
        \cup {SemanticStatus(n, s, w, c, policy, context) : n \in Semantics}
  BY <1>2, <1>3, <1>4
<1> QED  BY <1>5 DEF a, p, t, lineage

(* What was found VALID is not INVALID in a later trust, and VALID if all is there.*)
LEMMA VerdictStands ==
  ASSUME NEW X, NEW Y, NEW o, NEW full, Later(X, Y, o, full), NEW s, o.base = s, NEW c,
         Verdict(s, {WitnessOf(o)}, c, PolicyOf(o), X) = "VALID",
         \A e \in ToSet(c.chronicle) : EventTold(o, e),
         \A v \in Range(c.knowledge) : ClaimStands(v, Y, full),
         Stands(CheckCanonicalHead(ProposalOf(o), c, PolicyOf(o), Y), full)
  PROVE  /\ Verdict(s, {WitnessOf(o)}, c, PolicyOf(o), Y) # "INVALID"
         /\ full => Verdict(s, {WitnessOf(o)}, c, PolicyOf(o), Y) = "VALID"
<1> DEFINE w == WitnessOf(o)
<1> DEFINE q == ProposalOf(o)
<1> DEFINE policy == PolicyOf(o)
<1>1. w.proposal = q /\ {v.proposal : v \in {w}} = {q}
  BY DEF WitnessOf
<1>2. /\ {"I_lin", "I_auth", "I_prov", "state_application"} \cup Semantics \subseteq policy.requires
      /\ policy.attested \subseteq {"I_bel"} /\ DOMAIN policy.evaluators = Evaluators
  BY DEF PolicyOf, DefaultPolicy, Semantics
<1> HIDE DEF policy
<1>3. Verdict(s, {w}, c, policy, X) = "VALID"
  BY DEF policy
<1> HIDE DEF w
<1>4. /\ Passed(CheckAuthority({q}, s, policy, X)) /\ Passed(CheckProvenance({q}, X))
      /\ Passed(StateApplication(s, {q}, c))
  <2> DEFINE proposal == {v.proposal : v \in {w}}
  <2>1. /\ Passed(CheckAuthority(proposal, s, policy, X)) /\ Passed(CheckProvenance(proposal, X))
        /\ Passed(StateApplication(s, proposal, c))
    BY <1>2, <1>3, OthersPassed
  <2>2. proposal = {q}
    BY <1>1
  <2> HIDE DEF proposal, q
  <2> QED  BY <2>1, <2>2
<1>5. AtHand(X, o)
  BY <1>4, EvidenceAtHand
<1>6. ASSUME NEW n \in Semantics, n \notin policy.attested
      PROVE  Passed(NativeCheck(n, s, {q}, c, policy, X))
  <2> DEFINE proposal == {v.proposal : v \in {w}}
  <2>1. Passed(NativeCheck(n, s, proposal, c, policy, X))
    BY <1>2, <1>3, <1>6, NativePassed
  <2>2. proposal = {q}
    BY <1>1
  <2> HIDE DEF proposal, q
  <2> QED  BY <2>1, <2>2
<1>7. \A x \in Range(LineageConditions(s, c, {w}, policy, Y)) : Stands(x, full)
  BY <1>2, <1>3, LineageAsked, LineageStands DEF policy, w
<1>8. /\ Stands(CheckAuthority({q}, s, policy, Y), full) /\ Stands(CheckProvenance({q}, Y), full)
      /\ Stands(StateApplication(s, {q}, c), full)
  BY <1>4, AuthorityStands, ProvenanceStands, PassedStands
<1>9. ASSUME NEW n \in Semantics
      PROVE  Stands(SemanticStatus(n, s, w, c, policy, Y), full)
  <2>1. CASE n \in policy.attested
    BY <1>2, <1>3, <2>1, AttestedPassed, AttestationStands DEF SemanticStatus
  <2>2. CASE n \notin policy.attested
    <3>1. SemanticStatus(n, s, w, c, policy, Y) = NativeCheck(n, s, {q}, c, policy, Y)
      BY <1>1, <2>2 DEF SemanticStatus
    <3>2. Passed(NativeCheck(n, s, {q}, c, policy, X))
      BY <1>6, <2>2
    <3>3. CASE n = "I_hist"
      BY <1>5, <3>1, <3>2, <3>3, HistoricalStands DEF NativeCheck
    <3>4. CASE n = "I_temp"
      BY <3>2, <3>4, <1>5, TemporalStands, <3>1 DEF NativeCheck
    <3>5. CASE n = "I_bel"
      BY <1>5, <3>1, <3>2, <3>5, BeliefsStand DEF NativeCheck
    <3>6. CASE n = "I_rel"
      BY <1>5, <3>1, <3>2, <3>6, RelationsStand DEF NativeCheck
    <3>7. CASE n = "I_norm"
      BY <3>7, <3>1, <3>2, PassedStands DEF NativeCheck
    <3> QED  BY <3>3, <3>4, <3>5, <3>6, <3>7 DEF Semantics
  <2> QED  BY <2>1, <2>2
<1>10. \A x \in Conditions(s, {w}, c, policy, Y) : Stands(x, full)
  <2> DEFINE a == CheckAuthority({w.proposal}, s, policy, Y)
  <2> DEFINE p == CheckProvenance({w.proposal}, Y)
  <2> DEFINE t == StateApplication(s, {w.proposal}, c)
  <2> DEFINE lineage == Range(LineageConditions(s, c, {w}, policy, Y))
  <2>1. Conditions(s, {w}, c, policy, Y) =
          lineage \cup {a, p, t} \cup {SemanticStatus(n, s, w, c, policy, Y) : n \in Semantics}
    BY <1>2, ConditionsShape
  <2>2. Stands(a, full) /\ Stands(p, full) /\ Stands(t, full)
    BY <1>1, <1>8
  <2>3. \A x \in lineage : Stands(x, full)
    BY <1>7
  <2> HIDE DEF a, p, t, lineage
  <2> QED  BY <1>9, <2>1, <2>2, <2>3
<1>11. /\ Verdict(s, {w}, c, policy, Y) # "INVALID"
       /\ full => Verdict(s, {w}, c, policy, Y) = "VALID"
  BY <1>10 DEF Verdict, Stands
<1> QED  BY <1>11 DEF w, policy
------------------------------------------------------------------------------
(* The greatest of some places of a sequence is there.                     *)
LEMMA GreatestIsThere ==
  ASSUME NEW n \in Nat, NEW I, I \subseteq 1..n, I # {}
  PROVE  Max(I) \in I
<1> DEFINE J == {n - i : i \in I}
<1>1. IsWellFoundedOn({pair \in Nat \X Nat : pair[1] < pair[2]}, Nat)
  BY NatLessThanWellFounded DEF OpToRel
<1>2. J \subseteq Nat /\ J # {} /\ I \subseteq Nat
  <2>1. \A i \in I : i \in Nat /\ n - i \in Nat
    OBVIOUS
  <2>2. J \subseteq Nat
    BY <2>1
  <2>3. J # {} /\ I \subseteq Nat
    BY <2>1
  <2> QED  BY <2>2, <2>3
<1>3. PICK m \in J : \A k \in J : <<k, m>> \notin {pair \in Nat \X Nat : pair[1] < pair[2]}
  <2> HIDE DEF J
  <2> QED  BY <1>1, <1>2, WFMin
<1>4. PICK i \in I : m = n - i
  BY <1>3
<1>5. ASSUME NEW j \in I PROVE i >= j
  <2>1. n - j \in J /\ j \in Nat /\ i \in Nat /\ n - j \in Nat /\ n - i \in Nat
    BY <1>2, <1>4
  <2>2. <<n - j, m>> \in Nat \X Nat => ~(<<n - j, m>>[1] < <<n - j, m>>[2])
    BY <1>3, <2>1
  <2>3. ~(n - j < n - i)
    BY <1>4, <2>1, <2>2
  <2> QED  BY <2>1, <2>3
<1> QED  BY <1>5 DEF Max

(* The offers there are.                                                   *)
Offers == ToSet(log \o pending)

(* They are what was committed and what is pending.                        *)
LEMMA OffersAre ==
  ASSUME LifeInv
  PROVE  /\ \E n \in Nat : DOMAIN (log \o pending) = 1..n
         /\ Offers = ToSet(log) \cup ToSet(pending)
<1>1. PICK S : log \in Seq(S)
  BY DEF LifeInv, LogIsSequence
<1>2. PICK T : pending \in Seq(T)
  BY DEF LifeInv
<1> DEFINE a == log
<1> DEFINE b == pending
<1>3. a \in Seq(S) /\ b \in Seq(T)
  BY <1>1, <1>2
<1> DEFINE c == a \o b
<1> HIDE DEF a, b
<1>4. /\ Len(a) \in Nat /\ Len(b) \in Nat /\ DOMAIN a = 1..Len(a) /\ DOMAIN b = 1..Len(b)
      /\ DOMAIN c = 1..(Len(a) + Len(b))
      /\ \A i \in 1..Len(a) : c[i] = a[i]
      /\ \A i \in 1..(Len(a) + Len(b)) : i > Len(a) => c[i] = b[i - Len(a)]
  BY <1>3
<1>5. \A j \in 1..Len(b) : /\ j + Len(a) \in 1..(Len(a) + Len(b))
                           /\ c[j + Len(a)] = b[j]
  BY <1>4
<1>6. ASSUME NEW i \in 1..(Len(a) + Len(b)) PROVE c[i] \in ToSet(a) \cup ToSet(b)
  <2>1. CASE i <= Len(a)
    <3>1. i \in 1..Len(a)
      BY <1>4, <2>1
    <3>2. c[i] = a[i]
      BY <1>4, <3>1
    <3> HIDE DEF c
    <3> QED  BY <1>4, <3>1, <3>2 DEF ToSet
  <2>2. CASE ~(i <= Len(a))
    <3>1. i - Len(a) \in 1..Len(b) /\ i > Len(a)
      BY <1>4, <2>2
    <3>2. c[i] = b[i - Len(a)]
      BY <1>4, <3>1
    <3>3. b[i - Len(a)] \in ToSet(b)
      BY <1>4, <3>1 DEF ToSet
    <3> HIDE DEF c
    <3> QED  BY <3>2, <3>3
  <2> QED  BY <2>1, <2>2
<1> HIDE DEF c
<1>7. ToSet(c) = ToSet(a) \cup ToSet(b)
  <2>1. ToSet(c) \subseteq ToSet(a) \cup ToSet(b)
    BY <1>4, <1>6 DEF ToSet
  <2>2. ToSet(a) \subseteq ToSet(c)
    BY <1>4 DEF ToSet
  <2>3. ToSet(b) \subseteq ToSet(c)
    BY <1>4, <1>5 DEF ToSet
  <2> QED  BY <2>1, <2>2, <2>3
<1>8. Len(a) + Len(b) \in Nat
  BY <1>4
<1> QED  BY <1>4, <1>7, <1>8 DEF a, b, c, Offers

------------------------------------------------------------------------------
(* What the store returns was stored for an offer of that name of evidence.*)
LEMMA StoreTells ==
  ASSUME LifeInv, NEW uri, uri \in DOMAIN StoreNow
  PROVE  \E p \in Offers : Uri(p) = uri /\ Stored(p) # {} /\ StoreNow[uri] = The(Stored(p))
<1> DEFINE all == log \o pending
<1> DEFINE holding == {i \in DOMAIN all : Stored(all[i]) # {}}
<1> DEFINE mine == {i \in holding : Uri(all[i]) = uri}
<1>1. StoreNow = [u \in {Uri(all[i]) : i \in holding} \ lost |->
                   The(Stored(all[Max({i \in holding : Uri(all[i]) = u})]))]
  BY DEF StoreNow
<1>2. PICK n \in Nat : DOMAIN all = 1..n
  BY OffersAre
<1> HIDE DEF all
<1>3. uri \in {Uri(all[i]) : i \in holding} /\ StoreNow[uri] = The(Stored(all[Max(mine)]))
  BY <1>1
<1>4. mine # {} /\ mine \in SUBSET (1..n)
  BY <1>2, <1>3
<1>5. Max(mine) \in mine
  <2> HIDE DEF mine
  <2> QED  BY <1>4, GreatestIsThere
<1>6. all[Max(mine)] \in ToSet(all)
  <2>1. Max(mine) \in DOMAIN all
    BY <1>5
  <2> HIDE DEF mine
  <2> QED  BY <2>1 DEF ToSet
<1>7. Uri(all[Max(mine)]) = uri /\ Stored(all[Max(mine)]) # {}
  BY <1>5
<1> HIDE DEF mine
<1> QED  BY <1>3, <1>6, <1>7 DEF Offers, all

(* What was stored and not lost is returned.                               *)
LEMMA StoreHolds ==
  ASSUME LifeInv, NEW p \in Offers, Stored(p) # {}, Uri(p) \notin lost
  PROVE  Uri(p) \in DOMAIN StoreNow
<1> DEFINE all == log \o pending
<1> DEFINE holding == {i \in DOMAIN all : Stored(all[i]) # {}}
<1>1. DOMAIN StoreNow = {Uri(all[i]) : i \in holding} \ lost
  BY DEF StoreNow
<1>2. PICK i \in DOMAIN all : p = all[i]
  BY DEF Offers, ToSet
<1> HIDE DEF all
<1> QED  BY <1>1, <1>2

(* The cases whose evidence is not stored, and those where it is not as cited.*)
Unstored == {"D3", "provenance_unavailable"}
Corrupted == {"I10", "provenance", "provenance_and_belief"}

(* What the store has of an offer.                                         *)
LEMMA StoredShape ==
  ASSUME NEW p, Stored(p) # {}
  PROVE  /\ The(Stored(p)).acquired = {p.base.timestamp} /\ p.name \notin Unstored
         /\ p.name \in Corrupted => The(Stored(p)) # EvidenceOf(p)
         /\ p.name \notin Corrupted => The(Stored(p)) = EvidenceOf(p)
<1> DEFINE e == EvidenceOf(p)
<1> DEFINE v == IF p.name \in Corrupted THEN [e EXCEPT !.finding = "corrupted"] ELSE e
<1>1. p.name \notin Unstored /\ Stored(p) = {v}
  BY DEF Stored, Unstored, Corrupted
<1>2. e.acquired = {p.base.timestamp} /\ e.finding = "found"
      /\ {"acquired", "finding"} \subseteq DOMAIN e
  BY DEF EvidenceOf
<1> HIDE DEF e
<1>3. /\ v.acquired = {p.base.timestamp} /\ (p.name \in Corrupted => v # e)
      /\ (p.name \notin Corrupted => v = e)
  <2>1. CASE p.name \in Corrupted
    <3> DEFINE x == [e EXCEPT !.finding = "corrupted"]
    <3>1. x.acquired = e.acquired /\ x.finding = "corrupted"
      BY <1>2
    <3>2. v = x
      BY <2>1
    <3> HIDE DEF x, v
    <3> QED  BY <1>2, <2>1, <3>1, <3>2
  <2>2. CASE p.name \notin Corrupted
    BY <1>2, <2>2
  <2> QED  BY <2>1, <2>2
<1> HIDE DEF v
<1> QED  BY <1>1, <1>3, TheOnly DEF e

(* A name of evidence is of one case.                                      *)
LEMMA SameNamed == ASSUME NEW o, NEW p, Uri(o) = Uri(p) PROVE o.name = p.name
<1>1. Uri(o)[2] = o.name /\ Uri(p)[2] = p.name
  BY DEF Uri
<1> QED  BY <1>1

------------------------------------------------------------------------------
(* What a published head says of its offer.                                *)
LEMMA HeadShape ==
  ASSUME NEW o, HeadOf(o) # {}
  PROVE  \E h : /\ HeadOf(o) = {h} /\ h.identity = ProposalOf(o).identity
                /\ h.epoch = ProposalOf(o).epoch /\ h.parent = ProposalOf(o).predecessor
                /\ h.proposal = ProposalDigest(ProposalOf(o))
                /\ h.successor = StateDigest(CandidateOf(o))
                /\ h.exclusive = {o.name # "head_contradiction"}
                /\ o.name \notin {"D2", "head_missing"}
<1> DEFINE q == ProposalOf(o)
<1> DEFINE c == CandidateOf(o)
<1> DEFINE h == [ identity |-> q.identity, epoch |-> q.epoch, parent |-> q.predecessor,
                  proposal |-> ProposalDigest(q), successor |-> StateDigest(c),
                  exclusive |-> {o.name # "head_contradiction"} ]
<1>1. HeadOf(o) = {h} /\ o.name \notin {"D2", "head_missing"}
  BY DEF HeadOf
<1> HIDE DEF q, c
<1>2. /\ h.identity = q.identity /\ h.epoch = q.epoch /\ h.parent = q.predecessor
      /\ h.proposal = ProposalDigest(q) /\ h.successor = StateDigest(c)
      /\ h.exclusive = {o.name # "head_contradiction"}
  OBVIOUS
<1> HIDE DEF h
<1> QED  BY <1>1, <1>2 DEF q, c

(* The head of now was published for an offer.                             *)
LEMMA HeadTells ==
  ASSUME LifeInv, HeadNow # {}
  PROVE  \E p \in Offers : HeadNow = HeadOf(p)
<1> DEFINE all == log \o pending
<1>1. all # <<>> /\ HeadNow = HeadOf(Last(all))
  BY DEF HeadNow
<1>2. PICK n \in Nat : DOMAIN all = 1..n
  BY OffersAre
<1>3. \E S : all \in Seq(S)
  BY SeqJoins DEF LifeInv, LogIsSequence
<1> HIDE DEF all
<1>4. Last(all) \in ToSet(all)
  BY <1>1, <1>3 DEF Last, ToSet
<1> QED  BY <1>1, <1>4 DEF Offers, all

(* What is archived for an epoch is the head of an offer committed in it.  *)
LEMMA ArchiveTells ==
  ASSUME LifeInv, archive \subseteq DOMAIN log, \A i \in archive : HeadOf(log[i]) # {},
         NEW e \in DOMAIN ArchiveNow
  PROVE  \E i \in archive : log[i].base.epoch = e /\ HeadOf(log[i]) = {ArchiveNow[e]}
<1> DEFINE mine == {i \in archive : log[i].base.epoch = e}
<1>1. mine # {} /\ ArchiveNow[e] = The(HeadOf(log[Max(mine)]))
  BY DEF ArchiveNow
<1>2. PICK S : log \in Seq(S)
  BY DEF LifeInv, LogIsSequence
<1>3. Len(log) \in Nat /\ mine \in SUBSET (1..Len(log))
  BY <1>2
<1>4. Max(mine) \in mine
  <2> HIDE DEF mine
  <2> QED  BY <1>1, <1>3, GreatestIsThere
<1>5. PICK i : i = Max(mine)
  OBVIOUS
<1>6. i \in archive /\ log[i].base.epoch = e
  BY <1>4, <1>5
<1> HIDE DEF mine
<1>7. PICK h : HeadOf(log[i]) = {h}
  BY <1>6, HeadShape
<1>8. ArchiveNow[e] = h
  BY <1>1, <1>5, <1>7, TheOnly
<1> QED  BY <1>6, <1>7, <1>8
------------------------------------------------------------------------------
(* What the verifier trusted when it found a committed offer VALID.        *)
Judged(X, o) ==
  /\ PastGenesis(o.base.timestamp) /\ Told(o, CandidateOf(o))
  /\ X.known /\ X.identity = Identity /\ X.epoch = o.base.epoch /\ X.kernels = {"kernel"}
  /\ X.time = {o.base.timestamp + 2} /\ DOMAIN X.credentials = Principals
  /\ \A p \in Principals : LET x == X.credentials[p] IN
       /\ x.key = p /\ x.from = 0 /\ x.until = {} /\ x.compromised = {}
       /\ p \in Evaluators => x = PlainCredential(p)
  /\ Verdict(o.base, {WitnessOf(o)}, CandidateOf(o), PolicyOf(o), X) = "VALID"

(* An offer that is committed has none of these faults.                    *)
Sound(o) ==
  /\ ProposalOf(o).identity = Identity /\ "gov1" \in ToSet(SignersOf(o.name))
  /\ Stored(o) = {EvidenceOf(o)}
  /\ HeadOf(o) # {} /\ o.name # "head_contradiction"

(* A claim has evidence of a committed offer, no younger than the claim.   *)
BackedBy(v, offers) ==
  v.structured =>
    /\ v.claimed # {}
    /\ \E j \in DOMAIN offers : /\ v.evidence = {Uri(offers[j])}
                                /\ The(v.claimed) >= offers[j].base.timestamp
BackedIn(s, offers) == \A k \in DOMAIN s.knowledge : BackedBy(s.knowledge[k], offers)

(* The inductive invariant: every committed offer is sound and was judged VALID.*)
HistInv ==
  /\ LifeInv /\ Storied(state) /\ state.governance = Genesis.governance
  /\ BackedIn(state, log)
  /\ \A i \in DOMAIN pending : PastGenesis(pending[i].base.timestamp)
  /\ (\A r \in revoked : r[1] \in {"gov1", "kernel"}) /\ unclear \subseteq {"gov1"}
  /\ archive \subseteq DOMAIN log
  /\ \A i \in DOMAIN log : Sound(log[i]) /\ BackedIn(CandidateOf(log[i]), log)
                           /\ \E X : Judged(X, log[i])

------------------------------------------------------------------------------
(* What trust is left in a key: it changes only by revocation or lost history.*)
LEMMA CredentialsShape ==
  ASSUME HistInv, NEW p \in Principals
  PROVE  LET x == CredentialsNow[p] IN
         /\ x.key = p /\ x.from = 0 /\ x.until = {} /\ x.compromised = {}
         /\ x.statusKnown = (p \notin unclear)
         /\ x.revoked = {r[2] : r \in {y \in revoked : y[1] = p}}
         /\ p \in Evaluators => x = PlainCredential(p)
<1> DEFINE known == p \notin unclear
<1> DEFINE bad == {r[2] : r \in {y \in revoked : y[1] = p}}
<1> DEFINE x == [PlainCredential(p) EXCEPT !.statusKnown = known, !.revoked = bad]
<1>1. CredentialsNow[p] = x
  BY DEF CredentialsNow
<1> HIDE DEF known, bad
<1>2. /\ x.key = p /\ x.from = 0 /\ x.until = {} /\ x.compromised = {}
      /\ x.statusKnown = known /\ x.revoked = bad
  BY DEF PlainCredential
<1>3. ASSUME p \in Evaluators PROVE x = PlainCredential(p)
  <2>1. p \notin {"gov1", "kernel"}
    BY <1>3 DEF Evaluators
  <2>2. known = TRUE /\ bad = {}
    BY <2>1 DEF HistInv, known, bad
  <2> DEFINE plain == PlainCredential(p)
  <2>3. /\ plain = [i \in DOMAIN plain |-> plain[i]]
        /\ plain.statusKnown = TRUE /\ plain.revoked = {}
    BY DEF PlainCredential
  <2> HIDE DEF plain
  <2>4. [plain EXCEPT !.statusKnown = TRUE] = plain
    BY <2>3
  <2>5. [plain EXCEPT !.revoked = {}] = plain
    BY <2>3
  <2>6. [plain EXCEPT !.statusKnown = TRUE, !.revoked = {}]
          = [[plain EXCEPT !.statusKnown = TRUE] EXCEPT !.revoked = {}]
    OBVIOUS
  <2>7. [plain EXCEPT !.statusKnown = known, !.revoked = bad] = plain
    BY <2>2, <2>4, <2>5, <2>6
  <2> QED  BY <2>7 DEF plain
<1> HIDE DEF x
<1> QED  BY <1>1, <1>2, <1>3 DEF known, bad

(* No key is ever dropped.                                                 *)
LEMMA CredentialsDomain == DOMAIN CredentialsNow = Principals
  BY DEF CredentialsNow

(* What the verifier trusts now.                                           *)
LEMMA ContextFields ==
  ASSUME NEW s
  PROVE  LET X == ContextAt(s) IN
         /\ X.known = TRUE /\ X.identity = Identity /\ X.epoch = s.epoch
         /\ X.credentials = CredentialsNow /\ X.kernels = {"kernel"} /\ X.head = HeadNow
         /\ X.archive = ArchiveNow /\ X.store = StoreNow /\ X.time = {s.timestamp + 2}
<1> DEFINE c == CredentialsNow
<1> DEFINE h == HeadNow
<1> DEFINE a == ArchiveNow
<1> DEFINE t == StoreNow
<1> HIDE DEF c, h, a, t
<1>1. ContextAt(s) = [ known |-> TRUE, identity |-> Identity, epoch |-> s.epoch,
        credentials |-> c, kernels |-> {"kernel"}, head |-> h,
        archive |-> a, store |-> t, time |-> {s.timestamp + 2} ]
  BY DEF ContextAt, c, h, a, t
<1> QED  BY <1>1 DEF c, h, a, t

(* One more offer takes no backing away.                                   *)
LEMMA BackedGrows ==
  ASSUME NEW s, NEW S, NEW offers \in Seq(S), BackedIn(s, offers), NEW o
  PROVE  BackedIn(s, Append(offers, o))
<1> DEFINE more == Append(offers, o)
<1>1. \A j \in DOMAIN offers : j \in DOMAIN more /\ more[j] = offers[j]
  OBVIOUS
<1> HIDE DEF more
<1>2. BackedIn(s, more)
  BY <1>1 DEF BackedIn, BackedBy
<1> QED  BY <1>2 DEF more

------------------------------------------------------------------------------
(* What a VALID verdict says of the head it was judged by.                 *)
LEMMA HeadPassed ==
  ASSUME NEW q, NEW c, NEW policy, policy.canonicalHead, NEW X,
         Passed(CheckCanonicalHead(q, c, policy, X))
  PROVE  \E h \in Lookup(X.archive, q.epoch) \cup X.head :
           h.proposal = ProposalDigest(q) /\ h.exclusive = {TRUE}
<1> DEFINE archived == Lookup(X.archive, q.epoch)
<1> DEFINE evidence == IF archived # {} THEN archived ELSE X.head
<1> DEFINE h == The(evidence)
<1>1. /\ evidence # {} /\ h.proposal = ProposalDigest(q) /\ h.exclusive = {TRUE}
  <2> HIDE DEF archived
  <2> QED  BY Zenon DEF CheckCanonicalHead, Passed, Or, archived
<1>2. h \in evidence
  BY <1>1 DEF The
<1> HIDE DEF h
<1> QED  BY <1>1, <1>2

(* Two offers of one proposal that names its evidence are the same case.   *)
LEMMA SameProposal ==
  ASSUME NEW o, NEW p, ProposalOf(o).provenance # {},
         ProposalDigest(ProposalOf(p)) = ProposalDigest(ProposalOf(o))
  PROVE  p.name = o.name
<1>1. ProposalOf(p) = ProposalOf(o)
  BY DEF ProposalDigest, Digest
<1>2. Dependencies({ProposalOf(o)}) = {One(o)} /\ Dependencies({ProposalOf(p)}) = {One(p)}
  BY <1>1, DependsOnOne
<1>3. One(p) = One(o)
  BY <1>1, <1>2
<1>4. One(p).id = Uri(p) /\ One(o).id = Uri(o)
  BY DEF One
<1> QED  BY <1>3, <1>4, SameNamed

(* The scope and the head of a VALID offer passed.                         *)
LEMMA LineageParts ==
  ASSUME NEW s, NEW o, VerdictFrom(s, o) = "VALID"
  PROVE  /\ Passed(ScopeStatus(ProposalOf(o), ContextAt(s)))
         /\ Passed(CheckCanonicalHead(ProposalOf(o), CandidateOf(o), PolicyOf(o), ContextAt(s)))
<1> DEFINE w == WitnessOf(o)
<1> DEFINE X == ContextAt(s)
<1> DEFINE c == CandidateOf(o)
<1> DEFINE policy == PolicyOf(o)
<1>1. PICK r : w.receipt = {r}
  BY ReceiptThere
<1>2. w.proposal = ProposalOf(o)
  BY DEF WitnessOf
<1>3. Verdict(s, {w}, c, policy, X) = "VALID" /\ "I_lin" \in policy.requires
  BY PolicyInForce DEF VerdictFrom
<1> HIDE DEF w, X, c, policy
<1>4. \A x \in Range(LineageConditions(s, c, {w}, policy, X)) : Passed(x)
  BY <1>3, LineageAsked
<1>5. /\ ScopeStatus(w.proposal, X) \in Range(LineageConditions(s, c, {w}, policy, X))
      /\ CheckCanonicalHead(w.proposal, c, policy, X)
           \in Range(LineageConditions(s, c, {w}, policy, X))
  BY <1>1, LineageShape
<1> QED  BY <1>2, <1>4, <1>5 DEF X, c, policy

(* Without the governor, an outsider signs.                                *)
LEMMA OutsiderSigns ==
  ASSUME NEW o, "gov1" \notin ToSet(SignersOf(o.name)), Signers(ProposalOf(o)) # <<>>
  PROVE  \E x \in ToSet(Signers(ProposalOf(o))) : x.principal = "outsider"
<1>1. SignersOf(o.name) = <<"outsider">>
  BY DEF ToSet, SignersOf
<1>2. PICK f : /\ ProposalOf(o).authority = {} \/ ProposalOf(o).authority = {f}
               /\ DOMAIN f = DOMAIN SignersOf(o.name)
               /\ \A i \in DOMAIN f : f[i].principal = SignersOf(o.name)[i]
  <2> DEFINE q == [ identity |-> IF o.name = "scope" THEN "other" ELSE Identity,
             epoch |-> o.base.epoch,
             predecessor |-> IF o.name \in {"I8", "lineage_binding"} THEN Digest("OTHER", "stale")
                             ELSE StateDigest(o.base),
             manifest |-> o.manifest, authority |-> {},
             provenance |-> IF o.name \in {"D1", "provenance_missing", "unknown_and_invalid"}
               THEN {}
               ELSE {[ dependencies |-> <<[id |-> Uri(o), uri |-> Uri(o),
                                          digest |-> Digest("EVIDENCE", EvidenceOf(o))]>>,
                       citations |-> {Uri(o)} ]} ]
  <2> DEFINE Blank(p) == [ principal |-> p, scope |-> "ALL_MUTATIONS", signature |-> {},
                           role |-> IF p = "runtime" THEN "RUNTIME" ELSE "IDENTITY_CUSTODIAN" ]
  <2> DEFINE Signature(p) == Sign(p, "AUTHORITY", AuthorityPayload(q, Blank(p)))
  <2> DEFINE Signed(p) == [Blank(p) EXCEPT !.signature = Signature(p)]
  <2> DEFINE names == SignersOf(o.name)
  <2> DEFINE f == [i \in DOMAIN names |-> Signed(names[i])]
  <2> HIDE DEF names
  <2>1. ProposalOf(o) = [q EXCEPT !.authority = IF o.name = "authority_missing" THEN {} ELSE {f}]
    BY Zenon DEF ProposalOf, names
  <2> HIDE DEF Signature
  <2>2. ASSUME NEW p PROVE Signed(p).principal = p
    OBVIOUS
  <2> HIDE DEF Signed
  <2>3. DOMAIN f = DOMAIN names /\ \A i \in DOMAIN f : f[i].principal = names[i]
    BY <2>2
  <2> HIDE DEF f
  <2>4. ProposalOf(o).authority = {} \/ ProposalOf(o).authority = {f}
    BY <2>1
  <2> QED  BY <2>3, <2>4 DEF names
<1>3. Signers(ProposalOf(o)) = f
  BY <1>2, TheOnly DEF Signers
<1>4. DOMAIN <<"outsider">> = {1} /\ <<"outsider">>[1] = "outsider"
  OBVIOUS
<1>5. 1 \in DOMAIN f /\ f[1].principal = "outsider"
  BY <1>1, <1>2, <1>4
<1> QED  BY <1>3, <1>5 DEF ToSet
------------------------------------------------------------------------------
(* A committed offer is a sound case: its evidence was stored as it is,    *)
(* its head finished and exclusive, its identity the right one, and one of *)
(* the governors has signed.                                               *)
LEMMA CommitIsSound ==
  ASSUME HistInv, NEW o, VerdictFrom(state, o) = "VALID"
  PROVE  Sound(o)
<1> DEFINE q == ProposalOf(o)
<1> DEFINE X == ContextAt(state)
<1>1. AtHand(X, o)
  BY CommitPassed, EvidenceAtHand
<1>2. /\ X.known /\ X.identity = Identity /\ X.store = StoreNow /\ X.archive = ArchiveNow
      /\ X.head = HeadNow
  BY ContextFields
<1>3. LifeInv /\ archive \subseteq DOMAIN log /\ \A i \in archive : HeadOf(log[i]) # {}
  BY DEF HistInv, Sound
<1>4. q.identity = Identity
  <2>1. Passed(ScopeStatus(q, X))
    BY LineageParts
  <2> HIDE DEF q, X
  <2> QED  BY <1>2, <2>1, OrPassed DEF ScopeStatus
<1>5. "gov1" \in ToSet(SignersOf(o.name))
  <2> SUFFICES ASSUME "gov1" \notin ToSet(SignersOf(o.name)) PROVE FALSE
    OBVIOUS
  <2> DEFINE grants == GrantStatuses(q, state)
  <2> DEFINE all == SignatureStatuses(q, X) \cup grants
  <2>1. ToSet(Signers(q)) # {} /\ Passed(Combine(all))
    <3>1. Passed(CheckAuthority({q}, state, PolicyOf(o), X))
      BY CommitPassed
    <3> HIDE DEF q, X
    <3>2. CheckAuthority({q}, state, PolicyOf(o), X) =
            IF ToSet(Signers(q)) = {} THEN "UNKNOWN"
            ELSE IF NamedTwice(q) \/ "FAIL" \in all THEN "FAIL"
            ELSE IF Outnumbered(q, state, PolicyOf(o), X)
              THEN IF "UNKNOWN" \in all THEN "UNKNOWN" ELSE "FAIL"
            ELSE Combine(all)
      BY AuthorityShape
    <3> HIDE DEF all
    <3> QED  BY <3>1, <3>2 DEF Passed
  <2>2. Signers(q) # <<>>
    BY <2>1 DEF ToSet
  <2>3. PICK x \in ToSet(Signers(q)) : x.principal = "outsider"
    BY <2>2, OutsiderSigns
  <2> HIDE DEF q
  <2>4. Passed(Or(Granted(state, x), "FAIL"))
    <3>1. Or(Granted(state, x), "FAIL") \in all
      BY DEF GrantStatuses
    <3> HIDE DEF all
    <3> QED  BY <2>1, <3>1, CombinePassed
  <2>5. "outsider" \in DOMAIN state.governance
    BY <2>3, <2>4 DEF Or, Passed, Granted, Lookup
  <2>6. DOMAIN state.governance = {"gov1", "gov2", "runtime"}
    BY DEF HistInv, Genesis, Governors
  <2> QED  BY <2>5, <2>6
<1>6. Stored(o) = {EvidenceOf(o)}
  <2>1. Uri(o) \in DOMAIN StoreNow /\ StoreNow[Uri(o)] = EvidenceOf(o)
    BY <1>1, <1>2 DEF AtHand, Lookup
  <2>2. PICK p \in Offers : /\ Uri(p) = Uri(o) /\ Stored(p) # {}
                            /\ StoreNow[Uri(o)] = The(Stored(p))
    BY <1>3, <2>1, StoreTells
  <2>3. p.name = o.name
    BY <2>2, SameNamed
  <2>4. The(Stored(p)) = EvidenceOf(o) /\ EvidenceOf(o).finding = "found"
    BY <2>1, <2>2 DEF EvidenceOf
  <2>5. p.name \notin Unstored /\ p.name \notin Corrupted
    <3>1. ASSUME p.name \in Corrupted PROVE FALSE
      <4> DEFINE e == EvidenceOf(p)
      <4>1. The(Stored(p)) = [e EXCEPT !.finding = "corrupted"]
        <5>1. p.name \notin Unstored /\ Stored(p) = {[e EXCEPT !.finding = "corrupted"]}
          BY <2>2, <3>1 DEF Stored, Unstored, Corrupted
        <5> HIDE DEF e
        <5> QED  BY <5>1, TheOnly
      <4>2. [e EXCEPT !.finding = "corrupted"].finding = "corrupted"
        BY DEF EvidenceOf
      <4> HIDE DEF e
      <4> QED  BY <2>4, <4>1, <4>2
    <3>2. p.name \notin Unstored
      BY <2>2, StoredShape
    <3> QED  BY <3>1, <3>2
  <2> QED  BY <2>3, <2>5 DEF Stored, Unstored, Corrupted
<1>7. HeadOf(o) # {} /\ o.name # "head_contradiction"
  <2>1. PICK h \in Lookup(X.archive, q.epoch) \cup X.head :
          h.proposal = ProposalDigest(q) /\ h.exclusive = {TRUE}
    <3>1. Passed(CheckCanonicalHead(q, CandidateOf(o), PolicyOf(o), X))
      BY LineageParts
    <3>2. PolicyOf(o).canonicalHead
      BY DEF PolicyOf, DefaultPolicy
    <3> HIDE DEF q, X
    <3> QED  BY <3>1, <3>2, HeadPassed
  <2>2. \E p : HeadOf(p) = {h}
    <3>1. CASE h \in Lookup(ArchiveNow, q.epoch)
      BY <3>1, <1>3, ArchiveTells DEF Lookup
    <3>2. CASE h \in HeadNow
      <4>1. PICK p \in Offers : HeadNow = HeadOf(p)
        BY <1>3, <3>2, HeadTells
      <4>2. PICK x : HeadOf(p) = {x}
        BY <3>2, <4>1, HeadShape
      <4> QED  BY <3>2, <4>1, <4>2
    <3> QED  BY <1>2, <2>1, <3>1, <3>2
  <2>3. PICK p : HeadOf(p) = {h}
    BY <2>2
  <2>4. /\ h.proposal = ProposalDigest(ProposalOf(p))
        /\ h.exclusive = {p.name # "head_contradiction"}
        /\ p.name \notin {"D2", "head_missing"}
    BY <2>3, HeadShape
  <2>5. p.name = o.name
    BY <1>1, <2>1, <2>4, SameProposal DEF AtHand
  <2> QED  BY <2>1, <2>4, <2>5 DEF HeadOf
<1> QED  BY <1>4, <1>5, <1>6, <1>7 DEF Sound

(* and it was judged by the trust of its time.                             *)
LEMMA CommitIsJudged ==
  ASSUME HistInv, NEW o, VerdictFrom(state, o) = "VALID", Made(o)
  PROVE  Judged(ContextAt(state), o)
<1> DEFINE X == ContextAt(state)
<1>1. o.base = state
  BY CommittedOnItsBase
<1>2. /\ X.known /\ X.identity = Identity /\ X.epoch = o.base.epoch /\ X.kernels = {"kernel"}
      /\ X.time = {o.base.timestamp + 2} /\ X.credentials = CredentialsNow
  BY <1>1, ContextFields
<1>3. PastGenesis(o.base.timestamp) /\ Told(o, CandidateOf(o))
  BY <1>1, CommitTold DEF HistInv, Storied
<1>4. Verdict(o.base, {WitnessOf(o)}, CandidateOf(o), PolicyOf(o), X) = "VALID"
  BY <1>1 DEF VerdictFrom
<1> HIDE DEF X
<1> QED
  BY <1>2, <1>3, <1>4, CredentialsDomain, CredentialsShape DEF Judged, X

------------------------------------------------------------------------------
(* Every offer was made after the genesis.                                 *)
LEMMA OffersPast == ASSUME HistInv, NEW p \in Offers PROVE PastGenesis(p.base.timestamp)
<1>1. CASE p \in ToSet(log)
  <2>1. PICK i \in DOMAIN log : p = log[i]
    BY <1>1 DEF ToSet
  <2> QED  BY <2>1 DEF HistInv, Judged
<1>2. CASE p \in ToSet(pending)
  <2>1. PICK i \in DOMAIN pending : p = pending[i]
    BY <1>2 DEF ToSet
  <2> QED  BY <2>1 DEF HistInv
<1> QED  BY <1>1, <1>2, OffersAre DEF HistInv

(* What a claim cites was acquired for an offer of the past.               *)
LEMMA ClaimDated ==
  ASSUME HistInv, NEW s, NEW uri, NEW time, Passed(NotBefore(Resolved(ContextAt(s), {uri}), time))
  PROVE  \E p \in Offers : Uri(p) = uri /\ time >= p.base.timestamp
<1> DEFINE X == ContextAt(s)
<1>1. Resolved(X, {uri}) = Lookup(StoreNow, uri)
  <2>1. X.store = StoreNow
    BY ContextFields
  <2> HIDE DEF X
  <2> QED  BY <2>1 DEF Resolved
<1> HIDE DEF X
<1>2. uri \in DOMAIN StoreNow /\ Lookup(StoreNow, uri) = {StoreNow[uri]}
  BY <1>1 DEF NotBefore, Passed, Lookup, X
<1>3. PICK p \in Offers : Uri(p) = uri /\ Stored(p) # {} /\ StoreNow[uri] = The(Stored(p))
  BY <1>2, StoreTells DEF HistInv
<1>4. The(Stored(p)).acquired = {p.base.timestamp}
  BY <1>3, StoredShape
<1>5. The(Resolved(X, {uri})).acquired = {p.base.timestamp}
  BY <1>1, <1>2, <1>3, <1>4, TheOnly
<1>6. The({p.base.timestamp}) = p.base.timestamp
  BY TheOnly
<1>7. time >= p.base.timestamp
  BY <1>5, <1>6 DEF NotBefore, Passed, Or, X
<1> QED  BY <1>3, <1>7

(* A claim that is let in has evidence of what is committed with it.       *)
LEMMA CommitIsBacked ==
  ASSUME HistInv, NEW o, VerdictFrom(state, o) = "VALID", Made(o)
  PROVE  BackedIn(CandidateOf(o), Append(log, o))
<1> DEFINE c == CandidateOf(o)
<1> DEFINE X == ContextAt(state)
<1> DEFINE more == Append(log, o)
<1>1. o.base = state /\ Told(o, c)
  BY CommittedOnItsBase, CommitTold DEF HistInv
<1>2. PICK S : log \in Seq(S)
  BY DEF HistInv, LifeInv, LogIsSequence
<1>3. /\ \A j \in DOMAIN log : j \in DOMAIN more /\ more[j] = log[j]
      /\ \E j \in DOMAIN more : more[j] = o
  BY <1>2
<1> HIDE DEF more
<1>4. Passed(CheckTemporal(state, c, X))
  <2> DEFINE proposal == {w.proposal : w \in {WitnessOf(o)}}
  <2>1. "I_temp" \in Semantics /\ "I_temp" \in PolicyOf(o).requires
        /\ "I_temp" \notin PolicyOf(o).attested
    BY DEF PolicyOf, DefaultPolicy, Semantics
  <2>2. Passed(NativeCheck("I_temp", state, proposal, c, PolicyOf(o), X))
    BY <2>1, NativePassed DEF VerdictFrom
  <2> HIDE DEF X, c, proposal
  <2> QED  BY <2>2 DEF NativeCheck
<1> HIDE DEF X, c
<1>5. ASSUME NEW k \in DOMAIN c.knowledge, c.knowledge[k].structured, c.knowledge[k].claimed # {}
      PROVE  Passed(NotBefore(Resolved(X, c.knowledge[k].evidence), The(c.knowledge[k].claimed)))
  <2> DEFINE claims == {v \in Range(c.knowledge) : v.structured /\ v.claimed # {}}
  <2> DEFINE dates == {NotBefore(Resolved(X, v.evidence), The(v.claimed)) : v \in claims}
  <2>1. \E rest : Passed(Combine(dates \cup rest))
    <3> DEFINE events == ToSet(c.chronicle)
    <3> DEFINE oldIds == ToSet(EventIds(state))
    <3> DEFINE news == {NotBefore(Resolved(X, e.evidence), e.timestamp) :
                          e \in {n \in events : n.id \notin oldIds}}
    <3> DEFINE acquired == {Or(\A a \in e.acquired : e.timestamp >= a, "FAIL") : e \in events}
    <3> DEFINE back == LatestEvent(c) < LatestEvent(state)
    <3>1. CheckTemporal(state, c, X) =
            IF back THEN "FAIL" ELSE Combine(dates \cup news \cup acquired)
      BY Zenon DEF CheckTemporal
    <3> DEFINE rest == news \cup acquired
    <3> HIDE DEF news, acquired, dates, back
    <3>2. dates \cup news \cup acquired = dates \cup rest
      OBVIOUS
    <3> HIDE DEF rest
    <3> QED  BY <1>4, <3>1, <3>2 DEF Passed
  <2>2. \A x \in dates : Passed(x)
    <3> HIDE DEF dates
    <3> QED  BY <2>1, CombinePassed
  <2>3. c.knowledge[k] \in claims
    BY <1>5 DEF Range
  <2> HIDE DEF claims
  <2> QED  BY <2>2, <2>3
<1>6. ASSUME NEW k \in DOMAIN c.knowledge, c.knowledge[k].structured
      PROVE  BackedBy(c.knowledge[k], more)
  <2> DEFINE v == c.knowledge[k]
  <2>0. ClaimTold(o, v)
    BY <1>1 DEF Told, KnowledgeTold
  <2>00. /\ v.structured
         /\ v.claimed # {} => Passed(NotBefore(Resolved(X, v.evidence), The(v.claimed)))
    BY <1>5, <1>6
  <2> HIDE DEF v
  <2>1. ASSUME v.evidence = {Uri(o)}, v.claimed # {} PROVE BackedBy(v, more)
    <3>1. AtHand(X, o)
      BY CommitPassed, EvidenceAtHand DEF X
    <3>2. Resolved(X, {Uri(o)}) = {EvidenceOf(o)} /\ The({EvidenceOf(o)}) = EvidenceOf(o)
      BY <3>1, TheOnly DEF AtHand, Resolved
    <3>3. EvidenceOf(o).acquired = {o.base.timestamp} /\ The({o.base.timestamp}) = o.base.timestamp
      BY TheOnly DEF EvidenceOf
    <3>4. The(v.claimed) >= o.base.timestamp
      BY <2>00, <2>1, <3>2, <3>3 DEF NotBefore, Or, Passed
    <3> QED  BY <1>3, <2>1, <3>4 DEF BackedBy
  <2>2. ASSUME NEW j \in DOMAIN o.base.knowledge, o.base.knowledge[j].structured,
               o.base.knowledge[j].evidence = v.evidence,
               v.claimed \in {o.base.knowledge[j].claimed, {0}}
        PROVE  BackedBy(v, more)
    <3>1. BackedBy(o.base.knowledge[j], log)
      BY <1>1 DEF HistInv, BackedIn
    <3>2. PICK i \in DOMAIN log : /\ v.evidence = {Uri(log[i])}
                                  /\ The(o.base.knowledge[j].claimed) >= log[i].base.timestamp
      BY <2>2, <3>1 DEF BackedBy
    <3>3. v.claimed # {0}
      <4> SUFFICES ASSUME v.claimed = {0} PROVE FALSE
        OBVIOUS
      <4>1. The(v.claimed) = 0
        BY TheOnly
      <4>2. Passed(NotBefore(Resolved(X, {Uri(log[i])}), 0))
        BY <2>00, <3>2, <4>1
      <4>3. PICK p \in Offers : 0 >= p.base.timestamp
        BY <4>2, ClaimDated DEF X
      <4>4. PastGenesis(p.base.timestamp)
        BY OffersPast
      <4> QED  BY <4>3, <4>4 DEF PastGenesis
    <3>4. v.claimed = o.base.knowledge[j].claimed /\ v.claimed # {}
      BY <2>2, <3>1, <3>3 DEF BackedBy
    <3> QED  BY <1>3, <3>2, <3>4 DEF BackedBy
  <2>3. BackedBy(v, more)
    <3>1. CASE v.evidence = {Uri(o)} /\ v.claimed # {}
      BY <2>1, <3>1
    <3>2. CASE ~(v.evidence = {Uri(o)} /\ v.claimed # {})
      <4>1. PICK j \in DOMAIN o.base.knowledge :
              /\ o.base.knowledge[j].structured /\ o.base.knowledge[j].evidence = v.evidence
              /\ v.claimed \in {o.base.knowledge[j].claimed, {0}}
        BY <2>0, <2>00, <3>2 DEF ClaimTold
      <4> QED  BY <2>2, <4>1
    <3> QED  BY <3>1, <3>2
  <2> QED  BY <2>3 DEF v
<1>7. BackedIn(c, more)
  BY <1>6 DEF BackedIn, BackedBy
<1> QED  BY <1>7 DEF c, more
------------------------------------------------------------------------------
(* The first state has a story, and no claims.                             *)
LEMMA GenesisStoried ==
  Storied(Genesis) /\ \A v \in Range(Genesis.knowledge) : ~v.structured
<1>1. /\ Genesis.chronicle = [i \in 1..3 |-> PlainEvent(i)] /\ Genesis.timestamp = 8
      /\ DOMAIN Genesis.knowledge = {<<0, "constant">>}
      /\ Genesis.knowledge[<<0, "constant">>]
           = [structured |-> FALSE, claimed |-> {}, evidence |-> {}]
      /\ Fields \subseteq DOMAIN Genesis
  BY DEF Genesis, Fields
<1>2. Genesis.chronicle \in Seq({PlainEvent(i) : i \in 1..3})
  BY <1>1
<1>3. ToSet(Genesis.chronicle) = {PlainEvent(i) : i \in 1..3}
  BY <1>1 DEF ToSet
<1>4. \A i : EventShape(PlainEvent(i)) /\ ~PlainEvent(i).tombstone
  BY DEF PlainEvent, EventShape
<1>5. PastGenesis(Genesis.timestamp)
  BY <1>1 DEF PastGenesis
<1>6. \A k \in DOMAIN Genesis.knowledge :
        ClaimShape(Genesis.knowledge[k]) /\ ~Genesis.knowledge[k].structured
  BY <1>1 DEF ClaimShape
<1>7. \A e \in ToSet(Genesis.chronicle) :
        EventShape(e) /\ (e.tombstone => e.principal \in Undertakers)
  BY <1>3, <1>4
<1>8. Storied(Genesis)
  <2> HIDE DEF Genesis
  <2> QED  BY <1>1, <1>2, <1>5, <1>6, <1>7 DEF Storied
<1> QED  BY <1>6, <1>8 DEF Range

(* The invariant holds of the first state                                  *)
LEMMA HistInit == ASSUME Init PROVE HistInv
<1>1. /\ state = Genesis /\ DOMAIN log = {} /\ DOMAIN pending = {} /\ revoked = {} /\ unclear = {}
      /\ archive = {}
  BY DEF Init
<1>2. BackedIn(state, log)
  BY <1>1, GenesisStoried DEF BackedIn, BackedBy, Range
<1> QED  BY <1>1, <1>2, GenesisStoried, LifeInit DEF HistInv

(* What is pending was made for a state of the past.                       *)
LEMMA PendingPast ==
  ASSUME HistInv, [Next]_vars
  PROVE  \A i \in DOMAIN pending' : PastGenesis(pending'[i].base.timestamp)
<1>1. PICK S : pending \in Seq(S)
  BY DEF HistInv, LifeInv
<1>2. \A i \in DOMAIN pending : PastGenesis(pending[i].base.timestamp)
  BY DEF HistInv
<1>3. ASSUME NEW name \in Names, Propose(name)
      PROVE  \A i \in DOMAIN pending' : PastGenesis(pending'[i].base.timestamp)
  <2>1. PICK o \in OfferOf(name, state) : pending' = Append(pending, o)
    BY <1>3 DEF Propose
  <2>2. o.base = state
    BY <2>1 DEF OfferOf
  <2>3. PastGenesis(o.base.timestamp)
    BY <2>2 DEF HistInv, Storied
  <2>4. \A i \in DOMAIN pending' : \/ i \in DOMAIN pending /\ pending'[i] = pending[i]
                                   \/ pending'[i] = o
    BY <1>1, <2>1
  <2> QED  BY <1>2, <2>3, <2>4
<1>4. ASSUME NEW i \in DOMAIN pending, Judge(i)
      PROVE  \A j \in DOMAIN pending' : PastGenesis(pending'[j].base.timestamp)
  BY <1>4, <1>1, RemovalKeeps, <1>2 DEF Judge
<1>5. CASE UNCHANGED pending
  BY <1>2, <1>5
<1> QED
  BY <1>3, <1>4, <1>5 DEF Next, Archive, Revoke, LoseKeyHistory, LoseEvidence, vars

(* Only the governor's and the kernel's keys are revoked, one history lost.*)
LEMMA TrustShape ==
  ASSUME HistInv, [Next]_vars
  PROVE  (\A r \in revoked' : r[1] \in {"gov1", "kernel"}) /\ unclear' \subseteq {"gov1"}
<1>1. ASSUME NEW p \in {"gov1", "kernel"}, NEW e, Revoke(p, e)
      PROVE  (\A r \in revoked' : r[1] \in {"gov1", "kernel"}) /\ unclear' \subseteq {"gov1"}
  BY <1>1 DEF Revoke, HistInv
<1>2. CASE LoseKeyHistory("gov1")
  BY <1>2 DEF LoseKeyHistory, HistInv
<1>3. CASE UNCHANGED <<revoked, unclear>>
  BY <1>3 DEF HistInv
<1> QED
  BY <1>1, <1>2, <1>3 DEF Next, Propose, Judge, Archive, LoseEvidence, vars

(* The log grows and the archive is of the log.                            *)
LEMMA ArchiveShape ==
  ASSUME HistInv, [Next]_vars
  PROVE  archive' \subseteq DOMAIN log'
<1>1. PICK S : log \in Seq(S)
  BY DEF HistInv, LifeInv, LogIsSequence
<1>2. DOMAIN log \subseteq DOMAIN log'
  <2>1. CASE UNCHANGED <<state, log>>
    BY <2>1
  <2>2. ASSUME NEW o, log' = Append(log, o) PROVE DOMAIN log \subseteq DOMAIN log'
    BY <1>1, <2>2
  <2> QED  BY <2>1, <2>2, StepShape DEF HistInv
<1>3. archive' \subseteq DOMAIN log
  <2>1. ASSUME NEW i \in DOMAIN log, Archive(i) PROVE archive' \subseteq DOMAIN log
    BY <2>1 DEF Archive, HistInv
  <2>2. CASE UNCHANGED archive
    BY <2>2 DEF HistInv
  <2> QED
    BY <2>1, <2>2 DEF Next, Propose, Judge, Revoke, LoseKeyHistory, LoseEvidence, vars
<1> QED  BY <1>2, <1>3

(* and of what every step makes of it.                                     *)
LEMMA HistStep ==
  ASSUME HistInv, [Next]_vars
  PROVE  HistInv'
<1>1. LifeInv'
  BY LifeStep DEF HistInv
<1>2. /\ Storied(state') /\ state'.governance = Genesis.governance /\ BackedIn(state', log')
      /\ \A i \in DOMAIN log' : Sound(log'[i]) /\ BackedIn(CandidateOf(log'[i]), log')
                                /\ \E X : Judged(X, log'[i])
  <2>1. CASE UNCHANGED <<state, log>>
    BY <2>1 DEF HistInv
  <2>2. ASSUME NEW o, VerdictFrom(state, o) = "VALID", Made(o), state' = CandidateOf(o),
               log' = Append(log, o)
        PROVE  /\ Storied(state') /\ state'.governance = Genesis.governance
               /\ BackedIn(state', log')
               /\ \A i \in DOMAIN log' : Sound(log'[i]) /\ BackedIn(CandidateOf(log'[i]), log')
                                         /\ \E X : Judged(X, log'[i])
    <3>1. PICK S : log \in Seq(S)
      BY DEF HistInv, LifeInv, LogIsSequence
    <3>2. o.base = state /\ Told(o, CandidateOf(o))
      BY <2>2, CommittedOnItsBase, CommitTold DEF HistInv
    <3>3. Storied(state') /\ state'.governance = Genesis.governance
      BY <3>2, ToldIsStoried, <2>2 DEF Told, HistInv
    <3>4. BackedIn(CandidateOf(o), log')
      BY <2>2, CommitIsBacked
    <3>5. Sound(o) /\ \E X : Judged(X, o)
      BY <2>2, CommitIsSound, CommitIsJudged
    <3>6. \A i \in DOMAIN log' : (i \in DOMAIN log /\ log'[i] = log[i]) \/ log'[i] = o
      BY <2>2, <3>1
    <3>7. \A i \in DOMAIN log : BackedIn(CandidateOf(log[i]), log')
      BY <2>2, <3>1, BackedGrows DEF HistInv
    <3>8. ASSUME NEW i \in DOMAIN log'
          PROVE  /\ Sound(log'[i]) /\ BackedIn(CandidateOf(log'[i]), log')
                 /\ \E X : Judged(X, log'[i])
      <4>1. CASE i \in DOMAIN log /\ log'[i] = log[i]
        BY <3>7, <4>1 DEF HistInv
      <4>2. CASE log'[i] = o
        BY <3>4, <3>5, <4>2
      <4> QED  BY <3>6, <4>1, <4>2
    <3> QED  BY <2>2, <3>3, <3>4, <3>8
  <2> QED  BY <2>1, <2>2, StepShape DEF HistInv
<1> QED  BY <1>1, <1>2, PendingPast, TrustShape, ArchiveShape DEF HistInv

------------------------------------------------------------------------------
(* Nothing archived and nothing lost is missing.                           *)
Whole(i) == i \in archive /\ lost = {} /\ unclear = {}

(* The evidence of a committed offer is what it was, if it is there.       *)
LEMMA StoredNow ==
  ASSUME HistInv, EvidenceIsKept, NEW i \in DOMAIN log
  PROVE  /\ Lookup(StoreNow, Uri(log[i])) \subseteq {EvidenceOf(log[i])}
         /\ lost = {} => Lookup(StoreNow, Uri(log[i])) # {}
<1> DEFINE o == log[i]
<1>1. o \in Offers /\ Stored(o) = {EvidenceOf(o)}
  BY OffersAre DEF ToSet, HistInv, Sound
<1> HIDE DEF o
<1>2. ASSUME Uri(o) \in DOMAIN StoreNow PROVE StoreNow[Uri(o)] = EvidenceOf(o)
  <2>1. PICK p \in Offers : /\ Uri(p) = Uri(o) /\ Stored(p) # {}
                            /\ StoreNow[Uri(o)] = The(Stored(p))
    BY <1>2, StoreTells DEF HistInv
  <2>2. EvidenceOf(p) = EvidenceOf(o)
    BY <1>1, <2>1 DEF EvidenceIsKept, Offers
  <2>3. p.name = o.name
    BY <2>1, SameNamed
  <2>4. o.name \notin Corrupted
    BY <1>1, TheOnly, StoredShape
  <2> QED  BY <2>1, <2>2, <2>3, <2>4, StoredShape
<1>3. lost = {} => Uri(o) \in DOMAIN StoreNow
  BY <1>1, StoreHolds DEF HistInv
<1>4. /\ Lookup(StoreNow, Uri(o)) \subseteq {EvidenceOf(o)}
      /\ lost = {} => Lookup(StoreNow, Uri(o)) # {}
  BY <1>2, <1>3 DEF Lookup
<1> QED  BY <1>4 DEF o

(* The trust of now is a later one, for whatever was committed.            *)
LEMMA NowIsLater ==
  ASSUME HistInv, EvidenceIsKept, NEW i \in DOMAIN log, KeysStillGood(log[i]),
         NEW X, Judged(X, log[i])
  PROVE  Later(X, ContextAt(log[i].base), log[i], Whole(i))
<1> DEFINE o == log[i]
<1> DEFINE Y == ContextAt(o.base)
<1>1. /\ Y.known /\ Y.identity = X.identity /\ Y.epoch = X.epoch /\ Y.kernels = X.kernels
      /\ Y.time = X.time /\ Y.credentials = CredentialsNow /\ Y.store = StoreNow /\ X.known
  BY ContextFields DEF Judged
<1>2. DOMAIN CredentialsNow = Principals /\ DOMAIN X.credentials = Principals
  BY CredentialsDomain DEF Judged
<1>3. Sound(o)
  BY DEF HistInv
<1>4. ASSUME NEW p \in Principals
      PROVE  Agrees(X.credentials[p], CredentialsNow[p], o.base.epoch, Whole(i))
  <2>1. LET x == X.credentials[p] IN x.key = p /\ x.from = 0 /\ x.until = {} /\ x.compromised = {}
    BY DEF Judged
  <2>2. \A r \in revoked : r[1] = p => o.base.epoch < r[2]
    <3>1. ASSUME NEW r \in revoked, r[1] = p PROVE o.base.epoch < r[2]
      BY <1>3 DEF HistInv, KeysStillGood, Sound
    <3> QED  BY <3>1
  <2>3. Whole(i) => p \notin unclear
    BY DEF Whole
  <2>4. LET y == CredentialsNow[p] IN
        /\ y.key = p /\ y.from = 0 /\ y.until = {} /\ y.compromised = {}
        /\ y.statusKnown = (p \notin unclear)
        /\ y.revoked = {r[2] : r \in {x \in revoked : x[1] = p}}
    BY CredentialsShape
  <2>5. \A e \in CredentialsNow[p].revoked : o.base.epoch < e
    BY <2>2, <2>4
  <2>6. Whole(i) => CredentialsNow[p].statusKnown
    BY <2>3, <2>4
  <2> QED  BY <2>1, <2>4, <2>5, <2>6 DEF Agrees
<1>5. ASSUME NEW p \in Evaluators
      PROVE  Lookup(CredentialsNow, p) = Lookup(X.credentials, p)
  BY CredentialsShape, <1>2 DEF Principals, Judged, Lookup
<1>6. /\ Lookup(StoreNow, Uri(o)) \subseteq {EvidenceOf(o)}
      /\ Whole(i) => Lookup(StoreNow, Uri(o)) # {}
  BY StoredNow DEF Whole
<1> HIDE DEF Y, o
<1>7. Later(X, Y, o, Whole(i))
  BY <1>1, <1>2, <1>4, <1>5, <1>6 DEF Later
<1> QED  BY <1>7 DEF Y, o
------------------------------------------------------------------------------
(* What is held of an offer of the past is still vouched for.              *)
LEMMA ClaimsStand ==
  ASSUME HistInv, EvidenceIsKept, NEW s, BackedIn(s, log), NEW base, NEW i
  PROVE  \A v \in Range(s.knowledge) : ClaimStands(v, ContextAt(base), Whole(i))
<1> DEFINE Y == ContextAt(base)
<1>0. Y.store = StoreNow
  BY ContextFields
<1> HIDE DEF Y
<1>1. ASSUME NEW v \in Range(s.knowledge), v.structured, v.claimed # {}
      PROVE  Stands(NotBefore(Resolved(Y, v.evidence), The(v.claimed)), Whole(i))
  <2>1. BackedBy(v, log)
    BY DEF BackedIn, Range
  <2>2. PICK j \in DOMAIN log : /\ v.evidence = {Uri(log[j])}
                                /\ The(v.claimed) >= log[j].base.timestamp
    BY <1>1, <2>1 DEF BackedBy
  <2> DEFINE o == log[j]
  <2>3. /\ Lookup(StoreNow, Uri(o)) \subseteq {EvidenceOf(o)}
        /\ lost = {} => Lookup(StoreNow, Uri(o)) # {}
    BY StoredNow
  <2>4. v.evidence = {Uri(o)} /\ The(v.claimed) >= o.base.timestamp
    BY <2>2
  <2> HIDE DEF o
  <2>5. Resolved(Y, v.evidence) = Lookup(StoreNow, Uri(o))
    BY <1>0, <2>4 DEF Resolved
  <2>6. CASE Lookup(StoreNow, Uri(o)) = {}
    BY <2>3, <2>5, <2>6 DEF NotBefore, Stands, Whole
  <2>7. CASE Lookup(StoreNow, Uri(o)) = {EvidenceOf(o)}
    <3>1. EvidenceOf(o).acquired = {o.base.timestamp} /\ The({EvidenceOf(o)}) = EvidenceOf(o)
          /\ The({o.base.timestamp}) = o.base.timestamp
      BY TheOnly DEF EvidenceOf
    <3> DEFINE e == EvidenceOf(o)
    <3>2. NotBefore({e}, The(v.claimed)) = Or(The(v.claimed) >= o.base.timestamp, "FAIL")
      <4>1. {e} # {} /\ The({e}).acquired = {o.base.timestamp}
            /\ {o.base.timestamp} # {}
        BY <3>1
      <4> HIDE DEF e
      <4> QED  BY <3>1, <4>1 DEF NotBefore
    <3> HIDE DEF e
    <3>3. NotBefore({e}, The(v.claimed)) = "PASS"
      BY <2>4, <3>2 DEF Or
    <3> QED  BY <2>5, <2>7, <3>3 DEF Stands, e
  <2> QED  BY <2>3, <2>6, <2>7
<1>2. \A v \in Range(s.knowledge) : ClaimStands(v, Y, Whole(i))
  BY <1>1 DEF ClaimStands
<1> QED  BY <1>2 DEF Y

(* No head of now contradicts an offer that has no rival, and the archived *)
(* one bears it out.                                                       *)
LEMMA HeadStands ==
  ASSUME HistInv, NEW i \in DOMAIN log, NoRivalHead(log[i])
  PROVE  Stands(CheckCanonicalHead(ProposalOf(log[i]), CandidateOf(log[i]), PolicyOf(log[i]),
                                   ContextAt(log[i].base)), Whole(i))
<1> DEFINE o == log[i]
<1> DEFINE q == ProposalOf(o)
<1> DEFINE c == CandidateOf(o)
<1> DEFINE Y == ContextAt(o.base)
<1>1. Sound(o) /\ LifeInv /\ archive \subseteq DOMAIN log /\ \A k \in archive : HeadOf(log[k]) # {}
  BY DEF HistInv, Sound
<1>2. /\ Y.known /\ Y.archive = ArchiveNow /\ Y.head = HeadNow
  BY ContextFields
<1>3. PolicyOf(o).canonicalHead = TRUE
  BY DEF PolicyOf, DefaultPolicy
<1>4. q.epoch = o.base.epoch /\ q.identity = Identity
  BY <1>1, ProposalIsOfEpoch DEF Sound
<1>5. \A h \in HeadNow \cup Range(ArchiveNow) :
        h.identity = Identity /\ (h.epoch = o.base.epoch => h \in HeadOf(o))
  BY DEF NoRivalHead
<1>6. PICK own : /\ HeadOf(o) = {own} /\ own.identity = q.identity
                 /\ own.epoch = q.epoch /\ own.parent = q.predecessor
                 /\ own.proposal = ProposalDigest(q) /\ own.successor = StateDigest(c)
                 /\ own.exclusive = {TRUE}
  BY <1>1, HeadShape DEF Sound
<1> DEFINE archived == Lookup(ArchiveNow, q.epoch)
<1> DEFINE evidence == IF archived # {} THEN archived ELSE HeadNow
<1> DEFINE HeadSays(h) ==
      IF h.identity # q.identity \/ (archived # {} /\ h.epoch # q.epoch) THEN "FAIL"
      ELSE IF h.epoch # q.epoch THEN "UNKNOWN"
      ELSE IF \/ h.parent # q.predecessor \/ h.proposal # ProposalDigest(q)
              \/ h.successor # StateDigest(c) \/ h.exclusive = {FALSE} THEN "FAIL"
      ELSE Or(h.exclusive = {TRUE}, "UNKNOWN")
<1>7. CheckCanonicalHead(q, c, PolicyOf(o), Y) =
        IF evidence = {} THEN "UNKNOWN" ELSE HeadSays(The(evidence))
  <2>1. CheckCanonicalHead(q, c, PolicyOf(o), Y) =
          IF ~PolicyOf(o).canonicalHead THEN "PASS"
          ELSE IF ~Y.known \/ evidence = {} THEN "UNKNOWN" ELSE HeadSays(The(evidence))
    <3> HIDE DEF Y, q, c
    <3> QED  BY <1>2, Zenon DEF CheckCanonicalHead
  <2> HIDE DEF evidence, HeadSays, Y
  <2> QED  BY <1>2, <1>3, <2>1
<1> HIDE DEF q, c, Y
<1>8. HeadSays(own) = "PASS"
  BY <1>6 DEF Or
<1>9. CASE archived # {}
  <2>1. q.epoch \in DOMAIN ArchiveNow /\ archived = {ArchiveNow[q.epoch]}
    BY <1>9 DEF Lookup
  <2>2. PICK k \in archive : log[k].base.epoch = q.epoch /\ HeadOf(log[k]) = {ArchiveNow[q.epoch]}
    BY <1>1, <2>1, ArchiveTells
  <2>3. PICK h : HeadOf(log[k]) = {h} /\ h.epoch = ProposalOf(log[k]).epoch
    BY <2>2, HeadShape
  <2>4. h = ArchiveNow[q.epoch] /\ h.epoch = q.epoch
    BY <2>2, <2>3, ProposalIsOfEpoch
  <2>5. h \in Range(ArchiveNow)
    BY <2>1, <2>4 DEF Range
  <2>6. h = own
    BY <1>4, <1>5, <1>6, <2>4, <2>5
  <2>7. The(evidence) = own /\ evidence # {}
    BY <1>9, <2>1, <2>4, <2>6, TheOnly
  <2> HIDE DEF evidence, HeadSays, archived
  <2> QED  BY <1>7, <1>8, <2>7 DEF Stands, o, q, c, Y
<1>10. CASE archived = {}
  <2>1. ~Whole(i)
    BY <1>4, <1>10 DEF ArchiveNow, Whole, Lookup
  <2>2. CASE HeadNow = {}
    BY <1>7, <1>10, <2>1, <2>2 DEF Stands, o, q, c, Y
  <2>3. CASE HeadNow # {}
    <3>1. PICK p \in Offers : HeadNow = HeadOf(p)
      BY <1>1, <2>3, HeadTells
    <3>2. PICK h : HeadNow = {h}
      BY <2>3, <3>1, HeadShape
    <3>3. The(evidence) = h /\ h \in HeadNow
      BY <1>10, <3>2, TheOnly
    <3>4. HeadSays(h) # "FAIL"
      <4>1. CASE h.epoch = q.epoch
        BY <1>4, <1>5, <1>6, <3>3, <4>1, <1>8
      <4>2. CASE h.epoch # q.epoch
        BY <1>4, <1>5, <1>10, <3>3, <4>2
      <4> QED  BY <4>1, <4>2
    <3> HIDE DEF HeadSays
    <3> QED  BY <1>7, <1>10, <2>1, <3>3, <3>4 DEF Stands, o, q, c, Y
  <2> QED  BY <2>2, <2>3
<1> QED  BY <1>9, <1>10

(* verify_cognitive_continuity asked again of what it once let in, with    *)
(* whatever is trusted by then: other heads current, heads archived, keys  *)
(* revoked for later epochs, a key's history or evidence lost. It never    *)
(* says INVALID, and it says VALID if the head is archived and nothing is  *)
(* lost: what is missing is unknown, and never a contradiction.            *)
THEOREM HistoryStands == Spec => []HistoricVerdictsStand
<1>1. Init => HistInv
  BY HistInit
<1>2. HistInv /\ [Next]_vars => HistInv'
  BY HistStep
<1>3. HistInv => HistoricVerdictsStand
  <2> SUFFICES ASSUME HistInv, NEW i \in DOMAIN log, KeysStillGood(log[i]), NoRivalHead(log[i]),
                      EvidenceIsKept
               PROVE  /\ VerdictFrom(log[i].base, log[i]) # "INVALID"
                      /\ i \in archive /\ lost = {} /\ unclear = {} =>
                           VerdictFrom(log[i].base, log[i]) = "VALID"
    BY DEF HistoricVerdictsStand
  <2> DEFINE o == log[i]
  <2> DEFINE Y == ContextAt(o.base)
  <2>1. PICK X : Judged(X, o)
    BY DEF HistInv
  <2>2. Later(X, Y, o, Whole(i))
    BY <2>1, NowIsLater
  <2>3. /\ Verdict(o.base, {WitnessOf(o)}, CandidateOf(o), PolicyOf(o), X) = "VALID"
        /\ \A e \in ToSet(CandidateOf(o).chronicle) : EventTold(o, e)
    BY <2>1, ToldIsStoried DEF Judged
  <2>4. \A v \in Range(CandidateOf(o).knowledge) : ClaimStands(v, Y, Whole(i))
    BY ClaimsStand DEF HistInv
  <2>5. Stands(CheckCanonicalHead(ProposalOf(o), CandidateOf(o), PolicyOf(o), Y), Whole(i))
    BY HeadStands
  <2> HIDE DEF o, Y
  <2>6. /\ Verdict(o.base, {WitnessOf(o)}, CandidateOf(o), PolicyOf(o), Y) # "INVALID"
        /\ Whole(i) =>
             Verdict(o.base, {WitnessOf(o)}, CandidateOf(o), PolicyOf(o), Y) = "VALID"
    BY <2>2, <2>3, <2>4, <2>5, VerdictStands
  <2>7. VerdictFrom(o.base, o) = Verdict(o.base, {WitnessOf(o)}, CandidateOf(o), PolicyOf(o), Y)
    BY DEF VerdictFrom, Y
  <2> QED  BY <2>6, <2>7 DEF Whole, o
<1> QED  BY <1>1, <1>2, <1>3, PTL DEF Spec

------------------------------------------------------------------------------
(* A manifest of one mutation is applied in one round,                     *)
LEMMA ApplyOne ==
  ASSUME NEW pred, NEW m
  PROVE  Apply(pred, <<m>>) = Admitted(pred, {Advanced(pred, <<m>>)}, m)
<1> DEFINE q == <<m>>
<1>1. DOMAIN q = 1..1 /\ q[1] = m
  OBVIOUS
<1>2. Identified(q)
  BY <1>1 DEF Identified
<1> DEFINE f == CHOOSE iter : iter = Round(pred, q, 1, iter)
<1>3. Apply(pred, q) = f[1..1]
  <2> HIDE DEF q
  <2> QED  BY <1>1, <1>2, ApplyIsRound
<1>4. f = Round(pred, q, 1, f)
  BY RoundExists
<1> HIDE DEF f, q
<1>5. f[{}] = {Advanced(pred, q)}
  BY <1>4 DEF Round
<1>6. Max(1..1) = 1
  BY GreatestIsLast
<1>7. f[1..1] = Admitted(pred, f[(1..1) \ {1}], q[1])
  <2> DEFINE s == 1..1
  <2>1. s \in SUBSET (1..1) /\ s # {}
    OBVIOUS
  <2> HIDE DEF s
  <2>2. f[s] = Admitted(pred, f[s \ {Max(s)}], q[Max(s)])
    BY <1>4, <2>1 DEF Round
  <2> QED  BY <1>6, <2>2 DEF s
<1>8. (1..1) \ {1} = {}
  OBVIOUS
<1> QED  BY <1>1, <1>3, <1>5, <1>7, <1>8 DEF q

(* one of two in two rounds.                                               *)
LEMMA ApplyTwo ==
  ASSUME NEW pred, NEW m, NEW k, m.id # k.id
  PROVE  Apply(pred, <<m, k>>) =
           Admitted(pred, Admitted(pred, {Advanced(pred, <<m, k>>)}, m), k)
<1> DEFINE q == <<m, k>>
<1>1. DOMAIN q = 1..2 /\ q[1] = m /\ q[2] = k
  OBVIOUS
<1>2. Identified(q)
  BY <1>1 DEF Identified
<1> DEFINE f == CHOOSE iter : iter = Round(pred, q, 2, iter)
<1>3. Apply(pred, q) = f[1..2]
  <2> HIDE DEF q
  <2> QED  BY <1>1, <1>2, ApplyIsRound
<1>4. f = Round(pred, q, 2, f)
  BY RoundExists
<1> HIDE DEF f, q
<1>5. f[{}] = {Advanced(pred, q)}
  BY <1>4 DEF Round
<1>6. ASSUME NEW n \in {1, 2}
      PROVE  f[1..n] = Admitted(pred, f[(1..n) \ {n}], q[n])
  <2>1. 1..n \in SUBSET (1..((n - 1) + 1)) /\ (n - 1) + 1 \in 1..n /\ n - 1 \in Nat
    OBVIOUS
  <2>2. Max(1..n) = (n - 1) + 1
    BY <2>1, GreatestIsLast
  <2> DEFINE s == 1..n
  <2>3. s \in SUBSET (1..2) /\ s # {}
    OBVIOUS
  <2>5. Max(s) = n
    BY <2>2
  <2> HIDE DEF s
  <2>4. f[s] = Admitted(pred, f[s \ {Max(s)}], q[Max(s)])
    BY <1>4, <2>3 DEF Round
  <2> QED  BY <2>4, <2>5 DEF s
<1>7. (1..1) \ {1} = {} /\ (1..2) \ {2} = 1..1
  OBVIOUS
<1>8. f[1..1] = Admitted(pred, {Advanced(pred, q)}, m)
  BY <1>1, <1>5, <1>6, <1>7
<1>9. f[1..2] = Admitted(pred, f[1..1], k)
  BY <1>1, <1>6, <1>7
<1> QED  BY <1>3, <1>8, <1>9 DEF q

(* The predecessor one tick later.                                         *)
After(s) == [s EXCEPT !.epoch = @ + 1, !.timestamp = @ + 1]

(* What one mutation makes of a state, it makes of it one tick later.      *)
LEMMA AppliedOne ==
  ASSUME NEW s, NEW m, m.op # "CLAIM_SUCCESSION", NEW t \in Apply(s, <<m>>)
  PROVE  Admits(s, After(s), m) /\ t = Effect(After(s), m) /\ Apply(s, <<m>>) = {t}
<1>1. Advanced(s, <<m>>) = After(s)
  <2>1. 1 \in DOMAIN <<m>> /\ <<m>>[1].op # "CLAIM_SUCCESSION"
    OBVIOUS
  <2> QED  BY <2>1, Zenon DEF Advanced, After
<1> DEFINE a == After(s)
<1>2. Apply(s, <<m>>) = Admitted(s, {a}, m)
  BY <1>1, ApplyOne
<1> HIDE DEF a
<1> QED  BY <1>2 DEF Admitted, a

(* A succession makes nothing new of it.                                   *)
LEMMA AppliedSuccession ==
  ASSUME NEW s, NEW m, m.op = "CLAIM_SUCCESSION", NEW t \in Apply(s, <<m>>)
  PROVE  t = s /\ Apply(s, <<m>>) = {s}
<1>1. Advanced(s, <<m>>) = s
  <2>1. \A i \in DOMAIN <<m>> : <<m>>[i].op = "CLAIM_SUCCESSION"
    OBVIOUS
  <2> QED  BY <2>1, Zenon DEF Advanced
<1>2. Apply(s, <<m>>) = Admitted(s, {s}, m)
  BY <1>1, ApplyOne
<1>3. Effect(s, m) = s
  BY DEF Effect
<1> QED  BY <1>2, <1>3 DEF Admitted

(* Two mutations are applied one after the other.                          *)
LEMMA AppliedTwo ==
  ASSUME NEW s, NEW m, NEW k, m.op # "CLAIM_SUCCESSION", m.id # k.id,
         NEW t \in Apply(s, <<m, k>>)
  PROVE  /\ t = Effect(Effect(After(s), m), k) /\ Apply(s, <<m, k>>) = {t}
         /\ Admits(s, After(s), m) /\ Admits(s, Effect(After(s), m), k)
<1>1. Advanced(s, <<m, k>>) = After(s)
  <2>1. 1 \in DOMAIN <<m, k>> /\ <<m, k>>[1].op # "CLAIM_SUCCESSION"
    OBVIOUS
  <2> QED  BY <2>1, Zenon DEF Advanced, After
<1> DEFINE a == After(s)
<1>2. Apply(s, <<m, k>>) = Admitted(s, Admitted(s, {a}, m), k)
  BY <1>1, ApplyTwo
<1> HIDE DEF a
<1> QED  BY <1>2 DEF Admitted, a

IsSequence(q) == \E S : q \in Seq(S)

(* What pruning a memory keeps after so many of its items.                 *)
KeptOf(kept, v, session) == IF v.session = session THEN kept ELSE Append(kept, v)
PruneRound(memory, session, n, iter) ==
  [s \in SUBSET (1..n) |->
    IF s = {} THEN <<>> ELSE KeptOf(iter[s \ {Max(s)}], memory[Max(s)], session)]

(* Pruning is that fold over all items.                                    *)
LEMMA PrunedIsRound ==
  ASSUME NEW memory, NEW session, NEW n, DOMAIN memory = 1..n
  PROVE  Pruned(memory, session) =
           (CHOOSE iter : iter = PruneRound(memory, session, n, iter))[1..n]
<1>1. Pruned(memory, session) =
        (CHOOSE iter : iter =
           [s \in SUBSET DOMAIN memory |->
             IF s = {} THEN <<>>
             ELSE KeptOf(iter[s \ {Max(s)}], memory[Max(s)], session)])[DOMAIN memory]
  BY Zenon DEF Pruned, FoldLeft, MapThenFoldSet, KeptOf
<1> QED  BY <1>1, Zenon DEF PruneRound

(* It is defined, and what it keeps is a sequence of items.                *)
LEMMA PruneRoundExists ==
  ASSUME NEW S, NEW memory, NEW session, NEW n \in Nat, \A i \in 1..n : memory[i] \in S
  PROVE  \E iter : iter = PruneRound(memory, session, n, iter)
<1> DEFINE P == {k \in Nat : \E iter : iter = PruneRound(memory, session, k, iter)}
<1>1. 0 \in P
  <2> DEFINE w == [s \in SUBSET (1..0) |-> <<>>]
  <2>1. w = PruneRound(memory, session, 0, w)
    BY DEF PruneRound
  <2> QED  BY <2>1
<1>2. ASSUME NEW k \in P PROVE k + 1 \in P
  <2>0. k \in Nat
    BY <1>2
  <2>1. PICK f : f = PruneRound(memory, session, k, f)
    BY <1>2
  <2> DEFINE w == [s \in SUBSET (1..(k + 1)) |->
                    IF k + 1 \in s THEN KeptOf(f[s \ {k + 1}], memory[k + 1], session) ELSE f[s]]
  <2>2. ASSUME NEW s \in SUBSET (1..(k + 1))
        PROVE  w[s] = IF s = {} THEN <<>>
                      ELSE KeptOf(w[s \ {Max(s)}], memory[Max(s)], session)
    <3>1. CASE k + 1 \in s
      <4>1. Max(s) = k + 1
        BY <1>2, <3>1, GreatestIsLast
      <4>2. s \ {k + 1} \in SUBSET (1..(k + 1)) /\ k + 1 \notin s \ {k + 1} /\ s # {}
        BY <3>1
      <4>3. w[s \ {k + 1}] = f[s \ {k + 1}]
        BY <4>2
      <4>4. w[s] = KeptOf(f[s \ {k + 1}], memory[k + 1], session)
        BY <3>1
      <4> QED  BY <4>1, <4>2, <4>3, <4>4
    <3>2. CASE k + 1 \notin s
      <4>0. \A i \in s : i \in 1..k
        BY <2>0, <3>2
      <4>1. s \in SUBSET (1..k) /\ s \ {Max(s)} \in SUBSET (1..k) /\ k + 1 \notin s \ {Max(s)}
            /\ s \ {Max(s)} \in SUBSET (1..(k + 1))
        BY <4>0, <3>2
      <4>2. w[s] = f[s] /\ w[s \ {Max(s)}] = f[s \ {Max(s)}]
        BY <3>2, <4>1
      <4>3. f[s] = IF s = {} THEN <<>>
                   ELSE KeptOf(f[s \ {Max(s)}], memory[Max(s)], session)
        BY <2>1, <4>1 DEF PruneRound
      <4> HIDE DEF w
      <4> QED  BY <4>2, <4>3, Zenon
    <3> QED  BY <3>1, <3>2
  <2>3. w = PruneRound(memory, session, k + 1, w)
    <3>1. w = [s \in SUBSET (1..(k + 1)) |-> w[s]]
      OBVIOUS
    <3> HIDE DEF w
    <3> QED  BY <2>2, <3>1 DEF PruneRound
  <2> QED  BY <1>2, <2>3
<1> HIDE DEF P
<1>3. P = Nat
  BY <1>1, <1>2, SetInduction DEF P
<1> QED  BY <1>3 DEF P

(* So a pruned memory is a sequence.                                       *)
LEMMA PrunedIsSequence ==
  ASSUME NEW memory, IsSequence(memory), NEW session
  PROVE  IsSequence(Pruned(memory, session))
<1>1. PICK S : memory \in Seq(S)
  BY DEF IsSequence
<1> DEFINE n == Len(memory)
<1>2. n \in Nat /\ DOMAIN memory = 1..n /\ \A i \in 1..n : memory[i] \in S
  BY <1>1
<1> DEFINE f == CHOOSE iter : iter = PruneRound(memory, session, n, iter)
<1>0. n \in Nat
  BY <1>2
<1>3. Pruned(memory, session) = f[1..n]
  BY <1>2, PrunedIsRound
<1>4. f = PruneRound(memory, session, n, f)
  BY <1>2, PruneRoundExists
<1> HIDE DEF f, n
<1> DEFINE P == {k \in Nat : k <= n => f[1..k] \in Seq(S)}
<1>5. 0 \in P
  <2>1. (1..0) = {} /\ 1..0 \in SUBSET (1..n)
    OBVIOUS
  <2>2. f[1..0] = <<>>
    BY <1>4, <2>1 DEF PruneRound
  <2>3. <<>> \in Seq(S)
    OBVIOUS
  <2>4. f[1..0] \in Seq(S)
    BY <2>2, <2>3
  <2> QED  BY <2>4
<1>6. ASSUME NEW k \in P PROVE k + 1 \in P
  <2>0. k \in Nat
    BY <1>6
  <2>1. SUFFICES ASSUME k + 1 <= n PROVE f[1..(k + 1)] \in Seq(S)
    BY <2>0
  <2>2. /\ 1..(k + 1) \in SUBSET (1..n) /\ 1..(k + 1) # {} /\ k + 1 \in 1..(k + 1)
        /\ (1..(k + 1)) \ {k + 1} = 1..k /\ k + 1 \in 1..n
    <3>1. k + 1 \in 1..(k + 1) /\ k + 1 \in 1..n
      BY <1>0, <2>0, <2>1
    <3>2. (1..(k + 1)) \ {k + 1} = 1..k
      BY <2>0
    <3>3. \A i \in 1..(k + 1) : i \in 1..n
      BY <1>0, <2>0, <2>1
    <3> QED  BY <3>1, <3>2, <3>3
  <2>3. Max(1..(k + 1)) = k + 1
    BY <2>0, <2>2, GreatestIsLast
  <2> DEFINE whole == 1..(k + 1)
  <2>4. f[whole] = KeptOf(f[whole \ {Max(whole)}], memory[Max(whole)], session)
    <3> HIDE DEF whole
    <3>1. whole \in SUBSET (1..n) /\ whole # {}
      BY <2>2 DEF whole
    <3> QED  BY <1>4, <3>1 DEF PruneRound
  <2>5. f[1..k] \in Seq(S) /\ memory[k + 1] \in S
    BY <1>2, <2>0, <2>1, <1>6, <2>2
  <2> DEFINE kept == f[1..k]
  <2> DEFINE v == memory[k + 1]
  <2>6. f[1..(k + 1)] = KeptOf(kept, v, session)
    BY <2>2, <2>3, <2>4
  <2> HIDE DEF kept, v
  <2>7. kept \in Seq(S) /\ v \in S => KeptOf(kept, v, session) \in Seq(S)
    BY DEF KeptOf
  <2> QED  BY <2>5, <2>6, <2>7 DEF kept, v
<1> HIDE DEF P
<1>7. P = Nat
  BY <1>5, <1>6, SetInduction DEF P
<1>8. f[1..n] \in Seq(S)
  BY <1>2, <1>7 DEF P
<1> QED  BY <1>3, <1>8 DEF IsSequence

(* Of some numbers not below -1 and not above n, one is the greatest.      *)
LEMMA GreatestTime ==
  ASSUME NEW n \in Nat, NEW I, I \subseteq (-1)..n, I # {}
  PROVE  Max(I) \in I /\ \A i \in I : Max(I) >= i
<1> DEFINE J == {i + 2 : i \in I}
<1>1. J \subseteq 1..(n + 2) /\ J # {}
  <2>1. \A i \in I : i + 2 \in 1..(n + 2)
    OBVIOUS
  <2> QED  BY <2>1
<1>2. \E j \in J : \A k \in J : j >= k
  <2> DEFINE m == Max(J)
  <2>1. m \in J
    <3> HIDE DEF J
    <3>1. n + 2 \in Nat
      OBVIOUS
    <3> QED  BY <1>1, <3>1, GreatestIsThere
  <2> DEFINE K == {(n + 2) - j : j \in J}
  <2>2. K \subseteq Nat /\ K # {}
    <3>1. \A j \in J : (n + 2) - j \in Nat
      BY <1>1
    <3> QED  BY <1>1, <3>1
  <2>3. IsWellFoundedOn({pair \in Nat \X Nat : pair[1] < pair[2]}, Nat)
    BY NatLessThanWellFounded DEF OpToRel
  <2>4. PICK l \in K : \A k \in K : <<k, l>> \notin {pair \in Nat \X Nat : pair[1] < pair[2]}
    <3> HIDE DEF K
    <3> QED  BY <2>2, <2>3, WFMin
  <2>5. PICK j \in J : l = (n + 2) - j
    BY <2>4
  <2>6. ASSUME NEW k \in J PROVE j >= k
    <3>1. (n + 2) - k \in K /\ k \in 1..(n + 2) /\ j \in 1..(n + 2)
      BY <1>1, <2>5
    <3>2. <<(n + 2) - k, l>> \in Nat \X Nat =>
            ~(<<(n + 2) - k, l>>[1] < <<(n + 2) - k, l>>[2])
      BY <2>4, <3>1
    <3> QED  BY <2>5, <3>1, <3>2
  <2> QED  BY <2>5, <2>6
<1>3. PICK j \in J : \A k \in J : j >= k
  BY <1>2
<1>4. PICK i \in I : j = i + 2
  BY <1>3
<1>5. ASSUME NEW k \in I PROVE i >= k
  <2>1. k + 2 \in J /\ k \in (-1)..n /\ i \in (-1)..n
    BY <1>4, <1>5
  <2>2. j >= k + 2
    BY <1>3, <2>1
  <2> QED  BY <1>4, <2>1, <2>2
<1> QED  BY <1>5 DEF Max

------------------------------------------------------------------------------
(* What the generator's legitimate transitions keep of a state: the clock  *)
(* ticks with the epoch; no event is buried, rewritten or younger than     *)
(* now, and none has the name of another;                                  *)
EventFields == {"id", "epoch", "timestamp", "content", "evidence", "acquired", "annotations",
                "tombstone"}
RegularEvent(e, now) ==
  /\ EventFields \subseteq DOMAIN e /\ ~e.tombstone /\ e.content \in {"observed", "finding"}
  /\ e.timestamp \in 0..now /\ (\A a \in e.acquired : e.timestamp >= a)
  /\ IsSequence(e.annotations)
RegularChronicle(c, now) ==
  /\ IsSequence(c) /\ c # <<>>
  /\ \A i, j \in DOMAIN c : c[i].id = c[j].id => i = j
  /\ \A i \in DOMAIN c : RegularEvent(c[i], now)

(* the hypothesis is the only belief, held since epoch 1;                  *)
RegularBeliefs(b, epoch) ==
  /\ DOMAIN b = {"hypothesis"} /\ "established" \in DOMAIN b["hypothesis"]
  /\ b["hypothesis"].proposition = "hypothesis" /\ b["hypothesis"].established = 1
  /\ b["hypothesis"].revised \in 0..epoch /\ IsSequence(b["hypothesis"].history)

(* only the collaborator may be trusted, on the interactions of the        *)
(* genesis; and rules and governance are those of the genesis.             *)
RegularRelations(r) ==
  /\ DOMAIN r = {"collaborator", "stranger"}
  /\ r["collaborator"].entity = "collaborator" /\ r["collaborator"].tier \in {"DEFAULT", "HIGH"}
  /\ r["collaborator"].count = 2 /\ r["collaborator"].ids = <<"c1", "c2">>
  /\ r["stranger"].tier = "DEFAULT" /\ r["stranger"].count = 0
StateFields == {"epoch", "timestamp", "chronicle", "beliefs", "memory", "knowledge",
                "relationships", "rules", "governance", "config"}
Regular(s) ==
  /\ StateFields \subseteq DOMAIN s
  /\ s.epoch \in Nat /\ s.timestamp = s.epoch + 4
  /\ RegularChronicle(s.chronicle, s.timestamp) /\ RegularBeliefs(s.beliefs, s.epoch)
  /\ RegularRelations(s.relationships) /\ IsSequence(s.memory)
  /\ s.rules = Genesis.rules /\ s.governance = Genesis.governance

(* The genesis state is such a state.                                      *)
LEMMA GenesisRegular == Regular(Genesis)
<1>1. /\ StateFields \subseteq DOMAIN Genesis /\ Genesis.epoch = 4 /\ Genesis.timestamp = 8
      /\ Genesis.chronicle = [i \in 1..3 |-> PlainEvent(i)]
  BY DEF Genesis, StateFields
<1>2. RegularChronicle(Genesis.chronicle, 8)
  <2> DEFINE c == [i \in 1..3 |-> PlainEvent(i)]
  <2>1. c \in Seq({PlainEvent(i) : i \in 1..3}) /\ DOMAIN c = 1..3 /\ c # <<>>
    OBVIOUS
  <2>2. \A i \in 1..3 : /\ PlainEvent(i).id = <<i, "event">> /\ RegularEvent(PlainEvent(i), 8)
    <3> TAKE i \in 1..3
    <3> DEFINE e == PlainEvent(i)
    <3>1. /\ EventFields \subseteq DOMAIN e /\ ~e.tombstone /\ e.content = "observed"
          /\ e.timestamp = 2 * i /\ e.acquired = {} /\ e.annotations = <<>>
          /\ e.id = <<i, "event">>
      BY DEF PlainEvent, EventFields
    <3>2. 2 * i \in 0..8 /\ <<>> \in Seq({})
      OBVIOUS
    <3> HIDE DEF e
    <3>3. RegularEvent(e, 8)
      BY <3>1, <3>2 DEF RegularEvent, IsSequence
    <3> QED  BY <3>1, <3>3 DEF e
  <2>3. \A i \in 1..3 : c[i] = PlainEvent(i)
    OBVIOUS
  <2>4. \A i, j : <<i, "event">> = <<j, "event">> => i = j
    OBVIOUS
  <2> HIDE DEF c
  <2>5. RegularChronicle(c, 8)
    BY <2>1, <2>2, <2>3, <2>4 DEF RegularChronicle, IsSequence
  <2> QED  BY <1>1, <2>5 DEF c
<1>3. RegularBeliefs(Genesis.beliefs, 4)
  <2> DEFINE h == [proposition |-> "hypothesis", value |-> FALSE, established |-> 1, revised |-> 1,
                   ref |-> {}, history |-> <<>>]
  <2>1. Genesis.beliefs = [hypothesis |-> h]
    BY DEF Genesis
  <2>2. DOMAIN Genesis.beliefs = {"hypothesis"} /\ Genesis.beliefs["hypothesis"] = h
    BY <2>1
  <2>3. <<>> \in Seq({})
    OBVIOUS
  <2> QED  BY <2>2, <2>3 DEF RegularBeliefs, IsSequence
<1>4. RegularRelations(Genesis.relationships)
  BY DEF Genesis, RegularRelations
<1>5. IsSequence(Genesis.memory)
  <2> DEFINE a == [session |-> <<0, "old">>, expires |-> {7}]
  <2> DEFINE b == [session |-> <<0, "recent">>, expires |-> {99}]
  <2>1. Genesis.memory = <<a, b>>
    BY DEF Genesis
  <2> HIDE DEF a, b
  <2>2. <<a, b>> \in Seq({a, b})
    OBVIOUS
  <2> QED  BY <2>1, <2>2 DEF IsSequence
<1> HIDE DEF Genesis
<1> QED  BY <1>1, <1>2, <1>3, <1>4, <1>5 DEF Regular

(* An event reported, and an adapter configured.                           *)
Report(o, content) ==
  Mutation("APPEND_CHRONICLE", [event |-> NewEvent(o, content)], {Uri(o)}, 0)
Upgrade(o) == Mutation("UPDATE_RUNTIME_CONFIG", [adapter |-> Uri(o)], {}, 0)
Claims == Mutation("CLAIM_SUCCESSION", <<>>, {}, 0)
Annotate(o) ==
  Mutation("ANNOTATE_CORRECTION",
           [event |-> FirstEvent(o.base).id, correction |-> "updated"], {Uri(o)}, 0)
Evict == Mutation("EVICT_BUFFER", <<>>, {}, 0)
Summarize(o) ==
  Mutation("INSERT_SUMMARY", [summary |-> [session |-> Uri(o), expires |-> {}]], {Uri(o)}, 1)
Removal(o) == Mutation("REMOVE_CHRONICLE", [event |-> FirstEvent(o.base).id], {}, 0)
Strike == Mutation("DELETE_NORMATIVE_RULE", [rule |-> "core"], {}, 0)

(* The manifests of the generator's cases.                                 *)
LEMMA ManifestIs ==
  ASSUME NEW o, Made(o)
  PROVE  /\ o.name = "L1" => o.manifest = <<Learn(o, o.base.timestamp)>>
         /\ o.name = "temporal" => o.manifest = <<Learn(o, o.base.timestamp - 1)>>
         /\ o.name = "L2" => o.manifest = <<Report(o, "finding")>>
         /\ o.name = "I1" => o.manifest = <<Report(o, "fabricated")>>
         /\ o.name = "L3" => o.manifest = <<Revise(o, ~o.base.beliefs["hypothesis"].value, 0)>>
         /\ o.name = "L4" => o.manifest = <<Relate(o, "collaborator", "HIGH", <<>>)>>
         /\ o.name \in {"I4", "relational"} => o.manifest = <<Relate(o, "stranger", "HIGH", <<>>)>>
         /\ o.name = "L5" => o.manifest = <<Evict, Summarize(o)>>
         /\ o.name = "L6" => \/ o.manifest = <<>>
              \/ \E session :
                   o.manifest = <<Mutation("PRUNE_EXPIRED_CONTEXT", [session |-> session], {}, 0)>>
         /\ o.name = "L7" => o.manifest = <<Annotate(o)>>
         /\ o.name \in {"L8"} \cup OnTheUpgrade => o.manifest = <<Upgrade(o)>>
         /\ o.name = "L9" =>
              o.manifest = <<Mutation("FORWARD_RESTORE", [restored |-> o.base.epoch], {Uri(o)}, 0)>>
         /\ o.name = "L10" =>
              o.manifest =
                <<Mutation("REBIND_SUBSTRATE", [model |-> "b", proof |-> Uri(o)], {Uri(o)}, 0)>>
         /\ o.name \in {"I2", "belief", "provenance_and_belief"} => o.manifest = <<Forget(o, 0)>>
         /\ o.name \in {"I3", "normative", "authority_and_normative", "unknown_and_invalid"} =>
              o.manifest = <<Strike>>
         /\ o.name = "I5" => o.manifest = <<Removal(o)>>
         /\ o.name \in {"I6", "I7", "I9", "I10", "D1", "D2", "D3", "D4", "authority",
                        "unlogged_history"} => o.manifest = <<Claims>>
         /\ o.name = "historical" => o.manifest = <<Rewrite(o.base, 0)>>
<1> DEFINE r == [name |-> o.name, base |-> o.base]
<1>1. /\ r.name = o.name /\ r.base = o.base /\ Uri(r) = Uri(o) /\ EventId(r) = EventId(o)
      /\ o.manifest = Manifest(r)
  BY DEF Made, Uri, EventId
<1> HIDE DEF r
<1>2. /\ \A t : Learn(r, t) = Learn(o, t)
      /\ \A c : NewEvent(r, c) = NewEvent(o, c)
      /\ \A v, i : Revise(r, v, i) = Revise(o, v, i)
      /\ \A i : Forget(r, i) = Forget(o, i)
      /\ \A k, t, ids : Relate(r, k, t, ids) = Relate(o, k, t, ids)
  BY <1>1 DEF Learn, Claim, NewEvent, Revise, Forget, Relate
<1> DEFINE case == Effective(r.name)
<1>3. /\ o.name \in {"L1", "L2", "L3", "L4", "L5", "L6", "L7", "L9", "L10", "I1", "I4", "I2", "I3",
                     "I5", "temporal", "historical"} => case = o.name
      /\ o.name \in {"L8"} \cup OnTheUpgrade => case = "L8"
      /\ o.name = "relational" => case = "I4"
      /\ o.name \in {"belief", "provenance_and_belief"} => case = "I2"
      /\ o.name \in {"normative", "authority_and_normative", "unknown_and_invalid"} => case = "I3"
      /\ o.name = "authority" => case = "I7"
      /\ o.name \in {"I6", "I7", "I9", "I10", "D1", "D2", "D3", "D4", "unlogged_history"} =>
           case = "succession"
  BY <1>1 DEF Effective, OnTheUpgrade
<1> HIDE DEF case
<1>4. o.name = "L1" => o.manifest = <<Learn(o, o.base.timestamp)>>
  BY Zenon, <1>1, <1>2, <1>3 DEF Manifest, case
<1>5. o.name = "temporal" => o.manifest = <<Learn(o, o.base.timestamp - 1)>>
  BY Zenon, <1>1, <1>2, <1>3 DEF Manifest, case
<1>6. o.name = "L2" => o.manifest = <<Report(o, "finding")>>
  BY Zenon, <1>1, <1>2, <1>3 DEF Manifest, case, Report
<1>7. o.name = "I1" => o.manifest = <<Report(o, "fabricated")>>
  BY Zenon, <1>1, <1>2, <1>3 DEF Manifest, case, Report
<1>8. o.name = "L3" => o.manifest = <<Revise(o, ~o.base.beliefs["hypothesis"].value, 0)>>
  BY <1>1, <1>2, <1>3, Zenon DEF Manifest, case
<1>9. o.name = "L4" => o.manifest = <<Relate(o, "collaborator", "HIGH", <<>>)>>
  BY Zenon, <1>1, <1>2, <1>3 DEF Manifest, case
<1>10. o.name \in {"I4", "relational"} => o.manifest = <<Relate(o, "stranger", "HIGH", <<>>)>>
  BY Zenon, <1>1, <1>2, <1>3 DEF Manifest, case
<1>11. o.name = "L5" => o.manifest = <<Evict, Summarize(o)>>
  BY Zenon, <1>1, <1>3 DEF Manifest, case, Evict, Summarize
<1>12. o.name = "L6" => \/ o.manifest = <<>>
        \/ \E session :
             o.manifest = <<Mutation("PRUNE_EXPIRED_CONTEXT", [session |-> session], {}, 0)>>
  BY Zenon, <1>1, <1>3 DEF Manifest, case
<1>13. o.name = "L7" => o.manifest = <<Annotate(o)>>
  BY Zenon, <1>1, <1>3 DEF Manifest, case, Annotate
<1>14. o.name \in {"L8"} \cup OnTheUpgrade => o.manifest = <<Upgrade(o)>>
  BY Zenon, <1>1, <1>3 DEF Manifest, case, Upgrade
<1>15. o.name = "L9" =>
           o.manifest = <<Mutation("FORWARD_RESTORE", [restored |-> o.base.epoch], {Uri(o)}, 0)>>
  BY Zenon, <1>1, <1>3 DEF Manifest, case
<1>16. o.name = "L10" => o.manifest =
           <<Mutation("REBIND_SUBSTRATE", [model |-> "b", proof |-> Uri(o)], {Uri(o)}, 0)>>
  BY Zenon, <1>1, <1>3 DEF Manifest, case
<1>17. o.name \in {"I2", "belief", "provenance_and_belief"} => o.manifest = <<Forget(o, 0)>>
  BY Zenon, <1>1, <1>2, <1>3 DEF Manifest, case
<1>18. o.name \in {"I3", "normative", "authority_and_normative", "unknown_and_invalid"} =>
         o.manifest = <<Strike>>
  BY Zenon, <1>1, <1>3 DEF Manifest, case, Strike
<1>19. o.name = "I5" => o.manifest = <<Removal(o)>>
  BY Zenon, <1>1, <1>3 DEF Manifest, case, Removal
<1>20. o.name \in {"I6", "I7", "I9", "I10", "D1", "D2", "D3", "D4", "authority",
                         "unlogged_history"} => o.manifest = <<Claims>>
  BY Zenon, <1>1, <1>3 DEF Manifest, case, Claims
<1>21. o.name = "historical" => o.manifest = <<Rewrite(o.base, 0)>>
  BY Zenon, <1>1, <1>3 DEF Manifest, case
<1> QED
  BY <1>1, <1>3, <1>4, <1>5, <1>6, <1>7, <1>8, <1>9, <1>10, <1>11, <1>12, <1>13, <1>14, <1>15,
     <1>16, <1>17, <1>18, <1>19, <1>20, <1>21, Zenon

(* One tick later, a state t has of s all but what changed.                *)
Turns(s, t, changed) ==
  /\ StateFields \subseteq DOMAIN t /\ t.epoch = s.epoch + 1 /\ t.timestamp = s.timestamp + 1
  /\ "chronicle" \in changed \/ t.chronicle = s.chronicle
  /\ "beliefs" \in changed \/ t.beliefs = s.beliefs
  /\ "memory" \in changed \/ t.memory = s.memory
  /\ "knowledge" \in changed \/ t.knowledge = s.knowledge
  /\ "relationships" \in changed \/ t.relationships = s.relationships
  /\ "rules" \in changed \/ t.rules = s.rules
  /\ t.governance = s.governance

(* The clock turns nothing.                                                *)
LEMMA AfterTurns ==
  ASSUME NEW s, StateFields \subseteq DOMAIN s
  PROVE  Turns(s, After(s), {})
  BY DEF Turns, After, StateFields

(* What one mutation changes of a state, apart from the clock.             *)
LEMMA EffectTurns ==
  ASSUME NEW s, NEW a, Turns(s, a, {}), NEW m
  PROVE  /\ m.op = "INSERT_KNOWLEDGE" =>
              /\ Turns(s, Effect(a, m), {"knowledge"})
              /\ Effect(a, m).knowledge = Put(s.knowledge, m.args.key, m.args.value)
         /\ m.op = "APPEND_CHRONICLE" =>
              /\ Turns(s, Effect(a, m), {"chronicle"})
              /\ Effect(a, m).chronicle = Append(s.chronicle, m.args.event)
         /\ m.op = "REVISE_BELIEF" =>
              /\ Turns(s, Effect(a, m), {"beliefs"})
              /\ Effect(a, m).beliefs =
                   Put(s.beliefs, m.args.proposition, RevisedBelief(a, m))
         /\ m.op = "UPDATE_TRUST_TIER" =>
              /\ Turns(s, Effect(a, m), {"relationships"})
              /\ Effect(a, m).relationships =
                   Put(s.relationships, m.args.entity, UpdatedRelationship(a, m.args))
         /\ m.op = "DELETE_NORMATIVE_RULE" =>
              /\ Turns(s, Effect(a, m), {"rules"})
              /\ Effect(a, m).rules = Without(s.rules, m.args.rule)
         /\ m.op = "EVICT_BUFFER" =>
              Turns(s, Effect(a, m), {"memory"}) /\ Effect(a, m).memory = <<>>
         /\ m.op = "PRUNE_EXPIRED_CONTEXT" =>
              /\ Turns(s, Effect(a, m), {"memory"})
              /\ Effect(a, m).memory = Pruned(s.memory, m.args.session)
         /\ m.op \in {"UPDATE_RUNTIME_CONFIG", "REBIND_SUBSTRATE", "FORWARD_RESTORE"} =>
              Turns(s, Effect(a, m), {})
<1>0. StateFields \subseteq DOMAIN a
  BY DEF Turns
<1>1. CASE m.op = "INSERT_KNOWLEDGE"
  BY <1>0, <1>1 DEF Effect, Turns, StateFields
<1>2. CASE m.op = "APPEND_CHRONICLE"
  BY <1>0, <1>2 DEF Effect, Turns, StateFields
<1>3. CASE m.op = "REVISE_BELIEF"
  BY <1>0, <1>3 DEF Effect, Turns, StateFields
<1>4. CASE m.op = "UPDATE_TRUST_TIER"
  BY <1>0, <1>4 DEF Effect, Turns, StateFields
<1>5. CASE m.op = "DELETE_NORMATIVE_RULE"
  BY <1>0, <1>5 DEF Effect, Turns, StateFields
<1>6. CASE m.op = "EVICT_BUFFER"
  BY <1>0, <1>6 DEF Effect, Turns, StateFields
<1>7. CASE m.op = "PRUNE_EXPIRED_CONTEXT"
  BY Zenon, <1>0, <1>7 DEF Effect, Turns, StateFields
<1>8. CASE m.op \in {"UPDATE_RUNTIME_CONFIG", "REBIND_SUBSTRATE", "FORWARD_RESTORE"}
  <2> DEFINE config == m.args @@ a.config
  <2>1. Effect(a, m) = [a EXCEPT !.config = config]
    BY <1>8 DEF Effect
  <2> HIDE DEF config
  <2>2. Turns(s, [a EXCEPT !.config = config], {})
    BY <1>0 DEF Turns, StateFields
  <2>3. Turns(s, Effect(a, m), {})
    BY <2>1, <2>2
  <2> QED  BY <1>8, <2>3
<1> QED  BY <1>1, <1>2, <1>3, <1>4, <1>5, <1>6, <1>7, <1>8

(* Where an event is found, an event of that name is.                      *)
LEMMA PositionHolds ==
  ASSUME NEW s, NEW S, s.chronicle \in Seq(S), NEW id, Holds(s, id)
  PROVE  Position(s, id) \in DOMAIN s.chronicle /\ s.chronicle[Position(s, id)].id = id
<1> DEFINE I == {i \in 1..Len(s.chronicle) : s.chronicle[i].id = id}
<1>1. I # {}
  <2>1. PICK i \in DOMAIN EventIds(s) : EventIds(s)[i] = id
    BY DEF Holds, ToSet
  <2>2. i \in 1..Len(s.chronicle) /\ s.chronicle[i].id = id
    BY <2>1 DEF EventIds
  <2> QED  BY <2>2
<1>2. Position(s, id) = IF I # {} THEN Min(I) ELSE 0
  BY DEF Position, SelectInSeq
<1>3. I \in SUBSET (1..Len(s.chronicle)) /\ Len(s.chronicle) \in Nat
  OBVIOUS
<1> HIDE DEF I
<1>4. Min(I) \in I
  BY <1>1, <1>3, LeastIsThere, Zenon
<1>5. Position(s, id) \in I
  BY <1>1, <1>2, <1>4
<1> QED  BY <1>5 DEF I

(* What one mutation makes of an event,                                    *)
ChangedBy(m, e) ==
  IF m.op = "ANNOTATE_CORRECTION"
    THEN [e EXCEPT !.annotations = Append(@, [text |-> m.args.correction, ref |-> m.ref])]
    ELSE [e EXCEPT !.content = m.args.content]

(* of the one it names.                                                    *)
LEMMA EventChanged ==
  ASSUME NEW s, NEW a, Turns(s, a, {}), NEW S, s.chronicle \in Seq(S), NEW m,
         Admits(s, a, m), m.op \in {"ANNOTATE_CORRECTION", "REWRITE_CHRONICLE"}
  PROVE  \E p \in DOMAIN s.chronicle :
           /\ s.chronicle[p].id = m.args.event
           /\ Turns(s, Effect(a, m), {"chronicle"})
           /\ Effect(a, m).chronicle =
                [s.chronicle EXCEPT ![p] = ChangedBy(m, s.chronicle[p])]
<1> DEFINE p == Position(a, m.args.event)
<1>0. StateFields \subseteq DOMAIN a /\ a.chronicle = s.chronicle
  BY DEF Turns
<1>1. Holds(a, m.args.event)
  BY DEF Admits
<1>2. p \in DOMAIN s.chronicle /\ s.chronicle[p].id = m.args.event
  BY <1>0, <1>1, PositionHolds
<1> DEFINE new == ChangedBy(m, s.chronicle[p])
<1>3. Effect(a, m) =
        [a EXCEPT !.chronicle = [a.chronicle EXCEPT ![p] = ChangedBy(m, a.chronicle[p])]]
  <2>1. CASE m.op = "ANNOTATE_CORRECTION"
    BY <2>1, Zenon DEF Effect, ChangeEvent, ChangedBy
  <2>2. CASE m.op = "REWRITE_CHRONICLE"
    BY <2>2, Zenon DEF Effect, ChangeEvent, ChangedBy
  <2> QED  BY <2>1, <2>2
<1> HIDE DEF p
<1>4. Effect(a, m) = [a EXCEPT !.chronicle = [s.chronicle EXCEPT ![p] = new]]
  BY <1>0, <1>3
<1> HIDE DEF new
<1>5. /\ Turns(s, Effect(a, m), {"chronicle"})
      /\ Effect(a, m).chronicle = [s.chronicle EXCEPT ![p] = new]
  BY <1>0, <1>4 DEF Turns, StateFields
<1> QED  BY <1>2, <1>5 DEF new

(* One event of a chronicle is taken out.                                  *)
LEMMA EventRemoved ==
  ASSUME NEW s, NEW a, Turns(s, a, {}), NEW S, s.chronicle \in Seq(S), NEW m,
         m.op = "REMOVE_CHRONICLE", Holds(a, m.args.event)
  PROVE  \E p \in DOMAIN s.chronicle :
           /\ s.chronicle[p].id = m.args.event
           /\ Turns(s, Effect(a, m), {"chronicle"})
           /\ Effect(a, m).chronicle = RemoveAt(s.chronicle, p)
<1> DEFINE p == Position(a, m.args.event)
<1>0. StateFields \subseteq DOMAIN a /\ a.chronicle = s.chronicle
  BY DEF Turns
<1>2. p \in DOMAIN s.chronicle /\ s.chronicle[p].id = m.args.event
  BY <1>0, PositionHolds
<1>3. Effect(a, m) = [a EXCEPT !.chronicle = RemoveAt(a.chronicle, p)]
  BY Zenon DEF Effect
<1> HIDE DEF p
<1> DEFINE new == RemoveAt(s.chronicle, p)
<1>4. Effect(a, m) = [a EXCEPT !.chronicle = new]
  BY <1>0, <1>3
<1> HIDE DEF new
<1>5. Turns(s, Effect(a, m), {"chronicle"}) /\ Effect(a, m).chronicle = new
  BY <1>0, <1>4 DEF Turns, StateFields
<1> QED  BY <1>2, <1>5 DEF new

------------------------------------------------------------------------------
(* An offer as the loop has it: made by the generator for such a state,    *)
(* with a manifest the engine took.                                        *)
Offered(o) ==
  /\ Made(o) /\ Regular(o.base) /\ o.applied \in Apply(o.base, o.manifest)
  /\ o.manifest # <<>>

(* Succession cases change nothing.                                        *)
Successions == {"I6", "I7", "I9", "I10", "D1", "D2", "D3", "D4", "authority", "unlogged_history"}
Same(o) == o.applied = o.base /\ Apply(o.base, o.manifest) = {o.applied}
Changed(o, changed) ==
  Turns(o.base, o.applied, changed) /\ Apply(o.base, o.manifest) = {o.applied}

(* A claim of succession leaves the state itself, clock and all.           *)
LEMMA SuccessionIsSame ==
  ASSUME NEW o, Offered(o), o.name \in Successions
  PROVE  Same(o)
<1>1. o.manifest = <<Claims>>
  BY ManifestIs DEF Offered, Successions
<1>2. Claims.op = "CLAIM_SUCCESSION"
  BY DEF Claims, Mutation
<1> QED  BY <1>1, <1>2, AppliedSuccession DEF Offered, Same

(* Any other offer of one mutation makes one turn.                         *)
LEMMA OneTurn ==
  ASSUME NEW o, Offered(o), NEW m, o.manifest = <<m>>, m.op # "CLAIM_SUCCESSION"
  PROVE  \E a : /\ Turns(o.base, a, {}) /\ a = After(o.base) /\ Admits(o.base, a, m)
                /\ o.applied = Effect(a, m) /\ Apply(o.base, o.manifest) = {o.applied}
<1>1. StateFields \subseteq DOMAIN o.base
  BY DEF Offered, Regular
<1>2. Turns(o.base, After(o.base), {})
  BY <1>1, AfterTurns
<1> QED  BY <1>2, AppliedOne DEF Offered

(* What is learned is known.                                               *)
LEMMA LearnOutcome ==
  ASSUME NEW o, Offered(o), NEW time, o.manifest = <<Learn(o, time)>>
  PROVE  /\ Changed(o, {"knowledge"})
         /\ o.applied.knowledge = Put(o.base.knowledge, Uri(o), Claim(o, time))
<1> DEFINE m == Learn(o, time)
<1>1. m.op = "INSERT_KNOWLEDGE" /\ m.args.key = Uri(o) /\ m.args.value = Claim(o, time)
  BY DEF Learn, Mutation
<1> HIDE DEF m
<1>2. PICK a : /\ Turns(o.base, a, {}) /\ o.applied = Effect(a, m)
               /\ Apply(o.base, o.manifest) = {o.applied}
  BY <1>1, OneTurn DEF m
<1> QED  BY <1>1, <1>2, EffectTurns DEF Changed

(* What is reported is the last event, and of a new name.                  *)
LEMMA ReportOutcome ==
  ASSUME NEW o, Offered(o), NEW content, o.manifest = <<Report(o, content)>>
  PROVE  /\ Changed(o, {"chronicle"})
         /\ o.applied.chronicle = Append(o.base.chronicle, NewEvent(o, content))
         /\ ~Holds(o.base, NewEvent(o, content).id)
<1> DEFINE m == Report(o, content)
<1>1. m.op = "APPEND_CHRONICLE" /\ m.args.event = NewEvent(o, content)
  BY DEF Report, Mutation
<1> HIDE DEF m
<1>2. PICK a : /\ Turns(o.base, a, {}) /\ Admits(o.base, a, m) /\ o.applied = Effect(a, m)
               /\ Apply(o.base, o.manifest) = {o.applied}
  BY <1>1, OneTurn DEF m
<1>3. ~Holds(a, m.args.event.id)
  BY <1>1, <1>2 DEF Admits
<1>4. a.chronicle = o.base.chronicle
  BY <1>2 DEF Turns
<1>5. ~Holds(o.base, m.args.event.id)
  BY <1>3, <1>4 DEF Holds, EventIds
<1> QED  BY <1>1, <1>2, <1>5, EffectTurns DEF Changed

(* What is revised is believed anew.                                       *)
LEMMA ReviseOutcome ==
  ASSUME NEW o, Offered(o), NEW value, o.manifest = <<Revise(o, value, 0)>>
  PROVE  /\ Changed(o, {"beliefs"})
         /\ \E a : /\ Turns(o.base, a, {})
                   /\ o.applied.beliefs = Put(o.base.beliefs, "hypothesis",
                                              RevisedBelief(a, Revise(o, value, 0)))
<1> DEFINE m == Revise(o, value, 0)
<1>1. m.op = "REVISE_BELIEF" /\ m.args.proposition = "hypothesis"
  BY DEF Revise, Mutation
<1> HIDE DEF m
<1>2. PICK a : /\ Turns(o.base, a, {}) /\ o.applied = Effect(a, m)
               /\ Apply(o.base, o.manifest) = {o.applied}
  BY <1>1, OneTurn DEF m
<1>3. /\ Turns(o.base, o.applied, {"beliefs"})
      /\ o.applied.beliefs = Put(o.base.beliefs, "hypothesis", RevisedBelief(a, m))
  BY <1>1, <1>2, EffectTurns
<1> QED  BY <1>2, <1>3 DEF Changed, m

(* What is forgotten was established at 0.                                 *)
LEMMA ForgetOutcome ==
  ASSUME NEW o, Offered(o), o.manifest = <<Forget(o, 0)>>
  PROVE  /\ Apply(o.base, o.manifest) = {o.applied}
         /\ "hypothesis" \in DOMAIN o.applied.beliefs
         /\ o.applied.beliefs["hypothesis"].established = 0
<1> DEFINE m == Forget(o, 0)
<1>1. /\ m.op = "RETROACTIVE_BELIEF" /\ m.args.proposition = "hypothesis"
      /\ m.args.established = 0
  BY DEF Forget, Mutation
<1> HIDE DEF m
<1>2. PICK a : /\ Turns(o.base, a, {}) /\ Admits(o.base, a, m) /\ o.applied = Effect(a, m)
               /\ Apply(o.base, o.manifest) = {o.applied}
  BY <1>1, OneTurn DEF m
<1> DEFINE b == [a.beliefs EXCEPT !["hypothesis"] =
                   [a.beliefs["hypothesis"] EXCEPT !.established = 0, !.history = <<>>]]
<1>3. o.applied = [a EXCEPT !.beliefs = b]
  BY Zenon, <1>1, <1>2 DEF Effect
<1>4. /\ DOMAIN a.beliefs = {"hypothesis"} /\ "established" \in DOMAIN a.beliefs["hypothesis"]
      /\ "beliefs" \in DOMAIN a
  BY <1>2 DEF Turns, StateFields, Offered, Regular, RegularBeliefs
<1>5. "hypothesis" \in DOMAIN b /\ b["hypothesis"].established = 0
  BY <1>4
<1> HIDE DEF b
<1>6. o.applied.beliefs = b
  BY <1>3, <1>4
<1> QED  BY <1>2, <1>5, <1>6

(* Who is trusted is trusted.                                              *)
LEMMA RelateOutcome ==
  ASSUME NEW o, Offered(o), NEW entity, o.manifest = <<Relate(o, entity, "HIGH", <<>>)>>
  PROVE  /\ Changed(o, {"relationships"})
         /\ \E a : /\ Turns(o.base, a, {})
                   /\ o.applied.relationships =
                        Put(o.base.relationships, entity,
                            UpdatedRelationship(a, Relate(o, entity, "HIGH", <<>>).args))
<1> DEFINE m == Relate(o, entity, "HIGH", <<>>)
<1>1. m.op = "UPDATE_TRUST_TIER" /\ m.args.entity = entity
  BY DEF Relate, Mutation
<1> HIDE DEF m
<1>2. PICK a : /\ Turns(o.base, a, {}) /\ o.applied = Effect(a, m)
               /\ Apply(o.base, o.manifest) = {o.applied}
  BY <1>1, OneTurn DEF m
<1>3. /\ Turns(o.base, o.applied, {"relationships"})
      /\ o.applied.relationships =
           Put(o.base.relationships, entity, UpdatedRelationship(a, m.args))
  BY <1>1, <1>2, EffectTurns
<1> QED  BY <1>2, <1>3 DEF Changed, m

(* What is in memory is a sequence still.                                  *)
LEMMA SummaryOutcome ==
  ASSUME NEW o, Offered(o), o.manifest = <<Evict, Summarize(o)>>
  PROVE  Changed(o, {"memory"}) /\ IsSequence(o.applied.memory)
<1> DEFINE m == Evict
<1> DEFINE k == Summarize(o)
<1>1. m.op = "EVICT_BUFFER" /\ k.op = "INSERT_SUMMARY" /\ m.id # k.id
  BY DEF Evict, Summarize, Mutation
<1> HIDE DEF m, k
<1> DEFINE a == After(o.base)
<1>2. o.applied = Effect(Effect(a, m), k) /\ Apply(o.base, o.manifest) = {o.applied}
  BY <1>1, AppliedTwo DEF m, k, Offered
<1>3. Turns(o.base, a, {})
  BY AfterTurns DEF Offered, Regular
<1> HIDE DEF a
<1>4. Turns(o.base, Effect(a, m), {"memory"}) /\ Effect(a, m).memory = <<>>
  BY <1>1, <1>3, EffectTurns
<1> DEFINE e == Effect(a, m)
<1> HIDE DEF e
<1>5. Turns(o.base, e, {"memory"}) /\ e.memory = <<>>
  BY <1>4 DEF e
<1> DEFINE summary == k.args.summary
<1>6. o.applied = [e EXCEPT !.memory = Append(<<>>, summary)]
  BY Zenon, <1>2, <1>1, <1>5 DEF e, Effect
<1> HIDE DEF summary
<1>7. Append(<<>>, summary) \in Seq({summary})
  OBVIOUS
<1> DEFINE memory == Append(<<>>, summary)
<1> HIDE DEF memory
<1>8. o.applied = [e EXCEPT !.memory = memory]
  BY <1>6 DEF memory
<1>9. Turns(o.base, o.applied, {"memory"}) /\ o.applied.memory = memory
  BY <1>5, <1>8 DEF Turns, StateFields
<1>10. IsSequence(memory)
  BY <1>7 DEF IsSequence, memory
<1> QED  BY <1>2, <1>9, <1>10 DEF Changed

(* Pruning touches the memory only.                                        *)
LEMMA PruneOutcome ==
  ASSUME NEW o, Offered(o), NEW session,
         o.manifest = <<Mutation("PRUNE_EXPIRED_CONTEXT", [session |-> session], {}, 0)>>
  PROVE  Changed(o, {"memory"}) /\ IsSequence(o.applied.memory)
<1> DEFINE m == Mutation("PRUNE_EXPIRED_CONTEXT", [session |-> session], {}, 0)
<1>1. m.op = "PRUNE_EXPIRED_CONTEXT"
  BY DEF Mutation
<1> HIDE DEF m
<1>4. PICK a : /\ Turns(o.base, a, {}) /\ o.applied = Effect(a, m)
               /\ Apply(o.base, o.manifest) = {o.applied}
  BY <1>1, OneTurn DEF m
<1>2. /\ Changed(o, {"memory"}) /\ o.applied.memory = Pruned(o.base.memory, m.args.session)
  BY <1>1, <1>4, EffectTurns DEF Changed
<1>3. IsSequence(o.base.memory)
  BY DEF Offered, Regular
<1> QED  BY <1>2, <1>3, PrunedIsSequence

(* One event gets an annotation, or another content.                       *)
LEMMA EventOutcome ==
  ASSUME NEW o, Offered(o), NEW m, o.manifest = <<m>>,
         m.op \in {"ANNOTATE_CORRECTION", "REWRITE_CHRONICLE"}
  PROVE  /\ Changed(o, {"chronicle"})
         /\ \E p \in DOMAIN o.base.chronicle :
              o.applied.chronicle =
                [o.base.chronicle EXCEPT ![p] = ChangedBy(m, o.base.chronicle[p])]
<1>1. PICK a : /\ Turns(o.base, a, {}) /\ Admits(o.base, a, m) /\ o.applied = Effect(a, m)
               /\ Apply(o.base, o.manifest) = {o.applied}
  BY OneTurn
<1>2. PICK S : o.base.chronicle \in Seq(S)
  BY DEF Offered, Regular, RegularChronicle, IsSequence
<1>3. \E p \in DOMAIN o.base.chronicle :
           /\ Turns(o.base, Effect(a, m), {"chronicle"})
           /\ Effect(a, m).chronicle =
                [o.base.chronicle EXCEPT ![p] = ChangedBy(m, o.base.chronicle[p])]
  BY <1>1, <1>2, EventChanged
<1> QED  BY <1>1, <1>3 DEF Changed

(* The first event is taken out.                                           *)
LEMMA RemovalOutcome ==
  ASSUME NEW o, Offered(o), o.manifest = <<Removal(o)>>
  PROVE  /\ Changed(o, {"chronicle"})
         /\ \E p \in DOMAIN o.base.chronicle : o.applied.chronicle = RemoveAt(o.base.chronicle, p)
<1> DEFINE m == Removal(o)
<1>1. m.op = "REMOVE_CHRONICLE" /\ m.args.event = o.base.chronicle[1].id
  BY DEF Removal, Mutation, FirstEvent
<1> HIDE DEF m
<1>2. PICK a : /\ Turns(o.base, a, {}) /\ Admits(o.base, a, m) /\ o.applied = Effect(a, m)
               /\ Apply(o.base, o.manifest) = {o.applied}
  BY <1>1, OneTurn DEF m
<1>3. PICK S : o.base.chronicle \in Seq(S) /\ o.base.chronicle # <<>>
  BY DEF Offered, Regular, RegularChronicle, IsSequence
<1>4. a.chronicle = o.base.chronicle
  BY <1>2 DEF Turns
<1>5. Holds(a, m.args.event)
  BY <1>3, <1>1, <1>4 DEF EventIds, Holds, ToSet
<1>6. \E p \in DOMAIN o.base.chronicle :
           /\ Turns(o.base, Effect(a, m), {"chronicle"})
           /\ Effect(a, m).chronicle = RemoveAt(o.base.chronicle, p)
  BY <1>1, <1>2, <1>3, <1>5, EventRemoved
<1> QED  BY <1>2, <1>6 DEF Changed

(* The core rule is struck.                                                *)
LEMMA StrikeOutcome ==
  ASSUME NEW o, Offered(o), o.manifest = <<Strike>>
  PROVE  Changed(o, {"rules"}) /\ "core" \notin DOMAIN o.applied.rules
<1>1. Strike.op = "DELETE_NORMATIVE_RULE" /\ Strike.args.rule = "core"
  BY DEF Strike, Mutation
<1>3. PICK a : /\ Turns(o.base, a, {}) /\ o.applied = Effect(a, Strike)
               /\ Apply(o.base, o.manifest) = {o.applied}
  BY <1>1, OneTurn
<1>2. /\ Changed(o, {"rules"}) /\ o.applied.rules = Without(o.base.rules, "core")
  BY <1>1, <1>3, EffectTurns DEF Changed
<1> QED  BY <1>2 DEF Without

(* Nothing but the configuration changes.                                  *)
LEMMA ConfigOutcome ==
  ASSUME NEW o, Offered(o), NEW m, o.manifest = <<m>>,
         m.op \in {"UPDATE_RUNTIME_CONFIG", "REBIND_SUBSTRATE", "FORWARD_RESTORE"}
  PROVE  Changed(o, {})
<1>1. PICK a : /\ Turns(o.base, a, {}) /\ o.applied = Effect(a, m)
               /\ Apply(o.base, o.manifest) = {o.applied}
  BY OneTurn
<1> QED  BY <1>1, EffectTurns DEF Changed

(* Time goes by.                                                           *)
LEMMA ChronicleAges ==
  ASSUME NEW c, NEW now \in Nat, RegularChronicle(c, now)
  PROVE  RegularChronicle(c, now + 1)
<1>1. \A e : RegularEvent(e, now) => RegularEvent(e, now + 1)
  BY DEF RegularEvent
<1> QED  BY <1>1 DEF RegularChronicle

(* What is regular at an epoch is regular at the next.                     *)
LEMMA BeliefsAge ==
  ASSUME NEW b, NEW epoch \in Nat, RegularBeliefs(b, epoch)
  PROVE  RegularBeliefs(b, epoch + 1)
<1>1. \A t \in 0..epoch : t \in 0..(epoch + 1)
  OBVIOUS
<1> QED  BY <1>1 DEF RegularBeliefs

(* The fields of an event that is reported.                                *)
LEMMA NewEventFields ==
  ASSUME NEW o, NEW content
  PROVE  LET e == NewEvent(o, content) IN
         /\ EventFields \subseteq DOMAIN e /\ ~e.tombstone /\ e.content = content
         /\ e.timestamp = o.base.timestamp + 1 /\ e.acquired = {o.base.timestamp}
         /\ e.annotations = <<>> /\ e.id = Uri(o) /\ e.evidence = {Uri(o)}
<1> DEFINE plain == PlainEvent(1)
<1> DEFINE id == Uri(o)
<1> DEFINE epoch == o.base.epoch + 1
<1> DEFINE time == o.base.timestamp + 1
<1> DEFINE past == {o.base.timestamp}
<1>1. EventFields \subseteq DOMAIN plain /\ plain.tombstone = FALSE /\ plain.annotations = <<>>
  BY DEF PlainEvent, EventFields
<1> HIDE DEF plain
<1>2. NewEvent(o, content) =
        [ plain EXCEPT !.id = id, !.epoch = epoch, !.timestamp = time, !.content = content,
                       !.evidence = {id}, !.acquired = past ]
  BY Zenon DEF NewEvent, EventId, plain, id, epoch, time, past
<1> DEFINE e == NewEvent(o, content)
<1> HIDE DEF id, epoch, time, past
<1>3. /\ EventFields \subseteq DOMAIN e /\ e.tombstone = FALSE /\ e.content = content
      /\ e.timestamp = time /\ e.acquired = past
      /\ e.annotations = <<>> /\ e.id = id /\ e.evidence = {id}
  BY <1>1, <1>2 DEF EventFields
<1> HIDE DEF e
<1> QED  BY <1>3 DEF e, id, time, past

(* An event reported is regular,                                           *)
LEMMA ChronicleReported ==
  ASSUME NEW o, NEW now \in Nat, o.base.timestamp = now, RegularChronicle(o.base.chronicle, now),
         ~Holds(o.base, Uri(o)), NEW content \in {"observed", "finding"}
  PROVE  RegularChronicle(Append(o.base.chronicle, NewEvent(o, content)), now + 1)
<1> DEFINE c == o.base.chronicle
<1> DEFINE e == NewEvent(o, content)
<1>1. /\ EventFields \subseteq DOMAIN e /\ ~e.tombstone /\ e.content = content
      /\ e.timestamp = now + 1 /\ e.acquired = {now}
      /\ e.annotations = <<>> /\ e.id = Uri(o)
  BY NewEventFields
<1> HIDE DEF e
<1>2. RegularEvent(e, now + 1)
  <2>1. <<>> \in Seq({})
    OBVIOUS
  <2>2. IsSequence(e.annotations)
    BY <1>1, <2>1 DEF IsSequence
  <2>3. e.timestamp \in 0..(now + 1) /\ \A a \in e.acquired : e.timestamp >= a
    BY <1>1
  <2> QED  BY <1>1, <2>2, <2>3 DEF RegularEvent
<1>3. RegularChronicle(c, now + 1)
  BY ChronicleAges
<1>4. PICK S : c \in Seq(S)
  BY <1>3 DEF RegularChronicle, IsSequence
<1>5. \A i \in DOMAIN c : c[i].id # e.id
  <2> SUFFICES ASSUME NEW i \in DOMAIN c, c[i].id = e.id PROVE FALSE
    OBVIOUS
  <2>1. i \in DOMAIN EventIds(o.base) /\ EventIds(o.base)[i] = Uri(o)
    BY <1>1 DEF EventIds
  <2> QED  BY <2>1 DEF Holds, ToSet
<1> HIDE DEF c
<1> DEFINE d == Append(c, e)
<1>6. /\ d \in Seq(S \cup {e}) /\ d # <<>> /\ DOMAIN d = 1..(Len(c) + 1) /\ DOMAIN c = 1..Len(c)
      /\ d[Len(c) + 1] = e /\ \A i \in 1..Len(c) : d[i] = c[i]
      /\ Len(c) \in Nat
  BY <1>4
<1> HIDE DEF d
<1>7. \A i \in DOMAIN d : i \in DOMAIN c \/ i = Len(c) + 1
  BY <1>6
<1>8. \A i \in DOMAIN d : RegularEvent(d[i], now + 1)
  BY <1>2, <1>3, <1>6, <1>7 DEF RegularChronicle
<1>9. \A i, j \in DOMAIN d : d[i].id = d[j].id => i = j
  BY <1>3, <1>5, <1>6, <1>7 DEF RegularChronicle
<1>10. RegularChronicle(d, now + 1)
  BY <1>6, <1>8, <1>9 DEF RegularChronicle, IsSequence
<1> QED  BY <1>10 DEF d, c, e

(* and so is one that is annotated.                                        *)
LEMMA ChronicleAnnotated ==
  ASSUME NEW c, NEW now \in Nat, RegularChronicle(c, now), NEW p \in DOMAIN c, NEW m,
         m.op = "ANNOTATE_CORRECTION"
  PROVE  RegularChronicle([c EXCEPT ![p] = ChangedBy(m, c[p])], now + 1)
<1> DEFINE e == c[p]
<1> DEFINE note == [text |-> m.args.correction, ref |-> m.ref]
<1> DEFINE f == ChangedBy(m, e)
<1>1. RegularChronicle(c, now + 1)
  BY ChronicleAges
<1>2. RegularEvent(e, now + 1)
  BY <1>1 DEF RegularChronicle
<1>3. f = [e EXCEPT !.annotations = Append(e.annotations, note)]
  BY DEF ChangedBy
<1> HIDE DEF e, f, note
<1>4. PICK T : e.annotations \in Seq(T)
  BY <1>2 DEF RegularEvent, IsSequence
<1>5. Append(e.annotations, note) \in Seq(T \cup {note})
  BY <1>4
<1> DEFINE notes == Append(e.annotations, note)
<1> HIDE DEF notes
<1>6. f = [e EXCEPT !.annotations = notes]
  BY <1>3 DEF notes
<1>7. IsSequence(notes)
  BY <1>5 DEF IsSequence, notes
<1>8. /\ EventFields \subseteq DOMAIN f /\ f.annotations = notes /\ f.id = e.id
      /\ f.tombstone = e.tombstone /\ f.content = e.content /\ f.timestamp = e.timestamp
      /\ f.acquired = e.acquired
  BY <1>2, <1>6 DEF RegularEvent, EventFields
<1>9. RegularEvent(f, now + 1)
  BY <1>2, <1>7, <1>8 DEF RegularEvent
<1>10. PICK S : c \in Seq(S)
  BY <1>1 DEF RegularChronicle, IsSequence
<1> DEFINE d == [c EXCEPT ![p] = f]
<1>11. /\ d \in Seq(S \cup {f}) /\ DOMAIN d = DOMAIN c
       /\ \A i \in DOMAIN c : d[i] = IF i = p THEN f ELSE c[i]
  BY <1>10
<1>12. d # <<>>
  BY <1>11
<1> HIDE DEF d
<1>13. \A i \in DOMAIN c : d[i].id = c[i].id
  BY <1>8, <1>11 DEF e
<1>14. RegularChronicle(d, now + 1)
  BY <1>1, <1>9, <1>11, <1>12, <1>13 DEF RegularChronicle, IsSequence
<1> QED  BY <1>14 DEF d, f, e

(* A belief revised is held since epoch 1 still.                           *)
LEMMA BeliefsRevised ==
  ASSUME NEW s, NEW a, Turns(s, a, {}), s.epoch \in Nat, RegularBeliefs(s.beliefs, s.epoch),
         NEW m, m.args.proposition = "hypothesis"
  PROVE  LET b == Put(s.beliefs, "hypothesis", RevisedBelief(a, m)) IN
         /\ RegularBeliefs(b, s.epoch + 1)
         /\ b["hypothesis"].value = m.args.value /\ b["hypothesis"].ref = m.ref
         /\ b["hypothesis"].revised = s.epoch + 1
         /\ b["hypothesis"].history = Append(s.beliefs["hypothesis"].history,
                                             BeliefSnapshot(s.beliefs["hypothesis"]))
<1> DEFINE old == s.beliefs["hypothesis"]
<1> DEFINE new == RevisedBelief(a, m)
<1> DEFINE v == BeliefSnapshot(old)
<1>1. /\ a.beliefs = s.beliefs /\ a.epoch = s.epoch + 1
      /\ DOMAIN s.beliefs = {"hypothesis"}
      /\ old.proposition = "hypothesis" /\ old.established = 1 /\ IsSequence(old.history)
  BY DEF Turns, RegularBeliefs
<1> HIDE DEF v
<1>2. new = [ proposition |-> "hypothesis", value |-> m.args.value, established |-> old.established,
              revised |-> s.epoch + 1, ref |-> m.ref, history |-> Append(old.history, v) ]
  BY <1>1 DEF RevisedBelief, v
<1> DEFINE history == Append(old.history, v)
<1> HIDE DEF history
<1>3. /\ "established" \in DOMAIN new /\ new.proposition = "hypothesis" /\ new.established = 1
      /\ new.revised = s.epoch + 1 /\ new.value = m.args.value /\ new.ref = m.ref
      /\ new.history = history
  BY <1>1, <1>2 DEF history
<1>4. IsSequence(history)
  <2>1. PICK S : old.history \in Seq(S)
    BY <1>1 DEF IsSequence
  <2>2. Append(old.history, v) \in Seq(S \cup {v})
    BY <2>1
  <2> QED  BY <2>2 DEF IsSequence, history
<1> HIDE DEF new, old
<1> DEFINE b == Put(s.beliefs, "hypothesis", new)
<1>5. DOMAIN b = {"hypothesis"} /\ b["hypothesis"] = new
  BY <1>1 DEF Put
<1>6. s.epoch + 1 \in 0..(s.epoch + 1)
  OBVIOUS
<1> HIDE DEF b
<1>7. RegularBeliefs(b, s.epoch + 1)
  BY <1>3, <1>4, <1>5, <1>6 DEF RegularBeliefs
<1> QED  BY <1>3, <1>5, <1>7 DEF b, new, history, v, old

(* A relationship updated without interactions counts what it counted.     *)
LEMMA UpdatedIs ==
  ASSUME NEW s, NEW a, Turns(s, a, {}), NEW o, NEW entity \in {"collaborator", "stranger"},
         RegularRelations(s.relationships)
  PROVE  LET old == s.relationships[entity]
             new == UpdatedRelationship(a, Relate(o, entity, "HIGH", <<>>).args)
         IN  /\ new.entity = old.entity /\ new.tier = "HIGH" /\ new.count = old.count
             /\ new.ids = old.ids \o <<>>
<1> DEFINE old == s.relationships[entity]
<1> DEFINE x == Relate(o, entity, "HIGH", <<>>).args
<1>1. a.relationships = s.relationships /\ entity \in DOMAIN a.relationships
  BY DEF Turns, RegularRelations
<1>2. x.entity = entity /\ x.tier = "HIGH" /\ x.ids = <<>> /\ x.increment = 0
  BY DEF Relate, Mutation
<1> HIDE DEF x
<1> DEFINE ids == old.ids \o <<>>
<1>3. old.count + 0 = old.count
  BY DEF RegularRelations
<1> HIDE DEF old
<1>4. UpdatedRelationship(a, x) =
        [entity |-> old.entity, tier |-> "HIGH", count |-> old.count, ids |-> ids,
         last |-> a.timestamp]
  BY <1>1, <1>2, <1>3 DEF UpdatedRelationship, old
<1> HIDE DEF ids
<1>5. LET new == UpdatedRelationship(a, x) IN
        /\ new.entity = old.entity /\ new.tier = "HIGH" /\ new.count = old.count /\ new.ids = ids
  BY <1>4
<1> QED  BY <1>5 DEF x, ids, old

(* So the collaborator is trusted as before, or more.                      *)
LEMMA RelationsUpdated ==
  ASSUME NEW s, NEW a, Turns(s, a, {}), NEW o, RegularRelations(s.relationships)
  PROVE  RegularRelations(Put(s.relationships, "collaborator",
           UpdatedRelationship(a, Relate(o, "collaborator", "HIGH", <<>>).args)))
<1> DEFINE old == s.relationships["collaborator"]
<1> DEFINE new == UpdatedRelationship(a, Relate(o, "collaborator", "HIGH", <<>>).args)
<1>1. /\ new.entity = old.entity /\ new.tier = "HIGH" /\ new.count = old.count
      /\ new.ids = old.ids \o <<>>
  BY UpdatedIs
<1>2. /\ old.entity = "collaborator" /\ old.count = 2 /\ old.ids = <<"c1", "c2">>
      /\ DOMAIN s.relationships = {"collaborator", "stranger"}
  BY DEF RegularRelations
<1>3. <<"c1", "c2">> \o <<>> = <<"c1", "c2">>
  OBVIOUS
<1>4. new.entity = "collaborator" /\ new.count = 2 /\ new.ids = <<"c1", "c2">>
  BY <1>1, <1>2, <1>3
<1> HIDE DEF new, old
<1> DEFINE r == Put(s.relationships, "collaborator", new)
<1>5. /\ DOMAIN r = {"collaborator", "stranger"} /\ r["collaborator"] = new
      /\ r["stranger"] = s.relationships["stranger"]
  BY <1>2 DEF Put
<1> HIDE DEF r
<1>6. RegularRelations(r)
  BY <1>1, <1>4, <1>5 DEF RegularRelations
<1> QED  BY <1>6 DEF r, new

Lawful == {"L1", "L2", "L3", "L4", "L5", "L6", "L7", "L8", "L9", "L10"}

(* The parts of a mutation.                                                *)
LEMMA MutationFields ==
  ASSUME NEW op, NEW args, NEW ref, NEW i
  PROVE  LET m == Mutation(op, args, ref, i) IN
         /\ m.op = op /\ m.args = args /\ m.ref = ref /\ m.id = i /\ m.target = Targets[op]
  BY DEF Mutation

(* Cases that change the configuration only.                               *)
LEMMA ConfigManifest ==
  ASSUME NEW o, Made(o), o.name \in {"L8", "L9", "L10"} \cup OnTheUpgrade
  PROVE  \E m : /\ o.manifest = <<m>>
                /\ m.op \in {"UPDATE_RUNTIME_CONFIG", "REBIND_SUBSTRATE", "FORWARD_RESTORE"}
<1>1. CASE o.name \in {"L8"} \cup OnTheUpgrade
  <2>1. o.manifest = <<Upgrade(o)>>
    BY <1>1, ManifestIs
  <2>2. Upgrade(o).op = "UPDATE_RUNTIME_CONFIG"
    BY MutationFields DEF Upgrade
  <2> QED  BY <2>1, <2>2
<1>2. CASE o.name = "L9"
  <2> DEFINE m == Mutation("FORWARD_RESTORE", [restored |-> o.base.epoch], {Uri(o)}, 0)
  <2>1. o.manifest = <<m>>
    BY <1>2, ManifestIs
  <2>2. m.op = "FORWARD_RESTORE"
    BY MutationFields
  <2> QED  BY <2>1, <2>2
<1>3. CASE o.name = "L10"
  <2> DEFINE m == Mutation("REBIND_SUBSTRATE", [model |-> "b", proof |-> Uri(o)], {Uri(o)}, 0)
  <2>1. o.manifest = <<m>>
    BY <1>3, ManifestIs
  <2>2. m.op = "REBIND_SUBSTRATE"
    BY MutationFields
  <2> QED  BY <2>1, <2>2
<1> QED  BY <1>1, <1>2, <1>3

(* What turned, stays regular if what changed of it did.                   *)
LEMMA TurnedRegular ==
  ASSUME NEW s, NEW t, NEW changed, Regular(s), Turns(s, t, changed),
         "chronicle" \in changed => RegularChronicle(t.chronicle, s.timestamp + 1),
         "beliefs" \in changed => RegularBeliefs(t.beliefs, s.epoch + 1),
         "relationships" \in changed => RegularRelations(t.relationships),
         "memory" \in changed => IsSequence(t.memory),
         "rules" \notin changed
  PROVE  Regular(t)
<1>1. s.epoch \in Nat /\ s.timestamp \in Nat /\ t.epoch \in Nat /\ t.timestamp = t.epoch + 4
  BY DEF Regular, Turns
<1>2. RegularChronicle(t.chronicle, t.timestamp)
  BY <1>1, ChronicleAges DEF Regular, Turns
<1>3. RegularBeliefs(t.beliefs, t.epoch)
  BY <1>1, BeliefsAge DEF Regular, Turns
<1>4. RegularRelations(t.relationships) /\ IsSequence(t.memory)
  BY DEF Regular, Turns
<1> QED  BY <1>1, <1>2, <1>3, <1>4 DEF Regular, Turns

(* A lawful transition leaves a state like that,                           *)
LEMMA LawfulRegular ==
  ASSUME NEW o, Offered(o), o.name \in Lawful
  PROVE  /\ Regular(o.applied) /\ o.applied.epoch = o.base.epoch + 1
         /\ o.applied.timestamp = o.base.timestamp + 1
<1> DEFINE s == o.base
<1> DEFINE t == o.applied
<1>0. Regular(s) /\ Made(o) /\ s.epoch \in Nat /\ s.timestamp \in Nat
  BY DEF Offered, Regular
<1>1. \E changed \in {{}, {"knowledge"}, {"chronicle"}, {"beliefs"}, {"relationships"},
                      {"memory"}} :
        /\ Turns(s, t, changed)
        /\ "chronicle" \in changed => RegularChronicle(t.chronicle, s.timestamp + 1)
        /\ "beliefs" \in changed => RegularBeliefs(t.beliefs, s.epoch + 1)
        /\ "relationships" \in changed => RegularRelations(t.relationships)
        /\ "memory" \in changed => IsSequence(t.memory)
  <2>1. CASE o.name = "L1"
    BY <1>0, <2>1, ManifestIs, LearnOutcome DEF Changed
  <2>2. CASE o.name = "L2"
    <3>1. /\ Turns(s, t, {"chronicle"}) /\ t.chronicle = Append(s.chronicle, NewEvent(o, "finding"))
          /\ ~Holds(s, NewEvent(o, "finding").id)
      BY <1>0, <2>2, ManifestIs, ReportOutcome DEF Changed
    <3>2. ~Holds(s, Uri(o))
      BY <3>1, NewEventFields
    <3>3. RegularChronicle(t.chronicle, s.timestamp + 1)
      BY <1>0, <3>1, <3>2, ChronicleReported DEF Regular
    <3> QED  BY <3>1, <3>3
  <2>3. CASE o.name = "L3"
    <3> DEFINE m == Revise(o, ~o.base.beliefs["hypothesis"].value, 0)
    <3>1. m.args.proposition = "hypothesis"
      BY DEF Revise, Mutation
    <3>2. o.manifest = <<m>>
      BY <1>0, <2>3, ManifestIs
    <3>3. /\ Turns(s, t, {"beliefs"})
          /\ \E a : Turns(s, a, {}) /\ t.beliefs = Put(s.beliefs, "hypothesis", RevisedBelief(a, m))
      BY <3>2, ReviseOutcome DEF Changed
    <3> HIDE DEF m
    <3>4. RegularBeliefs(t.beliefs, s.epoch + 1)
      BY <1>0, <3>1, <3>3, BeliefsRevised DEF Regular
    <3> QED  BY <3>3, <3>4
  <2>4. CASE o.name = "L4"
    <3>1. /\ Turns(s, t, {"relationships"})
          /\ \E a : /\ Turns(s, a, {})
                    /\ t.relationships =
                         Put(s.relationships, "collaborator",
                             UpdatedRelationship(a, Relate(o, "collaborator", "HIGH", <<>>).args))
      BY <1>0, <2>4, ManifestIs, RelateOutcome DEF Changed
    <3>2. RegularRelations(t.relationships)
      BY <1>0, <3>1, RelationsUpdated DEF Regular
    <3> QED  BY <3>1, <3>2
  <2>5. CASE o.name \in {"L5", "L6"}
    <3>1. Turns(s, t, {"memory"}) /\ IsSequence(t.memory)
      <4>1. CASE o.name = "L5"
        BY <1>0, <4>1, ManifestIs, SummaryOutcome DEF Changed
      <4>2. CASE o.name = "L6"
        BY <1>0, <4>2, ManifestIs, PruneOutcome DEF Changed, Offered
      <4> QED  BY <2>5, <4>1, <4>2
    <3> QED  BY <3>1
  <2>6. CASE o.name = "L7"
    <3> DEFINE m == Annotate(o)
    <3>1. m.op = "ANNOTATE_CORRECTION"
      BY DEF Annotate, Mutation
    <3>2. o.manifest = <<m>>
      BY <1>0, <2>6, ManifestIs
    <3> HIDE DEF m
    <3>3. PICK p \in DOMAIN s.chronicle :
            t.chronicle = [s.chronicle EXCEPT ![p] = ChangedBy(m, s.chronicle[p])]
      BY <3>1, <3>2, EventOutcome
    <3>4. Turns(s, t, {"chronicle"})
      BY <3>1, <3>2, EventOutcome DEF Changed
    <3>5. RegularChronicle(t.chronicle, s.timestamp + 1)
      BY <1>0, <3>1, <3>3, ChronicleAnnotated DEF Regular
    <3> QED  BY <3>4, <3>5
  <2>7. CASE o.name \in {"L8", "L9", "L10"}
    BY <1>0, <2>7, ConfigManifest, ConfigOutcome DEF Changed
  <2> QED  BY <2>1, <2>2, <2>3, <2>4, <2>5, <2>6, <2>7 DEF Lawful
<1>2. PICK changed \in {{}, {"knowledge"}, {"chronicle"}, {"beliefs"}, {"relationships"},
                        {"memory"}} :
        /\ Turns(s, t, changed)
        /\ "chronicle" \in changed => RegularChronicle(t.chronicle, s.timestamp + 1)
        /\ "beliefs" \in changed => RegularBeliefs(t.beliefs, s.epoch + 1)
        /\ "relationships" \in changed => RegularRelations(t.relationships)
        /\ "memory" \in changed => IsSequence(t.memory)
  BY <1>1
<1>3. "rules" \notin changed
  BY <1>2
<1> QED  BY <1>0, <1>2, <1>3, TurnedRegular DEF Turns

(* and it is the candidate.                                                *)
LEMMA CandidateIsApplied ==
  ASSUME NEW o, o.name \notin {"I6", "state_application", "unlogged_history"}
  PROVE  CandidateOf(o) = o.applied
  BY DEF CandidateOf

------------------------------------------------------------------------------
(* A context with every key good and the evidence of the offer as stored.  *)
Trusting(X, o) ==
  /\ X.known = TRUE /\ X.identity = Identity /\ X.epoch = o.base.epoch
  /\ X.kernels = {"kernel"} /\ X.time = {o.base.timestamp + 2}
  /\ \A p \in Principals : Lookup(X.credentials, p) = {PlainCredential(p)}
  /\ Lookup(X.store, Uri(o)) = Stored(o)

(* One thing is one, two are two.                                          *)
LEMMA OneIsOne ==
  ASSUME NEW x
  PROVE  IsFiniteSet({x}) /\ Cardinality({x}) = 1
<1>1. IsFiniteSet({x}) /\ Cardinality({x}) = 1
  BY FS_Singleton
<1> QED  BY <1>1

(* two are two.                                                            *)
LEMMA TwoAreTwo ==
  ASSUME NEW x, NEW y, x # y
  PROVE  Cardinality({x, y}) = 2
<1>1. IsFiniteSet({x}) /\ Cardinality({x}) = 1
  BY OneIsOne
<1>2. y \notin {x}
  OBVIOUS
<1>3. Cardinality({x} \cup {y}) = Cardinality({x}) + 1
  BY <1>1, <1>2, FS_AddElement
<1>4. {x} \cup {y} = {x, y}
  OBVIOUS
<1> QED  BY <1>1, <1>3, <1>4

(* In a trusting context a signature of a principal is good,               *)
LEMMA GoodSignature ==
  ASSUME NEW kind, NEW payload, NEW p, NEW epoch \in Nat
  PROVE  VerifySignature(kind, payload, Sign(p, kind, payload), {PlainCredential(p)}, epoch)
           = "PASS"
<1> DEFINE c == PlainCredential(p)
<1> DEFINE s == [key |-> p, kind |-> kind, over |-> payload]
<1>1. The({c}) = c /\ Sign(p, kind, payload) = {s} /\ The({s}) = s
  BY TheOnly DEF Sign
<1>2. /\ c.key = p /\ c.from = 0 /\ c.until = {} /\ c.compromised = {} /\ c.revoked = {}
      /\ c.statusKnown = TRUE
  BY DEF PlainCredential
<1> HIDE DEF c
<1>3. s = [key |-> c.key, kind |-> kind, over |-> payload]
  BY <1>2
<1> HIDE DEF s
<1> DEFINE good == /\ epoch >= c.from /\ \A last \in c.until : epoch <= last
                   /\ \A e \in c.compromised \cup c.revoked : epoch < e
<1>4. VerifySignature(kind, payload, {s}, {c}, epoch) = Or(good, "FAIL")
  BY <1>1, <1>2, <1>3, Zenon DEF VerifySignature
<1>5. good
  BY <1>2
<1> QED  BY <1>1, <1>4, <1>5 DEF Or, c

(* and one over something else is not.                                     *)
LEMMA BadSignature ==
  ASSUME NEW kind, NEW payload, NEW other, other # payload, NEW p, NEW epoch
  PROVE  VerifySignature(kind, payload, Sign(p, kind, other), {PlainCredential(p)}, epoch) = "FAIL"
<1> DEFINE c == PlainCredential(p)
<1> DEFINE s == [key |-> p, kind |-> kind, over |-> other]
<1>1. The({c}) = c /\ Sign(p, kind, other) = {s} /\ The({s}) = s
  BY TheOnly DEF Sign
<1>2. s.over = other /\ [key |-> c.key, kind |-> kind, over |-> payload].over = payload
  OBVIOUS
<1> HIDE DEF c, s
<1>3. s # [key |-> c.key, kind |-> kind, over |-> payload]
  BY <1>2
<1>4. VerifySignature(kind, payload, {s}, {c}, epoch) = "FAIL"
  BY <1>1, <1>3, Zenon DEF VerifySignature
<1> QED  BY <1>1, <1>4 DEF c

(* A proposal before it is signed,                                         *)
Unprovided == {"D1", "provenance_missing", "unknown_and_invalid"}
Draft(o) ==
  [ identity |-> IF o.name = "scope" THEN "other" ELSE Identity,
    epoch |-> o.base.epoch,
    predecessor |-> IF o.name \in {"I8", "lineage_binding"} THEN Digest("OTHER", "stale")
                    ELSE StateDigest(o.base),
    manifest |-> o.manifest, authority |-> {},
    provenance |-> IF o.name \in Unprovided THEN {}
                   ELSE {[dependencies |-> <<One(o)>>, citations |-> {Uri(o)}]} ]
SignedBy(o, p) ==
  LET signer == [ principal |-> p, scope |-> "ALL_MUTATIONS", signature |-> {},
                  role |-> IF p = "runtime" THEN "RUNTIME" ELSE "IDENTITY_CUSTODIAN" ]
  IN  [signer EXCEPT !.signature = Sign(p, "AUTHORITY", AuthorityPayload(Draft(o), signer))]

(* and signed.                                                             *)
LEMMA ProposalIsDraft ==
  ASSUME NEW o
  PROVE  ProposalOf(o) =
           [Draft(o) EXCEPT !.authority =
              IF o.name = "authority_missing" THEN {}
              ELSE {[i \in DOMAIN SignersOf(o.name) |-> SignedBy(o, SignersOf(o.name)[i])]}]
  BY Zenon DEF ProposalOf, Draft, SignedBy, One, Unprovided

(* The parts of a proposal.                                                *)
LEMMA ProposalFields ==
  ASSUME NEW o
  PROVE  LET q == ProposalOf(o) IN
         /\ q.identity = IF o.name = "scope" THEN "other" ELSE Identity
         /\ q.epoch = o.base.epoch /\ q.manifest = o.manifest
         /\ q.predecessor = IF o.name \in {"I8", "lineage_binding"} THEN Digest("OTHER", "stale")
                            ELSE StateDigest(o.base)
         /\ q.provenance = IF o.name \in Unprovided THEN {}
                           ELSE {[dependencies |-> <<One(o)>>, citations |-> {Uri(o)}]}
         /\ q.authority = IF o.name = "authority_missing" THEN {}
              ELSE {[i \in DOMAIN SignersOf(o.name) |-> SignedBy(o, SignersOf(o.name)[i])]}
         /\ [q EXCEPT !.authority = {}] = Draft(o)
<1> DEFINE identity == IF o.name = "scope" THEN "other" ELSE Identity
<1> DEFINE predecessor == IF o.name \in {"I8", "lineage_binding"} THEN Digest("OTHER", "stale")
                            ELSE StateDigest(o.base)
<1> DEFINE provenance == IF o.name \in Unprovided THEN {}
                           ELSE {[dependencies |-> <<One(o)>>, citations |-> {Uri(o)}]}
<1> DEFINE authority == IF o.name = "authority_missing" THEN {}
              ELSE {[i \in DOMAIN SignersOf(o.name) |-> SignedBy(o, SignersOf(o.name)[i])]}
<1> DEFINE d == Draft(o)
<1>1. ProposalOf(o) = [d EXCEPT !.authority = authority]
  BY ProposalIsDraft
<1> HIDE DEF identity, predecessor, provenance, authority
<1>2. d = [ identity |-> identity, epoch |-> o.base.epoch, predecessor |-> predecessor,
            manifest |-> o.manifest, authority |-> {}, provenance |-> provenance ]
  BY DEF Draft, identity, predecessor, provenance
<1>3. /\ d = [i \in DOMAIN d |-> d[i]] /\ "authority" \in DOMAIN d /\ d.authority = {}
      /\ d.identity = identity /\ d.epoch = o.base.epoch /\ d.predecessor = predecessor
      /\ d.manifest = o.manifest /\ d.provenance = provenance
  BY <1>2
<1> HIDE DEF d
<1> DEFINE q == [d EXCEPT !.authority = authority]
<1>4. /\ q.identity = identity /\ q.epoch = o.base.epoch /\ q.predecessor = predecessor
      /\ q.manifest = o.manifest /\ q.provenance = provenance /\ q.authority = authority
  BY <1>3
<1>5. [q EXCEPT !.authority = {}] = d
  BY <1>3
<1> HIDE DEF q
<1> QED  BY <1>1, <1>4, <1>5 DEF q, identity, predecessor, provenance, authority, d

(* Who signs, signs the proposal there is.                                 *)
LEMMA SignerFields ==
  ASSUME NEW o, NEW p
  PROVE  LET x == SignedBy(o, p) IN
         /\ x.principal = p /\ x.scope = "ALL_MUTATIONS"
         /\ x.role = IF p = "runtime" THEN "RUNTIME" ELSE "IDENTITY_CUSTODIAN"
         /\ x.signature = Sign(p, "AUTHORITY", AuthorityPayload(ProposalOf(o), x))
<1> DEFINE role == IF p = "runtime" THEN "RUNTIME" ELSE "IDENTITY_CUSTODIAN"
<1> DEFINE b == [ principal |-> p, scope |-> "ALL_MUTATIONS", signature |-> {}, role |-> role ]
<1> DEFINE s == Sign(p, "AUTHORITY", AuthorityPayload(Draft(o), b))
<1> DEFINE x == SignedBy(o, p)
<1>1. x = [b EXCEPT !.signature = s]
  BY Zenon DEF SignedBy
<1> HIDE DEF s, role
<1>2. /\ x.principal = p /\ x.scope = "ALL_MUTATIONS" /\ x.role = role /\ x.signature = s
      /\ b.principal = p /\ b.scope = "ALL_MUTATIONS" /\ b.role = role
  BY <1>1
<1> HIDE DEF x, b
<1>3. AuthorityPayload(ProposalOf(o), x) = <<Draft(o), p, role, "ALL_MUTATIONS">>
  BY Zenon, ProposalFields, <1>2 DEF AuthorityPayload
<1>4. AuthorityPayload(Draft(o), b) = <<Draft(o), p, role, "ALL_MUTATIONS">>
  <2> DEFINE d == Draft(o)
  <2>1. d = [i \in DOMAIN d |-> d[i]] /\ d.authority = {}
    BY DEF Draft
  <2> HIDE DEF d
  <2>2. [d EXCEPT !.authority = {}] = d
    BY <2>1
  <2>3. AuthorityPayload(d, b) = <<d, p, role, "ALL_MUTATIONS">>
    BY <1>2, <2>2, Zenon DEF AuthorityPayload
  <2> QED  BY <2>3 DEF d
<1>5. x.signature = Sign(p, "AUTHORITY", AuthorityPayload(ProposalOf(o), x))
  BY <1>2, <1>3, <1>4 DEF s
<1> QED  BY <1>2, <1>5 DEF x, role

(* The signers of a proposal.                                              *)
LEMMA SignersAre ==
  ASSUME NEW o
  PROVE  Signers(ProposalOf(o)) =
           IF o.name = "authority_missing" THEN <<>>
           ELSE [i \in DOMAIN SignersOf(o.name) |-> SignedBy(o, SignersOf(o.name)[i])]
<1> DEFINE f == [i \in DOMAIN SignersOf(o.name) |-> SignedBy(o, SignersOf(o.name)[i])]
<1>1. ProposalOf(o).authority = IF o.name = "authority_missing" THEN {} ELSE {f}
  BY ProposalFields
<1>2. The({f}) = f
  BY TheOnly
<1> HIDE DEF f
<1> QED  BY <1>1, <1>2 DEF Signers, f

Outsiders == {"I7", "authority", "authority_and_normative"}

(* Cases of the generator proper are signed by both governors, but these.  *)
LEMMA BothSign ==
  ASSUME NEW o, o.name \notin Extra
  PROVE  SignersOf(o.name) = IF o.name \in Outsiders THEN <<"outsider">> ELSE <<"gov1", "gov2">>
  BY DEF SignersOf, Extra, Outsiders

(* Two governors have all the authority there is,                          *)
LEMMA GovernorsDecide ==
  ASSUME NEW o, Offered(o), NEW X, Trusting(X, o), o.name \notin Extra \cup Outsiders,
         o.name # "authority_missing"
  PROVE  CheckAuthority({ProposalOf(o)}, o.base, PolicyOf(o), X) = "PASS"
<1> DEFINE q == ProposalOf(o)
<1> DEFINE names == <<"gov1", "gov2">>
<1> DEFINE x == SignedBy(o, "gov1")
<1> DEFINE y == SignedBy(o, "gov2")
<1> DEFINE s == o.base
<1>1. Signers(q) = [i \in DOMAIN names |-> SignedBy(o, names[i])]
  BY SignersAre, BothSign
<1>2. DOMAIN names = {1, 2} /\ names[1] = "gov1" /\ names[2] = "gov2"
  OBVIOUS
<1>3. DOMAIN Signers(q) = {1, 2} /\ Signers(q)[1] = x /\ Signers(q)[2] = y /\ Len(Signers(q)) = 2
  <2>1. DOMAIN Signers(q) = {1, 2} /\ Signers(q)[1] = x /\ Signers(q)[2] = y
    BY <1>1, <1>2
  <2>2. Signers(q) = [i \in 1..2 |-> SignedBy(o, names[i])]
    BY <1>1
  <2> HIDE DEF q, names
  <2>3. Len([i \in 1..2 |-> SignedBy(o, names[i])]) = 2
    OBVIOUS
  <2> QED  BY <2>1, <2>2, <2>3
<1>4. ToSet(Signers(q)) = {x, y}
  <2> HIDE DEF q, x, y
  <2> QED  BY <1>3 DEF ToSet
<1>5. /\ x.principal = "gov1" /\ y.principal = "gov2"
      /\ x.role = "IDENTITY_CUSTODIAN" /\ y.role = "IDENTITY_CUSTODIAN"
      /\ x.scope = "ALL_MUTATIONS" /\ y.scope = "ALL_MUTATIONS"
      /\ x.signature = Sign("gov1", "AUTHORITY", AuthorityPayload(q, x))
      /\ y.signature = Sign("gov2", "AUTHORITY", AuthorityPayload(q, y))
  BY SignerFields
<1>6. q.epoch = s.epoch /\ s.epoch \in Nat /\ s.governance = Genesis.governance
  BY ProposalFields DEF Offered, Regular
<1>7. {"gov1", "gov2"} \subseteq Principals /\ {"gov1", "gov2"} \subseteq Governors
  BY DEF Principals, Governors
<1> HIDE DEF q, x, y
<1>8. SignerStatus(q, x, X) = "PASS" /\ SignerStatus(q, y, X) = "PASS"
  BY <1>7, <1>5, <1>6, GoodSignature DEF Trusting, SignerStatus
<1>9. ASSUME NEW p \in {"gov1", "gov2"}
      PROVE  /\ Lookup(s.governance, p) = {s.governance[p]}
             /\ s.governance[p].role = "IDENTITY_CUSTODIAN"
             /\ s.governance[p].scopes = {"ALL_MUTATIONS"}
  <2> DEFINE g == [z \in Governors \cup {"runtime"} |->
      [ role |-> IF z \in Governors THEN "IDENTITY_CUSTODIAN" ELSE "RUNTIME",
        scopes |-> {"ALL_MUTATIONS"} ]]
  <2>1. s.governance = g
    BY <1>6 DEF Genesis
  <2>2. p \in DOMAIN g /\ g[p] = [role |-> "IDENTITY_CUSTODIAN", scopes |-> {"ALL_MUTATIONS"}]
    BY <1>7
  <2> HIDE DEF g
  <2> QED  BY <2>1, <2>2 DEF Lookup
<1>10. Granted(s, x) /\ Granted(s, y)
  BY <1>5, <1>9 DEF Granted
<1>11. \A m : InScope(s, x, m) /\ InScope(s, y, m)
  BY <1>5, <1>9 DEF InScope
<1>12. \A m : EligibleFor(q, s, X, m) = {x, y}
  BY <1>4, <1>8, <1>10, <1>11 DEF EligibleFor
<1>13. x # y
  BY <1>5
<1>14. Cardinality({x, y}) = 2 /\ Cardinality({"gov1", "gov2"}) = 2
  BY <1>13, TwoAreTwo
<1>15. \A m : Threshold(PolicyOf(o), m) \in {1, 2}
  BY DEF PolicyOf, DefaultPolicy, Threshold
<1>16. ~Outnumbered(q, s, PolicyOf(o), X)
  BY <1>12, <1>14, <1>15 DEF Outnumbered
<1>17. ~NamedTwice(q)
  BY <1>4, <1>5, <1>3, <1>14 DEF NamedTwice
<1>18. /\ SignatureStatuses(q, X) = {"PASS"} /\ GrantStatuses(q, s) = {"PASS"}
  BY <1>4, <1>8, <1>10 DEF SignatureStatuses, GrantStatuses, Or
<1>19. Combine({"PASS"} \cup {"PASS"}) = "PASS" /\ "FAIL" \notin {"PASS"} \cup {"PASS"}
  BY DEF Combine
<1>20. ToSet(Signers(q)) # {}
  BY <1>4
<1>21. CheckAuthority({q}, s, PolicyOf(o), X) = "PASS"
  BY <1>16, <1>17, <1>18, <1>19, <1>20, AuthorityShape
<1> QED  BY <1>21 DEF q

(* an outsider has none,                                                   *)
LEMMA OutsiderFails ==
  ASSUME NEW o, Offered(o), NEW X, o.name \in Outsiders
  PROVE  CheckAuthority({ProposalOf(o)}, o.base, PolicyOf(o), X) = "FAIL"
<1> DEFINE q == ProposalOf(o)
<1>1. Signers(q) # <<>> /\ "gov1" \notin ToSet(SignersOf(o.name))
  <2>1. SignersOf(o.name) = <<"outsider">>
    BY DEF SignersOf, Outsiders
  <2>2. o.name # "authority_missing"
    BY DEF Outsiders
  <2>3. DOMAIN <<"outsider">> = {1} /\ <<"outsider">>[1] = "outsider" /\ DOMAIN <<>> = {}
    OBVIOUS
  <2>4. DOMAIN Signers(q) = {1}
    BY <2>1, <2>2, <2>3, SignersAre
  <2> HIDE DEF q
  <2> QED  BY <2>1, <2>3, <2>4 DEF ToSet
<1>2. PICK x \in ToSet(Signers(q)) : x.principal = "outsider"
  BY <1>1, OutsiderSigns
<1>3. DOMAIN o.base.governance = {"gov1", "gov2", "runtime"}
  BY DEF Offered, Regular, Genesis, Governors
<1>4. ~Granted(o.base, x)
  BY <1>2, <1>3 DEF Granted, Lookup
<1> HIDE DEF q
<1>5. "FAIL" \in GrantStatuses(q, o.base)
  BY <1>4 DEF GrantStatuses, Or
<1>6. CheckAuthority({q}, o.base, PolicyOf(o), X) = "FAIL"
  BY <1>2, <1>5, AuthorityShape
<1> QED  BY <1>6 DEF q

(* and nobody at all leaves it open.                                       *)
LEMMA NobodySigns ==
  ASSUME NEW o, o.name = "authority_missing", NEW s, NEW policy, NEW X
  PROVE  CheckAuthority({ProposalOf(o)}, s, policy, X) = "UNKNOWN"
<1>1. Signers(ProposalOf(o)) = <<>>
  BY SignersAre
<1>2. ToSet(<<>>) = {}
  BY DEF ToSet
<1> QED  BY <1>1, <1>2, AuthorityShape

(* The evidence of an offer, as a trusting context resolves it.            *)
LEMMA DependencyIs ==
  ASSUME NEW o, NEW X, Trusting(X, o)
  PROVE  DependencyStatus(One(o), X) =
           IF o.name \in Unstored THEN "UNKNOWN"
           ELSE IF o.name \in Corrupted THEN "FAIL" ELSE "PASS"
<1>1. One(o).uri = Uri(o) /\ One(o).digest = Digest("EVIDENCE", EvidenceOf(o))
  BY DEF One
<1>2. Resolved(X, {One(o).uri}) = Stored(o)
  BY <1>1 DEF Resolved, Trusting
<1>3. Stored(o) = {} <=> o.name \in Unstored
  BY DEF Stored, Unstored
<1>4. CASE o.name \in Unstored
  BY <1>2, <1>3, <1>4 DEF DependencyStatus
<1>5. CASE o.name \notin Unstored
  <2>1. (The(Stored(o)) = EvidenceOf(o)) <=> o.name \notin Corrupted
    BY <1>3, <1>5, StoredShape
  <2>2. (Digest("EVIDENCE", EvidenceOf(o)) = Digest("EVIDENCE", The(Stored(o))))
          <=> (The(Stored(o)) = EvidenceOf(o))
    BY DEF Digest
  <2> QED  BY <1>1, <1>2, <1>3, <1>5, <2>1, <2>2 DEF DependencyStatus, Or
<1> QED  BY <1>4, <1>5

(* Every mutation cites the evidence of the offer, if any.                 *)
CitesWell(o, m) ==
  /\ (m.op \in EvidenceOps => m.ref # {}) /\ m.ref \subseteq {Uri(o)}
  /\ \A e \in AcquiredFrom(m) : e # {} /\ e \subseteq {Uri(o)}
WellCited(o) == \A i \in DOMAIN o.manifest : CitesWell(o, o.manifest[i])

(* So what a proposal says of its provenance is whole.                     *)
LEMMA RestIsWhole ==
  ASSUME NEW o, WellCited(o), o.name \notin Unprovided
  PROVE  ~Confused(ProposalOf(o)) /\ ProvenanceRest(ProposalOf(o)) \subseteq {"PASS"}
<1> DEFINE q == ProposalOf(o)
<1> DEFINE p == [dependencies |-> <<One(o)>>, citations |-> {Uri(o)}]
<1>1. q.provenance = {p} /\ q.manifest = o.manifest /\ q.provenance # {}
  BY ProposalFields
<1>2. The(q.provenance) = p
  BY <1>1, TheOnly
<1>3. p.dependencies = <<One(o)>> /\ p.citations = {Uri(o)} /\ Len(<<One(o)>>) = 1
  OBVIOUS
<1>4. Dependencies({q}) = {One(o)}
  BY <1>1, DependsOnOne
<1>5. One(o).id = Uri(o) /\ One(o).uri = Uri(o)
  BY DEF One
<1> HIDE DEF q, p
<1>6. {d.id : d \in Dependencies({q})} = {Uri(o)} /\ {d.uri : d \in Dependencies({q})} = {Uri(o)}
  BY <1>4, <1>5
<1>7. ~Confused(q)
  BY <1>2, <1>3, <1>6, OneIsOne DEF Confused
<1> DEFINE M(i) == q.manifest[i]
<1> DEFINE ops == DOMAIN q.manifest
<1> DEFINE required == (UNION {M(i).ref : i \in ops}) \cup The(q.provenance).citations
<1> DEFINE ids == {d.id : d \in Dependencies({q})}
<1> DEFINE uris == {d.uri : d \in Dependencies({q})}
<1> DEFINE B == {Or(M(i).op \in EvidenceOps => M(i).ref # {}, "UNKNOWN") : i \in ops}
<1> DEFINE C == {Or(required \subseteq ids, "UNKNOWN")}
<1> DEFINE D == {Or(\A e \in AcquiredFrom(M(i)) : e # {} /\ e \subseteq uris,
                    "UNKNOWN") : i \in ops}
<1>8. ProvenanceRest(q) = B \cup C \cup D
  BY Zenon DEF ProvenanceRest
<1>9. ASSUME NEW i \in ops PROVE CitesWell(o, M(i))
  BY <1>1 DEF WellCited
<1>10. B \subseteq {"PASS"}
  BY <1>9 DEF CitesWell, Or
<1>11. required \subseteq ids
  <2>1. ids = {Uri(o)} /\ The(q.provenance).citations = {Uri(o)}
    BY <1>2, <1>3, <1>6
  <2>2. \A i \in ops : M(i).ref \subseteq {Uri(o)}
    BY <1>9 DEF CitesWell
  <2> HIDE DEF ids
  <2> QED  BY <2>1, <2>2
<1>12. C \subseteq {"PASS"}
  BY <1>11 DEF Or
<1>13. ASSUME NEW i \in ops
       PROVE  Or(\A e \in AcquiredFrom(M(i)) : e # {} /\ e \subseteq uris, "UNKNOWN") = "PASS"
  BY <1>6, <1>9 DEF CitesWell, Or
<1>14. D \subseteq {"PASS"}
  BY <1>13
<1> HIDE DEF B, C, D
<1> QED  BY <1>7, <1>8, <1>10, <1>12, <1>14 DEF q

(* What a cited offer's provenance comes to.                               *)
LEMMA ProvenanceIs ==
  ASSUME NEW o, NEW X, Trusting(X, o), WellCited(o)
  PROVE  CheckProvenance({ProposalOf(o)}, X) =
           IF o.name \in Unprovided \cup Unstored THEN "UNKNOWN"
           ELSE IF o.name \in Corrupted THEN "FAIL" ELSE "PASS"
<1> DEFINE q == ProposalOf(o)
<1> DEFINE status == DependencyStatus(One(o), X)
<1>1. q.provenance = {} <=> o.name \in Unprovided
  BY ProposalFields
<1>2. CASE o.name \in Unprovided
  BY <1>1, <1>2, ProvenanceShape
<1>3. CASE o.name \notin Unprovided
  <2>1. Dependencies({q}) = {One(o)}
    BY <1>1, <1>3, DependsOnOne
  <2>2. ~Confused(q) /\ ProvenanceRest(q) \subseteq {"PASS"}
    BY <1>3, RestIsWhole
  <2>3. CheckProvenance({q}, X) =
          Combine({DependencyStatus(d, X) : d \in Dependencies({q})} \cup ProvenanceRest(q))
    BY <1>1, <1>3, <2>2, ProvenanceShape
  <2> HIDE DEF q
  <2>4. {DependencyStatus(d, X) : d \in Dependencies({q})} = {status}
    BY <2>1
  <2>5. status = IF o.name \in Unstored THEN "UNKNOWN"
                 ELSE IF o.name \in Corrupted THEN "FAIL" ELSE "PASS"
    BY DependencyIs
  <2> HIDE DEF status
  <2>6. CheckProvenance({q}, X) = Combine({status} \cup ProvenanceRest(q))
    BY <2>3, <2>4
  <2>7. Combine({status} \cup ProvenanceRest(q)) = status
    BY <2>2, <2>5 DEF Combine
  <2>8. CheckProvenance({q}, X) = status
    BY <2>6, <2>7
  <2> QED  BY <1>3, <2>5, <2>8 DEF q
<1> QED  BY <1>2, <1>3

(* Corrupted evidence fails, whatever else is cited.                       *)
LEMMA CorruptedFails ==
  ASSUME NEW o, NEW X, Trusting(X, o), o.name \in Corrupted
  PROVE  CheckProvenance({ProposalOf(o)}, X) = "FAIL"
<1> DEFINE q == ProposalOf(o)
<1>1. q.provenance # {}
  BY ProposalFields DEF Unprovided, Corrupted
<1>2. Dependencies({q}) = {One(o)}
  BY <1>1, DependsOnOne
<1>3. DependencyStatus(One(o), X) = "FAIL"
  BY DependencyIs DEF Unstored, Corrupted
<1> HIDE DEF q
<1> DEFINE each == {DependencyStatus(d, X) : d \in Dependencies({q})}
<1>4. "FAIL" \in each
  BY <1>2, <1>3
<1>5. CheckProvenance({q}, X) = IF Confused(q) THEN "FAIL" ELSE Combine(each \cup ProvenanceRest(q))
  BY <1>1, ProvenanceShape
<1> HIDE DEF each
<1>6. CheckProvenance({q}, X) = "FAIL"
  BY <1>4, <1>5 DEF Combine
<1> QED  BY <1>6 DEF q

(* An offer without provenance leaves it open.                             *)
LEMMA UnprovidedIsOpen ==
  ASSUME NEW o, NEW X, o.name \in Unprovided
  PROVE  CheckProvenance({ProposalOf(o)}, X) = "UNKNOWN"
<1>1. ProposalOf(o).provenance = {}
  BY ProposalFields
<1> QED  BY <1>1, ProvenanceShape

(* The lawful cases, upgrades and successions cite well.                   *)
LEMMA CitedWell ==
  ASSUME NEW o, Made(o), o.manifest # <<>>, o.name \in Lawful \cup OnTheUpgrade \cup Successions
  PROVE  WellCited(o)
<1> DEFINE Quiet(m) == m.op \notin {"APPEND_CHRONICLE", "INSERT_KNOWLEDGE"}
<1>1. ASSUME NEW m, CitesWell(o, m), o.manifest = <<m>> PROVE WellCited(o)
  BY <1>1 DEF WellCited
<1>2. ASSUME NEW m, Quiet(m), m.ref = {Uri(o)} \/ (m.ref = {} /\ m.op \notin EvidenceOps)
      PROVE  CitesWell(o, m)
  BY <1>2 DEF AcquiredFrom, CitesWell
<1> HIDE DEF Quiet
<1>3. CASE o.name = "L1"
  <2> DEFINE m == Learn(o, o.base.timestamp)
  <2>1. /\ m.op = "INSERT_KNOWLEDGE" /\ m.ref = {Uri(o)} /\ m.args.value.structured
        /\ m.args.value.evidence = {Uri(o)}
    BY DEF Learn, Mutation, Claim
  <2>2. o.manifest = <<m>>
    BY <1>3, ManifestIs
  <2> HIDE DEF m
  <2>3. AcquiredFrom(m) = {{Uri(o)}}
    BY <2>1 DEF AcquiredFrom
  <2>4. CitesWell(o, m)
    BY <2>1, <2>3 DEF CitesWell
  <2> QED  BY <1>1, <2>2, <2>4
<1>4. CASE o.name = "L2"
  <2> DEFINE m == Report(o, "finding")
  <2>1. m.op = "APPEND_CHRONICLE" /\ m.ref = {Uri(o)} /\ m.args.event = NewEvent(o, "finding")
    BY DEF Report, Mutation
  <2>2. m.args.event.evidence = {Uri(o)}
    BY <2>1, NewEventFields
  <2>3. o.manifest = <<m>>
    BY <1>4, ManifestIs
  <2> HIDE DEF m
  <2>4. AcquiredFrom(m) = {{Uri(o)}}
    BY <2>1, <2>2 DEF AcquiredFrom
  <2>5. CitesWell(o, m)
    BY <2>1, <2>4 DEF CitesWell
  <2> QED  BY <1>1, <2>3, <2>5
<1>5. CASE o.name = "L5"
  <2> DEFINE m == Evict
  <2> DEFINE k == Summarize(o)
  <2>1. /\ m.op = "EVICT_BUFFER" /\ m.ref = {} /\ k.op = "INSERT_SUMMARY" /\ k.ref = {Uri(o)}
    BY DEF Evict, Summarize, Mutation
  <2>2. o.manifest = <<m, k>>
    BY <1>5, ManifestIs
  <2> HIDE DEF m, k
  <2>3. CitesWell(o, m) /\ CitesWell(o, k)
    BY <1>2, <2>1 DEF Quiet, EvidenceOps
  <2>4. DOMAIN <<m, k>> = {1, 2} /\ <<m, k>>[1] = m /\ <<m, k>>[2] = k
    OBVIOUS
  <2> QED  BY <2>2, <2>3, <2>4 DEF WellCited
<1>6. CASE o.name \notin {"L1", "L2", "L5"}
  <2>1. \E m : /\ o.manifest = <<m>> /\ Quiet(m)
               /\ m.ref = {Uri(o)} \/ (m.ref = {} /\ m.op \notin EvidenceOps)
    <3>1. CASE o.name = "L3"
      <4> DEFINE m == Revise(o, ~o.base.beliefs["hypothesis"].value, 0)
      <4>1. m.op = "REVISE_BELIEF" /\ m.ref = {Uri(o)}
        BY DEF Revise, Mutation
      <4>2. o.manifest = <<m>>
        BY <3>1, ManifestIs
      <4> HIDE DEF m
      <4> QED  BY <4>1, <4>2 DEF Quiet
    <3>2. CASE o.name = "L4"
      <4> DEFINE m == Relate(o, "collaborator", "HIGH", <<>>)
      <4>1. m.op = "UPDATE_TRUST_TIER" /\ m.ref = {Uri(o)}
        BY DEF Relate, Mutation
      <4>2. o.manifest = <<m>>
        BY <3>2, ManifestIs
      <4> HIDE DEF m
      <4> QED  BY <4>1, <4>2 DEF Quiet
    <3>3. CASE o.name = "L6"
      <4>1. PICK session :
              o.manifest = <<Mutation("PRUNE_EXPIRED_CONTEXT", [session |-> session], {}, 0)>>
        BY <3>3, ManifestIs
      <4> DEFINE m == Mutation("PRUNE_EXPIRED_CONTEXT", [session |-> session], {}, 0)
      <4>2. m.op = "PRUNE_EXPIRED_CONTEXT" /\ m.ref = {}
        BY DEF Mutation
      <4> HIDE DEF m
      <4> QED  BY <4>1, <4>2 DEF Quiet, EvidenceOps, m
    <3>4. CASE o.name = "L7"
      <4> DEFINE m == Annotate(o)
      <4>1. m.op = "ANNOTATE_CORRECTION" /\ m.ref = {Uri(o)}
        BY DEF Annotate, Mutation
      <4>2. o.manifest = <<m>>
        BY <3>4, ManifestIs
      <4> HIDE DEF m
      <4> QED  BY <4>1, <4>2 DEF Quiet
    <3>5. CASE o.name \in {"L8"} \cup OnTheUpgrade
      <4> DEFINE m == Upgrade(o)
      <4>1. m.op = "UPDATE_RUNTIME_CONFIG" /\ m.ref = {}
        BY DEF Upgrade, Mutation
      <4>2. o.manifest = <<m>>
        BY <3>5, ManifestIs
      <4> HIDE DEF m
      <4> QED  BY <4>1, <4>2 DEF Quiet, EvidenceOps
    <3>6. CASE o.name = "L9"
      <4> DEFINE m == Mutation("FORWARD_RESTORE", [restored |-> o.base.epoch], {Uri(o)}, 0)
      <4>1. m.op = "FORWARD_RESTORE" /\ m.ref = {Uri(o)}
        BY DEF Mutation
      <4>2. o.manifest = <<m>>
        BY <3>6, ManifestIs
      <4> HIDE DEF m
      <4> QED  BY <4>1, <4>2 DEF Quiet
    <3>7. CASE o.name = "L10"
      <4> DEFINE m == Mutation("REBIND_SUBSTRATE", [model |-> "b", proof |-> Uri(o)], {Uri(o)}, 0)
      <4>1. m.op = "REBIND_SUBSTRATE" /\ m.ref = {Uri(o)}
        BY DEF Mutation
      <4>2. o.manifest = <<m>>
        BY <3>7, ManifestIs
      <4> HIDE DEF m
      <4> QED  BY <4>1, <4>2 DEF Quiet
    <3>8. CASE o.name \in Successions
      <4> DEFINE m == Claims
      <4>1. m.op = "CLAIM_SUCCESSION" /\ m.ref = {}
        BY DEF Claims, Mutation
      <4>2. o.manifest = <<m>>
        BY <3>8, ManifestIs DEF Successions
      <4> HIDE DEF m
      <4> QED  BY <4>1, <4>2 DEF Quiet, EvidenceOps
    <3> QED  BY <1>6, <3>1, <3>2, <3>3, <3>4, <3>5, <3>6, <3>7, <3>8 DEF Lawful
  <2> QED  BY <1>1, <1>2, <2>1
<1> QED  BY <1>3, <1>4, <1>5, <1>6

------------------------------------------------------------------------------
(* The core a receipt commits to, and the receipt before it is signed.     *)
CoreOf(o) == [proposal |-> ProposalOf(o), records |-> RecordsOf(o, ProposalOf(o))]
BlankReceipt(o) ==
  [ kernel |-> "kernel", identity |-> ProposalOf(o).identity, epoch |-> ProposalOf(o).epoch,
    parent |-> ProposalOf(o).predecessor, successor |-> StateDigest(CandidateOf(o)),
    core |-> IF o.name = "receipt_binding" THEN Digest("OTHER", "wrong")
             ELSE CoreDigest(CoreOf(o)), signature |-> {} ]
Forged == {"I9", "receipt_signature"}
SignedReceipt(o) ==
  [BlankReceipt(o) EXCEPT !.signature =
     Sign("kernel", "COMMIT-RECEIPT",
          Unsigned(IF o.name \in Forged THEN [BlankReceipt(o) EXCEPT !.epoch = -1]
                   ELSE BlankReceipt(o)))]

(* The parts of a witness.                                                 *)
LEMMA WitnessFields ==
  ASSUME NEW o
  PROVE  LET w == WitnessOf(o) IN
         /\ w.proposal = ProposalOf(o) /\ w.records = RecordsOf(o, ProposalOf(o))
         /\ w.receipt = {SignedReceipt(o)}
<1> DEFINE q == ProposalOf(o)
<1> DEFINE core == [proposal |-> q, records |-> RecordsOf(o, q)]
<1> DEFINE records == core.records
<1> DEFINE r == ReceiptOf(o, core)
<1>1. WitnessOf(o) = [proposal |-> q, records |-> records, receipt |-> {r}]
  BY Zenon DEF WitnessOf
<1>2. core.proposal = q /\ records = RecordsOf(o, q) /\ core = CoreOf(o)
  <2> DEFINE x == RecordsOf(o, q)
  <2> HIDE DEF x, q
  <2>1. [proposal |-> q, records |-> x].proposal = q /\ [proposal |-> q, records |-> x].records = x
    OBVIOUS
  <2> QED  BY <2>1 DEF CoreOf, q, x
<1> HIDE DEF core, records
<1>3. r = SignedReceipt(o)
  <2>1. ReceiptOf(o, core) =
          LET receipt == [ kernel |-> "kernel", identity |-> core.proposal.identity,
                           epoch |-> core.proposal.epoch, parent |-> core.proposal.predecessor,
                           successor |-> StateDigest(CandidateOf(o)),
                           core |-> IF o.name = "receipt_binding" THEN Digest("OTHER", "wrong")
                                    ELSE CoreDigest(core), signature |-> {} ]
          IN  [receipt EXCEPT !.signature =
                 Sign("kernel", "COMMIT-RECEIPT",
                      Unsigned(IF o.name \in {"I9", "receipt_signature"}
                                 THEN [receipt EXCEPT !.epoch = -1] ELSE receipt))]
    BY Zenon DEF ReceiptOf
  <2> HIDE DEF q
  <2> QED  BY <1>2, <2>1, Zenon DEF SignedReceipt, BlankReceipt, Forged, q
<1> HIDE DEF r, q
<1>4. LET w == [proposal |-> q, records |-> records, receipt |-> {r}] IN
        w.proposal = q /\ w.records = records /\ w.receipt = {r}
  OBVIOUS
<1> QED  BY <1>1, <1>2, <1>3, <1>4 DEF q

(* The parts of a receipt, and what it is signed over.                     *)
LEMMA ReceiptFields ==
  ASSUME NEW o, o.base.epoch \in Nat
  PROVE  LET r == SignedReceipt(o)
             q == ProposalOf(o)
         IN
         /\ r.kernel = "kernel" /\ r.identity = q.identity /\ r.epoch = q.epoch
         /\ r.parent = q.predecessor /\ r.successor = StateDigest(CandidateOf(o))
         /\ r.core = IF o.name = "receipt_binding" THEN Digest("OTHER", "wrong")
                     ELSE CoreDigest(CoreOf(o))
         /\ \E payload : /\ r.signature = Sign("kernel", "COMMIT-RECEIPT", payload)
                         /\ payload = Unsigned(r) <=> o.name \notin Forged
<1> DEFINE q == ProposalOf(o)
<1> DEFINE b == BlankReceipt(o)
<1> DEFINE over == IF o.name \in Forged THEN [b EXCEPT !.epoch = -1] ELSE b
<1> DEFINE payload == Unsigned(over)
<1> DEFINE s == Sign("kernel", "COMMIT-RECEIPT", payload)
<1> DEFINE r == SignedReceipt(o)
<1>1. r = [b EXCEPT !.signature = s]
  BY Zenon DEF SignedReceipt
<1>2. /\ b = [i \in DOMAIN b |-> b[i]] /\ {"epoch", "signature"} \subseteq DOMAIN b
      /\ b.signature = {} /\ b.kernel = "kernel" /\ b.identity = q.identity /\ b.epoch = q.epoch
      /\ b.parent = q.predecessor /\ b.successor = StateDigest(CandidateOf(o))
      /\ b.core = IF o.name = "receipt_binding" THEN Digest("OTHER", "wrong")
                  ELSE CoreDigest(CoreOf(o))
  BY DEF BlankReceipt
<1>3. q.epoch \in Nat
  BY ProposalFields
<1> HIDE DEF b, s, q
<1>4. /\ r.kernel = b.kernel /\ r.identity = b.identity /\ r.epoch = b.epoch
      /\ r.parent = b.parent /\ r.successor = b.successor /\ r.core = b.core /\ r.signature = s
  BY <1>1
<1>5. Unsigned(r) = b
  BY <1>1, <1>2 DEF Unsigned
<1>6. payload = b <=> o.name \notin Forged
  <2>1. CASE o.name \in Forged
    <3> DEFINE d == [b EXCEPT !.epoch = -1]
    <3>1. payload = [d EXCEPT !.signature = {}]
      BY <2>1 DEF Unsigned
    <3>2. payload.epoch = -1
      BY <1>2, <3>1
    <3> HIDE DEF payload
    <3> QED  BY <1>2, <1>3, <2>1, <3>2
  <2>2. CASE o.name \notin Forged
    <3>1. payload = [b EXCEPT !.signature = {}]
      BY <2>2 DEF Unsigned
    <3> HIDE DEF payload
    <3> QED  BY <1>2, <2>2, <3>1
  <2> QED  BY <2>1, <2>2
<1> HIDE DEF payload, r
<1> QED  BY <1>2, <1>4, <1>5, <1>6 DEF s, q, r

(* The lineage of an offer, all but its head, is good                      *)
LineageFaults == {"I8", "lineage_binding", "scope", "receipt_binding"} \cup Forged

(* Every part of it but the head comes to what the name of the case says.  *)
LEMMA LineageIs ==
  ASSUME NEW o, Offered(o), NEW X, Trusting(X, o)
  PROVE  LET w == WitnessOf(o)
             r == SignedReceipt(o)
         IN  /\ Or(w.proposal.predecessor = StateDigest(o.base), "FAIL") =
                  IF o.name \in {"I8", "lineage_binding"} THEN "FAIL" ELSE "PASS"
             /\ ScopeStatus(w.proposal, X) = IF o.name = "scope" THEN "FAIL" ELSE "PASS"
             /\ Or(ReceiptBound(w, CandidateOf(o), r), "FAIL") =
                  IF o.name = "receipt_binding" THEN "FAIL" ELSE "PASS"
             /\ ReceiptSignature(r, X) = IF o.name \in Forged THEN "FAIL" ELSE "PASS"
<1> DEFINE w == WitnessOf(o)
<1> DEFINE r == SignedReceipt(o)
<1> DEFINE q == ProposalOf(o)
<1>1. w.proposal = q /\ w.records = RecordsOf(o, q)
  BY WitnessFields
<1>2. /\ q.identity = IF o.name = "scope" THEN "other" ELSE Identity
      /\ q.epoch = o.base.epoch
      /\ q.predecessor = IF o.name \in {"I8", "lineage_binding"} THEN Digest("OTHER", "stale")
                         ELSE StateDigest(o.base)
  BY ProposalFields
<1>3. o.base.epoch \in Nat
  BY DEF Offered, Regular
<1>4. /\ r.kernel = "kernel" /\ r.identity = q.identity /\ r.epoch = q.epoch
      /\ r.parent = q.predecessor /\ r.successor = StateDigest(CandidateOf(o))
      /\ r.core = IF o.name = "receipt_binding" THEN Digest("OTHER", "wrong")
                  ELSE CoreDigest(CoreOf(o))
      /\ \E payload : /\ r.signature = Sign("kernel", "COMMIT-RECEIPT", payload)
                      /\ payload = Unsigned(r) <=> o.name \notin Forged
  BY <1>3, ReceiptFields
<1>5. \A x, y : Digest("OTHER", x) # StateDigest(y) /\ Digest("OTHER", x) # CoreDigest(y)
  BY DEF Digest, StateDigest, CoreDigest
<1>6. CoreDigest(w) = CoreDigest(CoreOf(o))
  <2> DEFINE records == RecordsOf(o, q)
  <2> HIDE DEF records, q
  <2>1. CoreOf(o) = [proposal |-> q, records |-> records]
    BY DEF CoreOf, q, records
  <2>2. CoreOf(o).proposal = q /\ CoreOf(o).records = records
    BY <2>1
  <2> QED  BY <1>1, <2>2, Zenon DEF CoreDigest, records
<1> HIDE DEF w, r, q
<1>7. Or(w.proposal.predecessor = StateDigest(o.base), "FAIL") =
        IF o.name \in {"I8", "lineage_binding"} THEN "FAIL" ELSE "PASS"
  BY <1>1, <1>2, <1>5 DEF Or
<1>8. ScopeStatus(w.proposal, X) = IF o.name = "scope" THEN "FAIL" ELSE "PASS"
  BY <1>1, <1>2 DEF Identity, ScopeStatus, Or, Trusting
<1>9. Or(ReceiptBound(w, CandidateOf(o), r), "FAIL") =
        IF o.name = "receipt_binding" THEN "FAIL" ELSE "PASS"
  BY <1>1, <1>4, <1>5, <1>6 DEF ReceiptBound, Or
<1>10. ReceiptSignature(r, X) = IF o.name \in Forged THEN "FAIL" ELSE "PASS"
  <2>1. Lookup(X.credentials, "kernel") = {PlainCredential("kernel")}
    BY DEF Trusting, Principals
  <2>2. PICK payload : /\ r.signature = Sign("kernel", "COMMIT-RECEIPT", payload)
                       /\ payload = Unsigned(r) <=> o.name \notin Forged
    BY <1>4
  <2>3. ReceiptSignature(r, X) = VerifySignature("COMMIT-RECEIPT", Unsigned(r),
          Sign("kernel", "COMMIT-RECEIPT", payload), {PlainCredential("kernel")}, r.epoch)
    BY <1>4, <2>1, <2>2 DEF ReceiptSignature, Trusting
  <2>4. CASE o.name \in Forged
    BY <2>2, <2>3, <2>4, BadSignature
  <2>5. CASE o.name \notin Forged
    BY <1>2, <1>3, <1>4, <2>2, <2>3, <2>5, GoodSignature
  <2> QED  BY <2>4, <2>5
<1> QED  BY <1>7, <1>8, <1>9, <1>10 DEF w, r

(* unless it is one of these faults.                                       *)
LEMMA LineageComesTo ==
  ASSUME NEW o, Offered(o), NEW X, Trusting(X, o)
  PROVE  LET all == Range(LineageConditions(o.base, CandidateOf(o), {WitnessOf(o)}, PolicyOf(o), X))
             head == CheckCanonicalHead(ProposalOf(o), CandidateOf(o), PolicyOf(o), X)
         IN  /\ o.name \in LineageFaults => "FAIL" \in all
             /\ o.name \notin LineageFaults => all = {"PASS", head}
             /\ head \in all
<1> DEFINE w == WitnessOf(o)
<1> DEFINE c == CandidateOf(o)
<1> DEFINE r == SignedReceipt(o)
<1> DEFINE s == o.base
<1> DEFINE all == Range(LineageConditions(s, c, {w}, PolicyOf(o), X))
<1> DEFINE head == CheckCanonicalHead(w.proposal, c, PolicyOf(o), X)
<1> DEFINE x1 == Or(w.proposal.predecessor = StateDigest(s), "FAIL")
<1> DEFINE x2 == ScopeStatus(w.proposal, X)
<1> DEFINE x3 == Or(ReceiptBound(w, c, r), "FAIL")
<1> DEFINE x4 == ReceiptSignature(r, X)
<1>1. w.proposal = ProposalOf(o) /\ w.receipt = {r}
  BY WitnessFields
<1>2. all = {x1, x2, x3, x4, head}
  <2> HIDE DEF w, c, r
  <2> QED  BY <1>1, LineageShape
<1>3. /\ x1 = IF o.name \in {"I8", "lineage_binding"} THEN "FAIL" ELSE "PASS"
      /\ x2 = IF o.name = "scope" THEN "FAIL" ELSE "PASS"
      /\ x3 = IF o.name = "receipt_binding" THEN "FAIL" ELSE "PASS"
      /\ x4 = IF o.name \in Forged THEN "FAIL" ELSE "PASS"
  BY LineageIs
<1> HIDE DEF x1, x2, x3, x4, all, head
<1>4. /\ o.name \in LineageFaults => "FAIL" \in all
      /\ o.name \notin LineageFaults => all = {"PASS", head}
      /\ head \in all
  BY <1>2, <1>3 DEF LineageFaults
<1> QED  BY <1>1, <1>4 DEF all, head

(* The head of now is the one the offer left, and none is archived for its *)
(* epoch.                                                                  *)
Alone(X, o) ==
  Trusting(X, o) /\ X.head = HeadOf(o) /\ Lookup(X.archive, o.base.epoch) = {}
Headless == {"D2", "head_missing"}

(* So the head says what the offer says, if there is one.                  *)
LEMMA HeadIs ==
  ASSUME NEW o, NEW X, Alone(X, o)
  PROVE  CheckCanonicalHead(ProposalOf(o), CandidateOf(o), PolicyOf(o), X) =
           IF o.name \in Headless THEN "UNKNOWN"
           ELSE IF o.name = "head_contradiction" THEN "FAIL" ELSE "PASS"
<1> DEFINE q == ProposalOf(o)
<1> DEFINE c == CandidateOf(o)
<1> DEFINE policy == PolicyOf(o)
<1>1. policy.canonicalHead = TRUE
  BY DEF PolicyOf, DefaultPolicy
<1>2. q.epoch = o.base.epoch
  BY ProposalFields
<1>3. Lookup(X.archive, q.epoch) = {} /\ X.head = HeadOf(o) /\ X.known = TRUE
  BY <1>2 DEF Alone, Trusting
<1>4. CASE HeadOf(o) = {}
  <2>1. o.name \in Headless
    BY <1>4 DEF HeadOf, Headless
  <2> HIDE DEF q, c, policy
  <2>2. CheckCanonicalHead(q, c, policy, X) = "UNKNOWN"
    BY <1>1, <1>3, <1>4, Zenon DEF CheckCanonicalHead
  <2> QED  BY <2>1, <2>2 DEF q, c, policy
<1>5. CASE HeadOf(o) # {}
  <2>1. PICK h : /\ HeadOf(o) = {h} /\ h.identity = q.identity
                 /\ h.epoch = q.epoch /\ h.parent = q.predecessor
                 /\ h.proposal = ProposalDigest(q)
                 /\ h.successor = StateDigest(c)
                 /\ h.exclusive = {o.name # "head_contradiction"}
                 /\ o.name \notin {"D2", "head_missing"}
    BY <1>5, HeadShape
  <2>2. The({h}) = h
    BY TheOnly
  <2> HIDE DEF q, c, policy
  <2>3. CheckCanonicalHead(q, c, policy, X) =
          IF h.exclusive = {FALSE} THEN "FAIL" ELSE Or(h.exclusive = {TRUE}, "UNKNOWN")
    BY <1>1, <1>3, <2>1, <2>2, Zenon DEF CheckCanonicalHead
  <2>4. CASE o.name = "head_contradiction"
    BY <2>1, <2>4, <2>3 DEF Headless, q, c, policy
  <2>5. CASE o.name # "head_contradiction"
    BY <2>1, <2>5, <2>3 DEF Headless, Or, q, c, policy
  <2> QED  BY <2>4, <2>5
<1> QED  BY <1>4, <1>5

(* The engine gives the candidate unless it was tampered with.             *)
Tampered == {"I6", "state_application", "unlogged_history"}

(* So the application passes for all but these.                            *)
LEMMA ApplicationIs ==
  ASSUME NEW o, Offered(o), Apply(o.base, o.manifest) = {o.applied}
  PROVE  StateApplication(o.base, {ProposalOf(o)}, CandidateOf(o)) =
           IF o.name \in Tampered THEN "FAIL" ELSE "PASS"
<1> DEFINE q == ProposalOf(o)
<1> DEFINE c == CandidateOf(o)
<1> DEFINE t == o.applied
<1>1. q.manifest = o.manifest /\ The({q}) = q
  BY ProposalFields, TheOnly
<1> HIDE DEF q
<1>2. StateApplication(o.base, {q}, c) = Or({t} = {c}, "FAIL")
  BY <1>1 DEF StateApplication
<1>3. c = t <=> o.name \notin Tampered
  <2>1. CASE o.name \notin Tampered
    BY <2>1, CandidateIsApplied DEF Tampered
  <2>2. CASE o.name \in {"I6", "state_application"}
    <3>1. IsSequence(t.memory) /\ StateFields \subseteq DOMAIN t
      <4>1. CASE o.name = "I6"
        BY <4>1, SuccessionIsSame DEF Successions, Same, Offered, Regular
      <4>2. CASE o.name = "state_application"
        <5>1. PICK m : /\ o.manifest = <<m>>
                       /\ m.op \in {"UPDATE_RUNTIME_CONFIG", "REBIND_SUBSTRATE", "FORWARD_RESTORE"}
          BY <4>2, ConfigManifest DEF Offered, OnTheUpgrade
        <5>2. Turns(o.base, t, {})
          BY <5>1, ConfigOutcome DEF Changed
        <5> QED  BY <5>2 DEF Turns, Offered, Regular
      <4> QED  BY <2>2, <4>1, <4>2
    <3>2. PICK S : t.memory \in Seq(S)
      BY <3>1 DEF IsSequence
    <3> DEFINE item == [session |-> <<0, "injected">>, expires |-> {}]
    <3> HIDE DEF item
    <3> DEFINE memory == Append(t.memory, item)
    <3>3. Len(memory) = Len(t.memory) + 1 /\ Len(t.memory) \in Nat
      BY <3>2
    <3>4. memory # t.memory
      BY <3>3
    <3>5. c = [t EXCEPT !.memory = Append(t.memory, item)]
      BY <2>2 DEF CandidateOf, item
    <3> HIDE DEF memory
    <3>6. c = [t EXCEPT !.memory = memory]
      BY <3>5 DEF memory
    <3>7. c.memory = memory
      BY <3>1, <3>6 DEF StateFields
    <3> QED  BY <2>2, <3>4, <3>7 DEF Tampered
  <2>3. CASE o.name = "unlogged_history"
    <3>1. t = o.base
      BY <2>3, SuccessionIsSame DEF Successions, Same
    <3>2. /\ StateFields \subseteq DOMAIN t /\ IsSequence(t.chronicle) /\ t.chronicle # <<>>
          /\ \A i \in DOMAIN t.chronicle : RegularEvent(t.chronicle[i], t.timestamp)
      BY <3>1 DEF Offered, Regular, RegularChronicle
    <3>3. 1 \in DOMAIN t.chronicle
      BY <3>2 DEF IsSequence
    <3>4. "content" \in DOMAIN t.chronicle[1] /\ t.chronicle[1].content # "rewritten"
      BY <3>2, <3>3 DEF RegularEvent, EventFields
    <3> DEFINE e == [t.chronicle[1] EXCEPT !.content = "rewritten"]
    <3>5. e.content = "rewritten"
      BY <3>4
    <3> DEFINE d == [t.chronicle EXCEPT ![1] = e]
    <3>6. c = [t EXCEPT !.chronicle = d]
      BY <2>3, Zenon DEF CandidateOf
    <3> HIDE DEF e
    <3>7. d[1] = e
      BY <3>3
    <3> HIDE DEF d
    <3>8. c.chronicle = d
      BY <3>2, <3>6 DEF StateFields
    <3>9. c # t
      BY <3>4, <3>5, <3>7, <3>8
    <3> QED  BY <2>3, <3>9 DEF Tampered
  <2> QED  BY <2>1, <2>2, <2>3 DEF Tampered
<1> HIDE DEF c, t
<1>4. {t} = {c} <=> c = t
  OBVIOUS
<1> QED  BY <1>2, <1>3, <1>4 DEF Or, q, c, t

(* A record before it is signed, and signed.                               *)
VoterNames == <<"eval1", "eval2", "eval3", "eval4">>
BlankRecord(o, i) ==
  [ check |-> "I_bel", evaluator |-> VoterNames[i], version |-> 1, policy |-> 2,
    proposal |-> IF o.name = "attestation_binding" THEN Digest("OTHER", "different")
                 ELSE ProposalDigest(ProposalOf(o)),
    status |-> VotesOn(o.name)[i], signature |-> {},
    issued |-> IF o.name = "attestation_stale" THEN o.base.timestamp - 1
               ELSE CandidateOf(o).timestamp ]
SignedRecord(o, i) ==
  [BlankRecord(o, i) EXCEPT !.signature =
     Sign(VoterNames[i], "ATTESTATION", Unsigned(BlankRecord(o, i)))]

(* The records of an offer, one for each vote.                             *)
LEMMA RecordsAre ==
  ASSUME NEW o
  PROVE  RecordsOf(o, ProposalOf(o)) = [i \in DOMAIN VotesOn(o.name) |-> SignedRecord(o, i)]
  BY Zenon DEF RecordsOf, SignedRecord, BlankRecord, VoterNames

(* The parts of a record.                                                  *)
LEMMA RecordFields ==
  ASSUME NEW o, NEW i
  PROVE  LET r == SignedRecord(o, i) IN
         /\ r.check = "I_bel" /\ r.evaluator = VoterNames[i] /\ r.version = 1 /\ r.policy = 2
         /\ r.proposal = IF o.name = "attestation_binding" THEN Digest("OTHER", "different")
                         ELSE ProposalDigest(ProposalOf(o))
         /\ r.status = VotesOn(o.name)[i]
         /\ r.issued = IF o.name = "attestation_stale" THEN o.base.timestamp - 1
                       ELSE CandidateOf(o).timestamp
         /\ r.signature = Sign(VoterNames[i], "ATTESTATION", Unsigned(r))
<1> DEFINE b == BlankRecord(o, i)
<1> DEFINE s == Sign(VoterNames[i], "ATTESTATION", Unsigned(b))
<1> DEFINE r == SignedRecord(o, i)
<1> DEFINE proposal == IF o.name = "attestation_binding" THEN Digest("OTHER", "different")
                       ELSE ProposalDigest(ProposalOf(o))
<1> DEFINE issued == IF o.name = "attestation_stale" THEN o.base.timestamp - 1
                     ELSE CandidateOf(o).timestamp
<1> DEFINE status == VotesOn(o.name)[i]
<1> DEFINE name == VoterNames[i]
<1>1. r = [b EXCEPT !.signature = s]
  BY Zenon DEF SignedRecord
<1> HIDE DEF proposal, issued, status, name
<1>2. b = [ check |-> "I_bel", evaluator |-> name, version |-> 1, policy |-> 2,
            proposal |-> proposal, status |-> status, signature |-> {}, issued |-> issued ]
  BY Zenon DEF BlankRecord, proposal, issued, status, name
<1>3. /\ b = [x \in DOMAIN b |-> b[x]] /\ "signature" \in DOMAIN b /\ b.signature = {}
      /\ b.check = "I_bel" /\ b.evaluator = name /\ b.version = 1 /\ b.policy = 2
      /\ b.proposal = proposal /\ b.status = status /\ b.issued = issued
  BY <1>2
<1> HIDE DEF b, s
<1>4. /\ r.check = b.check /\ r.evaluator = b.evaluator /\ r.version = b.version
      /\ r.policy = b.policy /\ r.proposal = b.proposal /\ r.status = b.status
      /\ r.issued = b.issued /\ r.signature = s
  BY <1>1
<1>5. Unsigned(r) = b /\ Unsigned(b) = b
  BY <1>1, <1>3 DEF Unsigned
<1>6. r.signature = Sign(name, "ATTESTATION", Unsigned(r))
  BY <1>4, <1>5 DEF s, name
<1> HIDE DEF r
<1> QED  BY <1>3, <1>4, <1>6 DEF r, proposal, issued, status, name

(* A record of a trusted evaluator is well signed.                         *)
LEMMA RecordIsSigned ==
  ASSUME NEW o, Offered(o), NEW X, Trusting(X, o), NEW i \in 1..4
  PROVE  RecordStatus(SignedRecord(o, i), ProposalOf(o), X) = "PASS"
<1> DEFINE r == SignedRecord(o, i)
<1> DEFINE q == ProposalOf(o)
<1>1. VoterNames[i] \in Evaluators
  BY DEF VoterNames, Evaluators
<1>2. Lookup(X.credentials, VoterNames[i]) = {PlainCredential(VoterNames[i])}
  BY <1>1 DEF Trusting, Principals
<1>3. q.epoch = o.base.epoch /\ o.base.epoch \in Nat
  BY ProposalFields DEF Offered, Regular
<1>4. r.evaluator = VoterNames[i] /\ r.signature = Sign(VoterNames[i], "ATTESTATION", Unsigned(r))
  BY RecordFields
<1> HIDE DEF r, q
<1>5. RecordStatus(r, q, X) = "PASS"
  BY <1>2, <1>3, <1>4, GoodSignature DEF RecordStatus
<1> QED  BY <1>5 DEF r, q

(* What the evaluators say of the beliefs: nothing, two against two, or    *)
(* of another proposal.                                                    *)
Divided == {"D4", "attestation_conflict"}
Undecided == Divided \cup {"attestation_missing"}

(* Such votes leave the beliefs open; votes on another proposal fail.      *)
LEMMA AttestationIs ==
  ASSUME NEW o, Offered(o), NEW X, Trusting(X, o),
         o.name \in Divided => CandidateOf(o).timestamp \in {o.base.timestamp, o.base.timestamp + 1}
  PROVE  /\ o.name \in Undecided =>
              CheckAttestation("I_bel", {WitnessOf(o)}, PolicyOf(o), X) = "UNKNOWN"
         /\ o.name = "attestation_binding" =>
              CheckAttestation("I_bel", {WitnessOf(o)}, PolicyOf(o), X) = "FAIL"
<1> DEFINE w == WitnessOf(o)
<1> DEFINE policy == PolicyOf(o)
<1> DEFINE q == ProposalOf(o)
<1> DEFINE on == RecordsOn("I_bel", w)
<1>1. w.proposal = q /\ w.records = [i \in DOMAIN VotesOn(o.name) |-> SignedRecord(o, i)]
  BY WitnessFields, RecordsAre
<1>2. policy.quorum = 2 /\ policy.maxAge = 2 /\ policy.version = 2
      /\ policy.evaluators = [p \in Evaluators |-> 1]
  BY DEF PolicyOf, DefaultPolicy
<1>3. on = DOMAIN VotesOn(o.name)
  <2>1. \A i \in DOMAIN VotesOn(o.name) : w.records[i].check = "I_bel"
    BY <1>1, RecordFields
  <2>2. DOMAIN w.records = DOMAIN VotesOn(o.name)
    BY <1>1
  <2> HIDE DEF w
  <2> QED  BY <2>1, <2>2 DEF RecordsOn
<1>4. X.time = {o.base.timestamp + 2} /\ o.base.timestamp \in Nat
  BY DEF Trusting, Offered, Regular
<1> HIDE DEF w, policy, q, on
<1>5. CASE o.name = "attestation_missing"
  BY <1>5, <1>3, AttestationShape DEF VotesOn, on, w, policy
<1>6. CASE o.name = "attestation_binding"
  <2>1. 1 \in on
    BY <1>6, <1>3 DEF VotesOn
  <2>2. w.records[1].proposal = Digest("OTHER", "different")
    BY <1>1, <1>3, <1>6, <2>1, RecordFields
  <2>3. Digest("OTHER", "different") # ProposalDigest(q)
    BY DEF Digest, ProposalDigest
  <2>4. ~RecordBound(w.records[1], w.proposal, policy)
    BY <1>1, <2>2, <2>3 DEF RecordBound
  <2>5. Void("I_bel", w, policy, X)
    BY <2>1, <2>4 DEF Void, on
  <2>6. CheckAttestation("I_bel", {w}, policy, X) = "FAIL"
    BY <2>1, <2>5, AttestationShape DEF on
  <2> QED  BY <1>6, <2>6 DEF w, policy, Undecided, Divided
<1>7. CASE o.name \in Divided
  <2> DEFINE votes == <<"PASS", "PASS", "FAIL", "FAIL">>
  <2>1. VotesOn(o.name) = votes
    BY <1>7 DEF VotesOn, Divided
  <2>2. /\ DOMAIN votes = 1..4 /\ votes[1] = "PASS" /\ votes[2] = "PASS"
        /\ votes[3] = "FAIL" /\ votes[4] = "FAIL"
    OBVIOUS
  <2> HIDE DEF votes
  <2>3. on = 1..4
    BY <1>3, <2>1, <2>2
  <2>4. ASSUME NEW i \in 1..4
        PROVE  /\ w.records[i] = SignedRecord(o, i) /\ w.records[i].evaluator = VoterNames[i]
               /\ w.records[i].status = votes[i] /\ w.records[i].version = 1
               /\ w.records[i].policy = 2 /\ w.records[i].proposal = ProposalDigest(q)
               /\ w.records[i].issued = CandidateOf(o).timestamp
    BY <1>1, <2>1, <2>2, <1>7, RecordFields DEF Divided, q
  <2>5. ASSUME NEW i \in 1..4
        PROVE  StatusOf(w, X, i) = "PASS"
    BY <1>1, <2>4, RecordIsSigned DEF StatusOf, q
  <2>6. ASSUME NEW i \in 1..4
        PROVE  RecordBound(w.records[i], w.proposal, policy) /\ Fresh(w.records[i], policy, X)
    <3>1. VoterNames[i] \in Evaluators
      BY DEF VoterNames, Evaluators
    <3>2. RecordBound(w.records[i], w.proposal, policy)
      BY <1>1, <1>2, <2>4, <3>1 DEF RecordBound
    <3>3. (o.base.timestamp + 2) - w.records[i].issued \in 0..2
      BY <1>4, <1>7, <2>4
    <3> QED  BY <1>2, <1>4, <3>2, <3>3 DEF Fresh
  <2>7. \A i, j \in 1..4 : i # j => VoterNames[i] # VoterNames[j]
    BY DEF VoterNames
  <2>8. ~Void("I_bel", w, policy, X)
    BY <2>3, <2>4, <2>5, <2>6, <2>7 DEF Void, on
  <2>9. VotesFor("I_bel", w, X, "PASS") = 2
    <3>1. {i \in on : StatusOf(w, X, i) = "PASS" /\ w.records[i].status = "PASS"} = {1, 2}
      BY <2>2, <2>3, <2>4, <2>5
    <3>2. Cardinality({1, 2}) = 2
      <4>1. 1 # 2
        OBVIOUS
      <4> QED  BY <4>1, TwoAreTwo, Zenon
    <3>3. Cardinality({i \in on : StatusOf(w, X, i) = "PASS" /\ w.records[i].status = "PASS"}) = 2
      BY <3>1, <3>2, Zenon
    <3> QED  BY <3>3 DEF VotesFor, on
  <2>10. VotesFor("I_bel", w, X, "FAIL") = 2
    <3>1. {i \in on : StatusOf(w, X, i) = "PASS" /\ w.records[i].status = "FAIL"} = {3, 4}
      BY <2>2, <2>3, <2>4, <2>5
    <3>2. Cardinality({3, 4}) = 2
      <4>1. 3 # 4
        OBVIOUS
      <4> QED  BY <4>1, TwoAreTwo, Zenon
    <3>3. Cardinality({i \in on : StatusOf(w, X, i) = "PASS" /\ w.records[i].status = "FAIL"}) = 2
      BY <3>1, <3>2, Zenon
    <3> QED  BY <3>3 DEF VotesFor, on
  <2>11. Decisions("I_bel", w, policy, X) = {"PASS", "FAIL"}
    BY <1>2, <2>9, <2>10 DEF Decisions
  <2>12. Cardinality({"PASS", "FAIL"}) = 2
    BY TwoAreTwo
  <2>13. Open("I_bel", w, policy, X)
    BY <2>11, <2>12 DEF Open
  <2>14. CheckAttestation("I_bel", {w}, policy, X) = "UNKNOWN"
    BY <2>3, <2>8, <2>13, AttestationShape DEF on
  <2> QED  BY <1>7, <2>14 DEF w, policy, Divided
<1> QED  BY <1>5, <1>6, <1>7 DEF Undecided

------------------------------------------------------------------------------
(* What only passes, passes,                                               *)
LEMMA CombineGood == ASSUME NEW S, S \subseteq {"PASS"} PROVE Combine(S) = "PASS"
  BY DEF Combine

(* and what fails once, fails.                                             *)
LEMMA CombineBad == ASSUME NEW S, "FAIL" \in S PROVE Combine(S) = "FAIL"
  BY DEF Combine

(* In a regular chronicle, a name is of one event.                         *)
LEMMA TheEvent ==
  ASSUME NEW d, \A i, j \in DOMAIN d : d[i].id = d[j].id => i = j, NEW i \in DOMAIN d
  PROVE  (CHOOSE e \in ToSet(d) : e.id = d[i].id) = d[i]
<1>1. d[i] \in ToSet(d) /\ \A e \in ToSet(d) : e.id = d[i].id => e = d[i]
  BY DEF ToSet
<1> QED  BY <1>1

(* What extends a regular chronicle, with events vouched for, passes.      *)
LEMMA HistoryPasses ==
  ASSUME NEW s, NEW c, NEW proposal, NEW policy, NEW X,
         \A i, j \in DOMAIN c.chronicle : c.chronicle[i].id = c.chronicle[j].id => i = j,
         DOMAIN s.chronicle \subseteq DOMAIN c.chronicle,
         \A i \in DOMAIN s.chronicle :
           /\ c.chronicle[i].id = s.chronicle[i].id
           /\ Continues(s.chronicle[i].annotations, c.chronicle[i].annotations)
           /\ ~s.chronicle[i].tombstone /\ ~c.chronicle[i].tombstone
           /\ EventCommitment(c.chronicle[i]) = EventCommitment(s.chronicle[i]),
         \A i \in DOMAIN c.chronicle :
           i \in DOMAIN s.chronicle \/ NewEventStatus(c.chronicle[i], X) = "PASS"
  PROVE  CheckHistoricalChronicle(s, c, proposal, policy, X) = "PASS"
<1> DEFINE ids == EventIds(c)
<1> DEFINE oldIds == EventIds(s)
<1> DEFINE New(old) == CHOOSE e \in ToSet(c.chronicle) : e.id = old.id
<1> DEFINE A == {OldEventStatus(old, New(old), s, c, proposal, policy, X) :
                   old \in ToSet(s.chronicle)}
<1> DEFINE B == {NewEventStatus(e, X) :
                  e \in {n \in ToSet(c.chronicle) : n.id \notin ToSet(oldIds)}}
<1>1. CheckHistoricalChronicle(s, c, proposal, policy, X) =
        IF ~IsInjective(ids) \/ ~InOrder(oldIds, ids) THEN "FAIL" ELSE Combine(A \cup B)
  BY Zenon DEF CheckHistoricalChronicle
<1>2. /\ DOMAIN ids = DOMAIN c.chronicle /\ \A i \in DOMAIN ids : ids[i] = c.chronicle[i].id
      /\ DOMAIN oldIds = DOMAIN s.chronicle
      /\ \A i \in DOMAIN oldIds : oldIds[i] = s.chronicle[i].id
  BY DEF EventIds
<1>3. IsInjective(ids)
  <2> HIDE DEF ids, oldIds
  <2> QED  BY <1>2 DEF IsInjective
<1>4. InOrder(oldIds, ids)
  <2> HIDE DEF ids, oldIds
  <2>1. \A i \in DOMAIN oldIds : i \in DOMAIN ids /\ ids[i] = oldIds[i]
    BY <1>2
  <2>2. ToSet(oldIds) \subseteq ToSet(ids)
    BY <2>1 DEF ToSet
  <2> QED  BY <2>1, <2>2 DEF InOrder
<1>5. ASSUME NEW old \in ToSet(s.chronicle)
      PROVE  OldEventStatus(old, New(old), s, c, proposal, policy, X) = "PASS"
  <2>1. PICK i \in DOMAIN s.chronicle : old = s.chronicle[i]
    BY DEF ToSet
  <2>2. New(old) = c.chronicle[i]
    <3>1. i \in DOMAIN c.chronicle /\ c.chronicle[i].id = old.id
      BY <2>1
    <3>2. (CHOOSE e \in ToSet(c.chronicle) : e.id = c.chronicle[i].id) = c.chronicle[i]
      <4> DEFINE d == c.chronicle
      <4>1. \A k, j \in DOMAIN d : d[k].id = d[j].id => k = j
        OBVIOUS
      <4> HIDE DEF d
      <4>2. (CHOOSE e \in ToSet(d) : e.id = d[i].id) = d[i]
        BY <3>1, <4>1, TheEvent DEF d
      <4> QED  BY <4>2 DEF d
    <3> QED  BY <3>1, <3>2
  <2> HIDE DEF New
  <2> QED  BY <2>1, <2>2 DEF OldEventStatus, Or
<1>6. A \subseteq {"PASS"}
  BY <1>5
<1>7. ASSUME NEW e \in ToSet(c.chronicle), e.id \notin ToSet(oldIds)
      PROVE  NewEventStatus(e, X) = "PASS"
  <2>1. PICK i \in DOMAIN c.chronicle : e = c.chronicle[i]
    BY DEF ToSet
  <2>2. i \notin DOMAIN s.chronicle
    <3> SUFFICES ASSUME i \in DOMAIN s.chronicle PROVE FALSE
      OBVIOUS
    <3> HIDE DEF oldIds
    <3>1. oldIds[i] = e.id /\ i \in DOMAIN oldIds
      BY <1>2, <2>1
    <3> QED  BY <1>7, <3>1 DEF ToSet
  <2> QED  BY <2>1, <2>2
<1>8. B \subseteq {"PASS"}
  BY <1>7
<1> HIDE DEF A, B, ids, oldIds
<1>9. Combine(A \cup B) = "PASS"
  BY <1>6, <1>8, CombineGood
<1> QED  BY <1>1, <1>3, <1>4, <1>9

(* So does a chronicle that is as it was.                                  *)
LEMMA ContinuesItself == ASSUME NEW a PROVE Continues(a, a)
  BY DEF Continues

(* A chronicle left alone passes.                                          *)
LEMMA HistoryAsItWas ==
  ASSUME NEW s, Regular(s), NEW c, c.chronicle = s.chronicle, NEW proposal, NEW policy, NEW X
  PROVE  CheckHistoricalChronicle(s, c, proposal, policy, X) = "PASS"
<1>1. RegularChronicle(s.chronicle, s.timestamp)
  BY DEF Regular
<1>2. \A i \in DOMAIN s.chronicle : ~s.chronicle[i].tombstone
  BY <1>1 DEF RegularChronicle, RegularEvent
<1>3. \A i, j \in DOMAIN s.chronicle : s.chronicle[i].id = s.chronicle[j].id => i = j
  BY <1>1 DEF RegularChronicle
<1>4. \A i \in DOMAIN s.chronicle :
        Continues(s.chronicle[i].annotations, c.chronicle[i].annotations)
  BY ContinuesItself
<1> QED  BY <1>2, <1>3, <1>4, HistoryPasses

(* The claims of a state have evidence, and are no older than it.          *)
ClaimsPast(X, s) ==
  \A k \in DOMAIN s.knowledge : LET v == s.knowledge[k] IN
    v.structured /\ v.claimed # {} => NotBefore(Resolved(X, v.evidence), The(v.claimed)) = "PASS"

(* With the times of a regular chronicle and nothing new too early, time   *)
(* passes.                                                                 *)
LEMMA TimePasses ==
  ASSUME NEW s, NEW now \in Nat, RegularChronicle(s.chronicle, now),
         NEW c, RegularChronicle(c.chronicle, now + 1), NEW X, ClaimsPast(X, c),
         DOMAIN s.chronicle \subseteq DOMAIN c.chronicle,
         \A i \in DOMAIN s.chronicle : /\ c.chronicle[i].timestamp = s.chronicle[i].timestamp
                                       /\ c.chronicle[i].id = s.chronicle[i].id,
         \A i \in DOMAIN c.chronicle : \/ i \in DOMAIN s.chronicle
           \/ NotBefore(Resolved(X, c.chronicle[i].evidence), c.chronicle[i].timestamp) = "PASS"
  PROVE  CheckTemporal(s, c, X) = "PASS"
<1> DEFINE claims == {k \in Range(c.knowledge) : k.structured /\ k.claimed # {}}
<1> DEFINE events == ToSet(c.chronicle)
<1> DEFINE oldIds == ToSet(EventIds(s))
<1> DEFINE A == {NotBefore(Resolved(X, k.evidence), The(k.claimed)) : k \in claims}
<1> DEFINE B == {NotBefore(Resolved(X, e.evidence), e.timestamp) :
                   e \in {n \in events : n.id \notin oldIds}}
<1> DEFINE D == {Or(\A a \in e.acquired : e.timestamp >= a, "FAIL") : e \in events}
<1>1. CheckTemporal(s, c, X) =
        IF LatestEvent(c) < LatestEvent(s) THEN "FAIL" ELSE Combine(A \cup B \cup D)
  BY Zenon DEF CheckTemporal
<1>2. ~(LatestEvent(c) < LatestEvent(s))
  <2> DEFINE I == {e.timestamp : e \in ToSet(s.chronicle)} \cup {-1}
  <2> DEFINE J == {e.timestamp : e \in ToSet(c.chronicle)} \cup {-1}
  <2>1. I \subseteq (-1)..(now + 1) /\ I # {}
    <3>1. \A e \in ToSet(s.chronicle) : e.timestamp \in 0..now
      BY DEF ToSet, RegularChronicle, RegularEvent
    <3>2. \A t \in 0..now : t \in (-1)..(now + 1)
      OBVIOUS
    <3>3. -1 \in (-1)..(now + 1)
      OBVIOUS
    <3> QED  BY <3>1, <3>2, <3>3
  <2>2. J \subseteq (-1)..(now + 1) /\ J # {}
    <3>1. \A e \in ToSet(c.chronicle) : e.timestamp \in 0..(now + 1)
      BY DEF ToSet, RegularChronicle, RegularEvent
    <3>2. \A t \in 0..(now + 1) : t \in (-1)..(now + 1)
      OBVIOUS
    <3>3. -1 \in (-1)..(now + 1)
      OBVIOUS
    <3> QED  BY <3>1, <3>2, <3>3
  <2>3. I \subseteq J
    <3>1. ASSUME NEW e \in ToSet(s.chronicle) PROVE e.timestamp \in J
      <4>1. PICK i \in DOMAIN s.chronicle : e = s.chronicle[i]
        BY DEF ToSet
      <4>2. c.chronicle[i] \in ToSet(c.chronicle) /\ c.chronicle[i].timestamp = e.timestamp
        BY <4>1 DEF ToSet
      <4> QED  BY <4>2
    <3> QED  BY <3>1
  <2>4. LatestEvent(s) = Max(I) /\ LatestEvent(c) = Max(J)
    BY DEF LatestEvent
  <2> HIDE DEF I, J
  <2>5. now + 1 \in Nat
    OBVIOUS
  <2>6. Max(I) \in I /\ Max(J) \in J /\ \A t \in J : Max(J) >= t
    BY <2>1, <2>2, <2>5, GreatestTime
  <2>7. Max(J) >= Max(I) /\ Max(J) \in (-1)..(now + 1) /\ Max(I) \in (-1)..(now + 1)
    BY <2>1, <2>2, <2>3, <2>6, Zenon
  <2>8. \A x, y \in (-1)..(now + 1) : x >= y => ~(x < y)
    OBVIOUS
  <2> QED  BY <2>4, <2>7, <2>8, Zenon
<1>3. A \subseteq {"PASS"}
  <2>1. ASSUME NEW v \in claims PROVE NotBefore(Resolved(X, v.evidence), The(v.claimed)) = "PASS"
    <3>1. PICK k \in DOMAIN c.knowledge : v = c.knowledge[k]
      BY DEF Range
    <3> QED  BY <3>1 DEF ClaimsPast
  <2> QED  BY <2>1
<1>4. B \subseteq {"PASS"}
  <2>1. ASSUME NEW e \in events, e.id \notin oldIds
        PROVE  NotBefore(Resolved(X, e.evidence), e.timestamp) = "PASS"
    <3>1. PICK i \in DOMAIN c.chronicle : e = c.chronicle[i]
      BY DEF ToSet
    <3>2. i \notin DOMAIN s.chronicle
      <4> SUFFICES ASSUME i \in DOMAIN s.chronicle PROVE FALSE
        OBVIOUS
      <4>1. i \in DOMAIN EventIds(s) /\ EventIds(s)[i] = e.id
        BY <3>1 DEF EventIds
      <4> QED  BY <2>1, <4>1 DEF ToSet
    <3> QED  BY <3>1, <3>2
  <2> QED  BY <2>1
<1>5. D \subseteq {"PASS"}
  <2>1. ASSUME NEW e \in events PROVE \A a \in e.acquired : e.timestamp >= a
    BY DEF ToSet, RegularChronicle, RegularEvent
  <2> QED  BY <2>1 DEF Or
<1> HIDE DEF A, B, D
<1>6. Combine(A \cup B \cup D) = "PASS"
  BY <1>3, <1>4, <1>5, CombineGood
<1> QED  BY <1>1, <1>2, <1>6

(* So it does with the chronicle as it was.                                *)
LEMMA TimeAsItWas ==
  ASSUME NEW s, Regular(s), NEW c, c.chronicle = s.chronicle, NEW X, ClaimsPast(X, c)
  PROVE  CheckTemporal(s, c, X) = "PASS"
<1>1. s.timestamp \in Nat /\ RegularChronicle(s.chronicle, s.timestamp)
  BY DEF Regular
<1>2. RegularChronicle(c.chronicle, s.timestamp + 1)
  BY <1>1, ChronicleAges
<1> QED  BY <1>1, <1>2, TimePasses

(* What the check of the beliefs comes to: all that changed is of now and  *)
(* supported, or something held before is not kept.                        *)
BeliefDated(s, c, k) ==
  /\ c.beliefs[k].proposition = k
  /\ c.beliefs[k].revised = c.epoch
  /\ k \notin DOMAIN s.beliefs => c.beliefs[k].established = c.epoch

(* The two outcomes.                                                       *)
LEMMA BeliefsComeTo ==
  ASSUME NEW s, NEW c, NEW proposal, NEW X
  PROVE  /\ /\ \A k \in DOMAIN s.beliefs : PriorBeliefKept(s.beliefs[k], Lookup(c.beliefs, k))
            /\ \A k \in DOMAIN c.beliefs : Lookup(s.beliefs, k) # {c.beliefs[k]} =>
                 BeliefDated(s, c, k) /\ BeliefSupport(k, c.beliefs[k], proposal, X) = "PASS"
            => CheckBeliefCoherence(s, c, proposal, X) = "PASS"
         /\ (\E k \in DOMAIN s.beliefs : ~PriorBeliefKept(s.beliefs[k], Lookup(c.beliefs, k)))
            => CheckBeliefCoherence(s, c, proposal, X) = "FAIL"
<1> DEFINE changed == {k \in DOMAIN c.beliefs : Lookup(s.beliefs, k) # {c.beliefs[k]}}
<1> DEFINE forgot ==
      \E k \in DOMAIN s.beliefs : ~PriorBeliefKept(s.beliefs[k], Lookup(c.beliefs, k))
<1> DEFINE A == {Or(BeliefDated(s, c, k), "FAIL") : k \in changed}
<1> DEFINE B == {BeliefSupport(k, c.beliefs[k], proposal, X) : k \in changed}
<1>1. CheckBeliefCoherence(s, c, proposal, X) = IF forgot THEN "FAIL" ELSE Combine(A \cup B)
  BY Zenon DEF CheckBeliefCoherence, BeliefDated
<1>2. ASSUME \A k \in changed :
               BeliefDated(s, c, k) /\ BeliefSupport(k, c.beliefs[k], proposal, X) = "PASS"
      PROVE  Combine(A \cup B) = "PASS"
  <2> HIDE DEF changed
  <2>1. A \subseteq {"PASS"} /\ B \subseteq {"PASS"}
    BY <1>2 DEF Or
  <2> HIDE DEF A, B
  <2> QED  BY <2>1, CombineGood
<1> HIDE DEF A, B
<1> QED  BY <1>1, <1>2

(* Beliefs, relationships and rules as they were pass too.                 *)
LEMMA BeliefsAsTheyWere ==
  ASSUME NEW s, NEW c, c.beliefs = s.beliefs, NEW proposal, NEW X
  PROVE  CheckBeliefCoherence(s, c, proposal, X) = "PASS"
<1>1. ASSUME NEW k \in DOMAIN s.beliefs PROVE PriorBeliefKept(s.beliefs[k], Lookup(c.beliefs, k))
  <2> DEFINE b == s.beliefs[k]
  <2>1. Lookup(c.beliefs, k) = {b}
    BY DEF Lookup
  <2> HIDE DEF b
  <2>2. The({b}) = b /\ {b} # {} /\ Continues(b.history, b.history)
    BY TheOnly, ContinuesItself
  <2>3. PriorBeliefKept(b, {b})
    BY <2>2 DEF PriorBeliefKept
  <2> QED  BY <2>1, <2>3 DEF b
<1>2. \A k \in DOMAIN c.beliefs : Lookup(s.beliefs, k) = {c.beliefs[k]}
  BY DEF Lookup
<1> QED  BY <1>1, <1>2, BeliefsComeTo

(* What the check of the relationships comes to, when none is dropped: all *)
(* that changed is kept, earned and supported, or some is not.             *)
TierEarned(s, c, k, policy) ==
  /\ RecordsKept(Lookup(s.relationships, k), c.relationships[k])
  /\ Earned(Lookup(s.relationships, k), c.relationships[k], policy)

(* The two outcomes.                                                       *)
LEMMA RelationsComeTo ==
  ASSUME NEW s, NEW c, NEW policy, NEW proposal, NEW X
  PROVE  /\ /\ DOMAIN s.relationships \subseteq DOMAIN c.relationships
            /\ \A k \in DOMAIN c.relationships :
                 Lookup(s.relationships, k) # {c.relationships[k]} =>
                   /\ TierEarned(s, c, k, policy)
                   /\ RelationSupport(k, c.relationships[k], c, proposal, X) = "PASS"
            => CheckRelational(s, c, policy, proposal, X) = "PASS"
         /\ (\E k \in DOMAIN c.relationships : /\ Lookup(s.relationships, k) # {c.relationships[k]}
                                               /\ ~TierEarned(s, c, k, policy))
            => CheckRelational(s, c, policy, proposal, X) = "FAIL"
<1> DEFINE changed == {k \in DOMAIN c.relationships :
                         Lookup(s.relationships, k) # {c.relationships[k]}}
<1> DEFINE Parts(k) == {Or(TierEarned(s, c, k, policy), "FAIL"),
                        RelationSupport(k, c.relationships[k], c, proposal, X)}
<1> DEFINE All == {Combine(Parts(k)) : k \in changed}
<1> DEFINE dropped == ~(DOMAIN s.relationships \subseteq DOMAIN c.relationships)
<1>1. CheckRelational(s, c, policy, proposal, X) = IF dropped THEN "FAIL" ELSE Combine(All)
  BY Zenon DEF CheckRelational, TierEarned
<1>2. ASSUME \A k \in changed :
               /\ TierEarned(s, c, k, policy)
               /\ RelationSupport(k, c.relationships[k], c, proposal, X) = "PASS"
      PROVE  Combine(All) = "PASS"
  <2>1. \A k \in changed : Parts(k) \subseteq {"PASS"}
    BY <1>2 DEF Or
  <2> HIDE DEF Parts, changed
  <2>2. All \subseteq {"PASS"}
    BY <2>1, CombineGood
  <2> HIDE DEF All
  <2> QED  BY <2>2, CombineGood
<1>3. ASSUME NEW k \in changed, ~TierEarned(s, c, k, policy) PROVE Combine(All) = "FAIL"
  <2>1. "FAIL" \in Parts(k)
    BY <1>3 DEF Or
  <2> HIDE DEF Parts, changed
  <2>2. "FAIL" \in All
    BY <2>1, CombineBad
  <2> HIDE DEF All
  <2> QED  BY <2>2, CombineBad
<1> HIDE DEF All
<1> QED  BY <1>1, <1>2, <1>3

(* Relationships left alone pass.                                          *)
LEMMA RelationsAsTheyWere ==
  ASSUME NEW s, NEW c, c.relationships = s.relationships, NEW policy, NEW proposal, NEW X
  PROVE  CheckRelational(s, c, policy, proposal, X) = "PASS"
<1>1. \A k \in DOMAIN c.relationships : Lookup(s.relationships, k) = {c.relationships[k]}
  BY DEF Lookup
<1> QED  BY <1>1, RelationsComeTo

(* Rules left alone pass.                                                  *)
LEMMA RulesAsTheyWere ==
  ASSUME NEW s, NEW c, c.rules = s.rules
  PROVE  CheckNormative(s, c) = "PASS"
<1>1. \A r \in DOMAIN s.rules : Lookup(c.rules, r) = {s.rules[r]}
  BY DEF Lookup
<1> QED  BY <1>1 DEF CheckNormative, Or

(* The parts of an offer's evidence,                                       *)
LEMMA EvidenceFields ==
  ASSUME NEW o
  PROVE  LET e == EvidenceOf(o) IN
         /\ e.identity = Identity /\ e.epoch = o.base.epoch /\ e.acquired = {o.base.timestamp}
         /\ e.eventId = Uri(o) /\ e.content = "finding"
         /\ e.revision = SupportedRevision(o) /\ e.records = SupportedRecords(o)
<1> DEFINE revision == SupportedRevision(o)
<1> DEFINE records == SupportedRecords(o)
<1> DEFINE id == Uri(o)
<1> DEFINE acquired == {o.base.timestamp}
<1> HIDE DEF revision, records, id, acquired
<1>1. EvidenceOf(o) =
        [ identity |-> Identity, epoch |-> o.base.epoch, acquired |-> acquired,
          eventId |-> id, content |-> "finding", finding |-> "found",
          revision |-> revision, records |-> records ]
  BY Zenon DEF EvidenceOf, EventId, revision, records, id, acquired
<1> QED  BY <1>1 DEF revision, records, id, acquired

(* which a trusting context resolves unless it was not stored.             *)
LEMMA EvidenceStored ==
  ASSUME NEW o, NEW X, Trusting(X, o)
  PROVE  /\ Resolved(X, {Uri(o)}) = Stored(o)
         /\ o.name \notin Unstored \cup Corrupted => Stored(o) = {EvidenceOf(o)}
<1>1. Resolved(X, {Uri(o)}) = Stored(o)
  BY DEF Resolved, Trusting
<1>2. o.name \notin Unstored \cup Corrupted => Stored(o) = {EvidenceOf(o)}
  BY DEF Stored, Unstored, Corrupted
<1> QED  BY <1>1, <1>2

(* The cases that cite evidence of what they change.                       *)
Cited == {"L1", "L2", "L3", "L4", "L7", "I1", "temporal"}

(* Their evidence is what the store resolves.                              *)
LEMMA EvidenceThere ==
  ASSUME NEW o, NEW X, Trusting(X, o), o.name \in Cited
  PROVE  Resolved(X, {Uri(o)}) = {EvidenceOf(o)} /\ The({EvidenceOf(o)}) = EvidenceOf(o)
<1>1. o.name \notin Unstored \cup Corrupted
  BY DEF Cited, Unstored, Corrupted
<1> QED  BY <1>1, EvidenceStored, TheOnly

(* Nothing may be dated before its evidence was acquired.                  *)
LEMMA NotBeforeIs ==
  ASSUME NEW o, NEW X, Trusting(X, o), o.name \in Cited, NEW time
  PROVE  NotBefore(Resolved(X, {Uri(o)}), time) = Or(time >= o.base.timestamp, "FAIL")
<1> DEFINE e == EvidenceOf(o)
<1>1. Resolved(X, {Uri(o)}) = {e} /\ The({e}) = e /\ e.acquired = {o.base.timestamp}
  BY EvidenceThere, EvidenceFields
<1> HIDE DEF e
<1>2. The({o.base.timestamp}) = o.base.timestamp
  BY TheOnly
<1> QED  BY <1>1, <1>2 DEF NotBefore

(* The knowledge of a state after a claim was put to it.                   *)
LEMMA ClaimsLearned ==
  ASSUME NEW o, Offered(o), NEW X, Trusting(X, o), o.name = "L1", ClaimsPast(X, o.base)
  PROVE  ClaimsPast(X, o.applied)
<1> DEFINE v == Claim(o, o.base.timestamp)
<1> DEFINE f == o.base.knowledge
<1>1. o.applied.knowledge = Put(f, Uri(o), v)
  BY ManifestIs, LearnOutcome DEF Offered
<1>2. v.structured /\ v.claimed = {o.base.timestamp} /\ v.evidence = {Uri(o)}
  BY DEF Claim
<1>0. The({o.base.timestamp}) = o.base.timestamp
  BY TheOnly
<1>3. The({o.base.timestamp}) = o.base.timestamp /\ o.base.timestamp \in Nat
  BY <1>0 DEF Offered, Regular
<1> HIDE DEF v
<1>4. NotBefore(Resolved(X, v.evidence), The(v.claimed)) = "PASS"
  BY NotBeforeIs, <1>2, <1>3 DEF Cited, Or
<1>5. \A k \in DOMAIN Put(f, Uri(o), v) : \/ Put(f, Uri(o), v)[k] = v
                                          \/ k \in DOMAIN f /\ Put(f, Uri(o), v)[k] = f[k]
  BY DEF Put
<1> QED  BY <1>1, <1>4, <1>5 DEF ClaimsPast

(* An event reported with its evidence is vouched for.                     *)
LEMMA ReportPasses ==
  ASSUME NEW o, Offered(o), NEW X, Trusting(X, o), o.name = "L2", ClaimsPast(X, o.base),
         NEW proposal, NEW policy
  PROVE  /\ CheckHistoricalChronicle(o.base, o.applied, proposal, policy, X) = "PASS"
         /\ CheckTemporal(o.base, o.applied, X) = "PASS"
<1> DEFINE s == o.base
<1> DEFINE t == o.applied
<1> DEFINE e == NewEvent(o, "finding")
<1>1. Changed(o, {"chronicle"}) /\ t.chronicle = Append(s.chronicle, e)
  BY ManifestIs, ReportOutcome DEF Offered
<1>2. /\ s.timestamp \in Nat /\ RegularChronicle(s.chronicle, s.timestamp)
      /\ t.timestamp = s.timestamp + 1 /\ t.knowledge = s.knowledge
  BY <1>1 DEF Offered, Regular, Changed, Turns
<1>3. RegularChronicle(t.chronicle, s.timestamp + 1)
  BY LawfulRegular DEF Lawful, Regular
<1>4. /\ e.content = "finding" /\ e.timestamp = s.timestamp + 1 /\ e.id = Uri(o)
      /\ e.evidence = {Uri(o)}
  BY NewEventFields
<1>5. PICK S : s.chronicle \in Seq(S)
  BY <1>2 DEF RegularChronicle, IsSequence
<1> HIDE DEF e
<1>6. /\ DOMAIN s.chronicle = 1..Len(s.chronicle) /\ Len(s.chronicle) \in Nat
      /\ DOMAIN t.chronicle = 1..(Len(s.chronicle) + 1)
      /\ \A i \in DOMAIN s.chronicle : t.chronicle[i] = s.chronicle[i]
      /\ t.chronicle[Len(s.chronicle) + 1] = e
  BY <1>1, <1>5
<1>7. /\ DOMAIN s.chronicle \subseteq DOMAIN t.chronicle
      /\ \A i \in DOMAIN t.chronicle : i \in DOMAIN s.chronicle \/ t.chronicle[i] = e
  BY <1>6
<1>8. NewEventStatus(e, X) = "PASS"
  <2> DEFINE x == EvidenceOf(o)
  <2>1. /\ Resolved(X, {Uri(o)}) = {x} /\ The({x}) = x
        /\ x.content = "finding" /\ x.eventId = Uri(o)
    BY EvidenceThere, EvidenceFields DEF Cited
  <2> HIDE DEF x
  <2> QED  BY <1>4, <2>1 DEF NewEventStatus, Or
<1>9. NotBefore(Resolved(X, e.evidence), e.timestamp) = "PASS"
  BY NotBeforeIs, <1>2, <1>4 DEF Cited, Or
<1>10. ClaimsPast(X, t)
  BY <1>2 DEF ClaimsPast
<1> DEFINE c == t
<1>11. \A i \in DOMAIN s.chronicle : ~s.chronicle[i].tombstone
  BY <1>2 DEF RegularChronicle, RegularEvent
<1>12. \A i, j \in DOMAIN t.chronicle : t.chronicle[i].id = t.chronicle[j].id => i = j
  BY <1>3 DEF RegularChronicle
<1>13. \A i \in DOMAIN s.chronicle :
         Continues(s.chronicle[i].annotations, t.chronicle[i].annotations)
  BY <1>6, ContinuesItself
<1>14. CheckHistoricalChronicle(s, t, proposal, policy, X) = "PASS"
  <2>1. \A i \in DOMAIN s.chronicle :
           /\ t.chronicle[i].id = s.chronicle[i].id
           /\ Continues(s.chronicle[i].annotations, t.chronicle[i].annotations)
           /\ ~s.chronicle[i].tombstone /\ ~t.chronicle[i].tombstone
           /\ EventCommitment(t.chronicle[i]) = EventCommitment(s.chronicle[i])
    BY <1>6, <1>11, <1>13
  <2>2. \A i \in DOMAIN t.chronicle :
          i \in DOMAIN s.chronicle \/ NewEventStatus(t.chronicle[i], X) = "PASS"
    BY <1>7, <1>8
  <2> HIDE DEF s, t
  <2> QED  BY <1>7, <1>12, <2>1, <2>2, HistoryPasses
<1>15. CheckTemporal(s, t, X) = "PASS"
  <2>1. \A i \in DOMAIN s.chronicle :
           /\ t.chronicle[i].timestamp = s.chronicle[i].timestamp
           /\ t.chronicle[i].id = s.chronicle[i].id
    BY <1>6
  <2>2. \A i \in DOMAIN t.chronicle : \/ i \in DOMAIN s.chronicle
          \/ NotBefore(Resolved(X, t.chronicle[i].evidence), t.chronicle[i].timestamp) = "PASS"
    BY <1>7, <1>9
  <2> DEFINE now == s.timestamp
  <2>3. now \in Nat /\ RegularChronicle(s.chronicle, now) /\ RegularChronicle(t.chronicle, now + 1)
    BY <1>2, <1>3
  <2> HIDE DEF s, t, now
  <2> QED  BY <1>7, <1>10, <2>1, <2>2, <2>3, TimePasses
<1> QED  BY <1>14, <1>15

(* What an annotation leaves of an event.                                  *)
LEMMA AnnotatedKeeps ==
  ASSUME NEW e, NEW now, RegularEvent(e, now), NEW m, m.op = "ANNOTATE_CORRECTION"
  PROVE  LET f == ChangedBy(m, e) IN
         /\ f.id = e.id /\ f.timestamp = e.timestamp /\ f.tombstone = e.tombstone
         /\ EventCommitment(f) = EventCommitment(e) /\ Continues(e.annotations, f.annotations)
<1> DEFINE note == [text |-> m.args.correction, ref |-> m.ref]
<1> DEFINE notes == Append(e.annotations, note)
<1> DEFINE f == ChangedBy(m, e)
<1>1. f = [e EXCEPT !.annotations = notes]
  BY DEF ChangedBy
<1> HIDE DEF note
<1>2. Continues(e.annotations, notes)
  <2>1. PICK S : e.annotations \in Seq(S)
    BY DEF RegularEvent, IsSequence
  <2>2. \A i \in DOMAIN e.annotations : i \in DOMAIN notes /\ notes[i] = e.annotations[i]
    BY <2>1
  <2> HIDE DEF notes
  <2> QED  BY <2>2 DEF Continues
<1>3. EventFields \subseteq DOMAIN e
  BY DEF RegularEvent
<1> HIDE DEF notes, f
<1>4. /\ f.id = e.id /\ f.timestamp = e.timestamp /\ f.tombstone = e.tombstone
      /\ f.epoch = e.epoch /\ f.content = e.content /\ f.evidence = e.evidence
      /\ f.acquired = e.acquired /\ f.annotations = notes
  BY <1>1, <1>3 DEF EventFields
<1>5. EventCommitment(f) = EventCommitment(e)
  BY <1>4, Zenon DEF EventCommitment
<1> QED  BY <1>2, <1>4, <1>5 DEF f

(* An annotation takes nothing from the past.                              *)
LEMMA AnnotationPasses ==
  ASSUME NEW o, Offered(o), NEW X, o.name = "L7", ClaimsPast(X, o.base), NEW proposal, NEW policy
  PROVE  /\ CheckHistoricalChronicle(o.base, o.applied, proposal, policy, X) = "PASS"
         /\ CheckTemporal(o.base, o.applied, X) = "PASS"
<1> DEFINE s == o.base
<1> DEFINE t == o.applied
<1> DEFINE m == Annotate(o)
<1>1. m.op = "ANNOTATE_CORRECTION" /\ o.manifest = <<m>>
  BY ManifestIs DEF Annotate, Mutation, Offered
<1> HIDE DEF m
<1>2. PICK p \in DOMAIN s.chronicle :
        t.chronicle = [s.chronicle EXCEPT ![p] = ChangedBy(m, s.chronicle[p])]
  BY <1>1, EventOutcome
<1>3. Changed(o, {"chronicle"})
  BY <1>1, EventOutcome
<1>4. /\ s.timestamp \in Nat /\ RegularChronicle(s.chronicle, s.timestamp)
      /\ t.timestamp = s.timestamp + 1 /\ t.knowledge = s.knowledge
  BY <1>3 DEF Offered, Regular, Changed, Turns
<1>5. RegularChronicle(t.chronicle, s.timestamp + 1)
  BY LawfulRegular DEF Lawful, Regular
<1>6. DOMAIN t.chronicle = DOMAIN s.chronicle
  BY <1>2
<1>7. ASSUME NEW i \in DOMAIN s.chronicle
      PROVE  /\ t.chronicle[i].id = s.chronicle[i].id
             /\ t.chronicle[i].timestamp = s.chronicle[i].timestamp
             /\ Continues(s.chronicle[i].annotations, t.chronicle[i].annotations)
             /\ ~s.chronicle[i].tombstone /\ ~t.chronicle[i].tombstone
             /\ EventCommitment(t.chronicle[i]) = EventCommitment(s.chronicle[i])
  <2> DEFINE e == s.chronicle[i]
  <2>1. RegularEvent(e, s.timestamp) /\ ~e.tombstone
    BY <1>4 DEF RegularChronicle, RegularEvent
  <2>2. t.chronicle[i] = IF i = p THEN ChangedBy(m, e) ELSE e
    BY <1>2
  <2> HIDE DEF e
  <2>3. CASE i = p
    <3> DEFINE f == ChangedBy(m, e)
    <3>1. t.chronicle[i] = f
      BY <2>2, <2>3
    <3>2. /\ f.id = e.id /\ f.timestamp = e.timestamp /\ f.tombstone = e.tombstone
          /\ EventCommitment(f) = EventCommitment(e) /\ Continues(e.annotations, f.annotations)
      BY <1>1, <2>1, AnnotatedKeeps
    <3> HIDE DEF f
    <3> QED  BY <2>1, <3>1, <3>2 DEF e
  <2>4. CASE i # p
    BY <2>2, <2>4, <2>1, ContinuesItself DEF e
  <2> QED  BY <2>3, <2>4
<1>8. ClaimsPast(X, t)
  BY <1>4 DEF ClaimsPast
<1>9. \A i, j \in DOMAIN t.chronicle : t.chronicle[i].id = t.chronicle[j].id => i = j
  BY <1>5 DEF RegularChronicle
<1> DEFINE now == s.timestamp
<1>10. now \in Nat /\ RegularChronicle(s.chronicle, now) /\ RegularChronicle(t.chronicle, now + 1)
  BY <1>4, <1>5
<1> HIDE DEF s, t, now
<1>11. CheckHistoricalChronicle(s, t, proposal, policy, X) = "PASS"
  BY <1>6, <1>7, <1>9, HistoryPasses
<1>12. CheckTemporal(s, t, X) = "PASS"
  BY <1>6, <1>7, <1>8, <1>10, TimePasses
<1> QED  BY <1>11, <1>12 DEF s, t

(* A sequence of one has one member.                                       *)
LEMMA OneInSequence == ASSUME NEW m PROVE ToSet(<<m>>) = {m}
<1>1. DOMAIN <<m>> = {1} /\ <<m>>[1] = m
  OBVIOUS
<1> QED  BY <1>1 DEF ToSet

(* What a proposal depends on, by the name of the evidence.                *)
LEMMA DependsOnUri ==
  ASSUME NEW o, o.name \notin Unprovided
  PROVE  /\ Dependencies({ProposalOf(o)}) = {One(o)} /\ One(o).id = Uri(o) /\ One(o).uri = Uri(o)
         /\ {d \in Dependencies({ProposalOf(o)}) : d.id \in {Uri(o)}} = {One(o)}
<1>1. ProposalOf(o).provenance # {}
  BY ProposalFields
<1>2. Dependencies({ProposalOf(o)}) = {One(o)}
  BY <1>1, DependsOnOne
<1>3. One(o).id = Uri(o) /\ One(o).uri = Uri(o)
  BY DEF One
<1> QED  BY <1>2, <1>3

(* The evidence of a revision supports it.                                 *)
LEMMA RevisionSupported ==
  ASSUME NEW o, Offered(o), NEW X, Trusting(X, o), o.name = "L3",
         NEW new, new.ref = {Uri(o)}, new.value = o.applied.beliefs["hypothesis"].value
  PROVE  BeliefSupport("hypothesis", new, {ProposalOf(o)}, X) = "PASS"
<1> DEFINE m == Revise(o, ~o.base.beliefs["hypothesis"].value, 0)
<1> DEFINE q == ProposalOf(o)
<1> DEFINE e == EvidenceOf(o)
<1>1. m.op = "REVISE_BELIEF" /\ m.args.proposition = "hypothesis"
  BY DEF Revise, Mutation
<1>2. o.manifest = <<m>>
  BY ManifestIs DEF Offered
<1> HIDE DEF m
<1>3. SupportedRevision(o) = {<<"hypothesis", new.value>>}
  BY <1>1, <1>2, OneInSequence DEF SupportedRevision
<1>4. /\ e.identity = Identity /\ e.epoch = o.base.epoch /\ e.revision = SupportedRevision(o)
      /\ q.identity = Identity /\ q.epoch = o.base.epoch
  BY EvidenceFields, ProposalFields
<1>5. Resolved(X, {Uri(o)}) = {e} /\ The({e}) = e /\ The({q}) = q
  BY EvidenceThere, TheOnly DEF Cited
<1>6. {d \in Dependencies({q}) : d.id \in {Uri(o)}} = {One(o)} /\ One(o).uri = Uri(o)
  BY DependsOnUri DEF Unprovided
<1> DEFINE deps == {d \in Dependencies({q}) : d.id \in new.ref}
<1> HIDE DEF q, e
<1>7. deps = {One(o)} /\ {d.uri : d \in deps} = {Uri(o)}
  BY <1>6
<1> DEFINE uris == {d.uri : d \in deps}
<1>8. BeliefSupport("hypothesis", new, {q}, X) =
        IF new.ref = {} \/ deps = {} \/ Resolved(X, uris) = {} THEN "UNKNOWN"
        ELSE Or(/\ The(Resolved(X, uris)).identity = The({q}).identity
                /\ The(Resolved(X, uris)).epoch = The({q}).epoch
                /\ The(Resolved(X, uris)).revision = {<<"hypothesis", new.value>>}, "FAIL")
  BY Zenon DEF BeliefSupport
<1> HIDE DEF deps, uris
<1>9. uris = {Uri(o)}
  BY <1>7 DEF uris
<1>10. BeliefSupport("hypothesis", new, {q}, X) = "PASS"
  BY <1>3, <1>4, <1>5, <1>7, <1>8, <1>9 DEF Or
<1> QED  BY <1>10 DEF q

(* A revision, as what the beliefs become.                                 *)
RevisedTo(s, a, m, b) ==
  /\ RegularBeliefs(b, s.epoch + 1) /\ b["hypothesis"].ref = m.ref
  /\ b["hypothesis"].revised = s.epoch + 1
  /\ b["hypothesis"].history = Append(s.beliefs["hypothesis"].history,
                                      BeliefSnapshot(s.beliefs["hypothesis"]))

(* The engine revises it so.                                               *)
LEMMA RevisedIs ==
  ASSUME NEW s, NEW a, Turns(s, a, {}), s.epoch \in Nat, RegularBeliefs(s.beliefs, s.epoch),
         NEW m, m.args.proposition = "hypothesis",
         NEW b, b = Put(s.beliefs, "hypothesis", RevisedBelief(a, m))
  PROVE  RevisedTo(s, a, m, b)
<1> DEFINE d == Put(s.beliefs, "hypothesis", RevisedBelief(a, m))
<1>1. RegularBeliefs(d, s.epoch + 1)
  BY BeliefsRevised
<1>2. d["hypothesis"].ref = m.ref /\ d["hypothesis"].revised = s.epoch + 1
  BY BeliefsRevised
<1>3. d["hypothesis"].history = Append(s.beliefs["hypothesis"].history,
                                      BeliefSnapshot(s.beliefs["hypothesis"]))
  BY BeliefsRevised
<1>4. b = d
  OBVIOUS
<1> HIDE DEF d
<1> QED  BY <1>1, <1>2, <1>3, <1>4 DEF RevisedTo

(* A revision with its evidence passes.                                    *)
LEMMA RevisionPasses ==
  ASSUME NEW o, Offered(o), NEW X, Trusting(X, o), o.name = "L3"
  PROVE  CheckBeliefCoherence(o.base, o.applied, {ProposalOf(o)}, X) = "PASS"
<1> DEFINE s == o.base
<1> DEFINE c == o.applied
<1> DEFINE m == Revise(o, ~s.beliefs["hypothesis"].value, 0)
<1>1. m.args.proposition = "hypothesis" /\ m.ref = {Uri(o)} /\ o.manifest = <<m>>
  BY ManifestIs DEF Offered, Revise, Mutation
<1>2. /\ Changed(o, {"beliefs"})
      /\ \E a : /\ Turns(s, a, {}) /\ c.beliefs = Put(s.beliefs, "hypothesis", RevisedBelief(a, m))
  BY <1>1, ReviseOutcome
<1> HIDE DEF m
<1>3. PICK a : /\ Turns(s, a, {}) /\ c.beliefs = Put(s.beliefs, "hypothesis", RevisedBelief(a, m))
  BY <1>2
<1> DEFINE old == s.beliefs["hypothesis"]
<1> DEFINE new == c.beliefs["hypothesis"]
<1>4. s.epoch \in Nat /\ RegularBeliefs(s.beliefs, s.epoch) /\ c.epoch = s.epoch + 1
  BY <1>2 DEF Offered, Regular, Changed, Turns
<1>5. /\ RegularBeliefs(c.beliefs, s.epoch + 1) /\ new.ref = {Uri(o)}
      /\ new.revised = s.epoch + 1
      /\ new.history = Append(old.history, BeliefSnapshot(old))
  <2>1. RevisedTo(s, a, m, c.beliefs)
    BY <1>1, <1>3, <1>4, RevisedIs
  <2> QED  BY <1>1, <2>1 DEF RevisedTo
<1>6. /\ DOMAIN s.beliefs = {"hypothesis"} /\ DOMAIN c.beliefs = {"hypothesis"}
      /\ old.established = 1 /\ new.established = 1 /\ new.proposition = "hypothesis"
      /\ old.revised \in 0..s.epoch /\ IsSequence(old.history)
  BY Zenon, <1>4, <1>5 DEF RegularBeliefs
<1>7. BeliefSupport("hypothesis", new, {ProposalOf(o)}, X) = "PASS"
  BY Zenon, <1>5, RevisionSupported
<1>8. PriorBeliefKept(old, {new})
  <2> DEFINE v == BeliefSnapshot(old)
  <2> HIDE DEF old, new, v
  <2>1. PICK S : old.history \in Seq(S)
    BY <1>6 DEF IsSequence, old
  <2> DEFINE history == Append(old.history, v)
  <2>2. /\ \A i \in DOMAIN old.history : i \in DOMAIN history /\ history[i] = old.history[i]
        /\ Len(old.history) + 1 \in DOMAIN history /\ history[Len(old.history) + 1] = v
        /\ Len(old.history) + 1 > Len(old.history)
    BY <2>1
  <2>3. new.history = history
    BY <1>5 DEF old, new, v
  <2> HIDE DEF history
  <2>4. Continues(old.history, new.history)
    BY <2>2, <2>3 DEF Continues
  <2>5. \E i \in DOMAIN new.history : i > Len(old.history) /\ new.history[i] = v
    BY <2>2, <2>3
  <2>6. new.revised >= old.revised
    <3>1. \A x \in 0..s.epoch : s.epoch + 1 >= x
      BY <1>4
    <3> QED  BY <1>5, <1>6, <3>1, Zenon DEF old, new
  <2>7. The({new}) = new /\ {new} # {} /\ new.established = old.established
    BY <1>6, TheOnly DEF old, new
  <2> QED  BY <2>4, <2>5, <2>6, <2>7 DEF PriorBeliefKept, v
<1>9. \A k \in DOMAIN s.beliefs : PriorBeliefKept(s.beliefs[k], Lookup(c.beliefs, k))
  BY <1>6, <1>8 DEF Lookup
<1>10. BeliefDated(s, c, "hypothesis")
  BY Zenon, <1>4, <1>5, <1>6 DEF BeliefDated
<1>11. \A k \in DOMAIN c.beliefs :
         BeliefDated(s, c, k) /\ BeliefSupport(k, c.beliefs[k], {ProposalOf(o)}, X) = "PASS"
  BY <1>6, <1>7, <1>10
<1> QED  BY <1>9, <1>11, BeliefsComeTo

(* The evidence of the interactions a new tier relies on.                  *)
RecordFor(o, id) ==
  [session |-> id, entity |-> "collaborator", positive |-> TRUE,
   acquired |-> o.base.timestamp - 1]

(* The evidence vouches for the interactions of the genesis.               *)
LEMMA InteractionsSupported ==
  ASSUME NEW o, Offered(o), NEW X, Trusting(X, o), o.name = "L4",
         NEW c, c.timestamp = o.base.timestamp + 1, NEW new, new.ids = <<"c1", "c2">>
  PROVE  RelationSupport("collaborator", new, c, {ProposalOf(o)}, X) = "PASS"
<1> DEFINE m == Relate(o, "collaborator", "HIGH", <<>>)
<1> DEFINE q == ProposalOf(o)
<1> DEFINE e == EvidenceOf(o)
<1> DEFINE key == "collaborator"
<1>1. /\ m.op = "UPDATE_TRUST_TIER" /\ m.args.entity = key /\ m.ref = {Uri(o)}
      /\ m.args.ids = <<>>
  BY DEF Relate, Mutation
<1>2. o.manifest = <<m>>
  BY ManifestIs DEF Offered
<1> HIDE DEF m
<1>3. /\ e.identity = Identity /\ e.epoch = o.base.epoch /\ e.records = SupportedRecords(o)
      /\ q.identity = Identity /\ q.epoch = o.base.epoch /\ q.manifest = o.manifest
  BY EvidenceFields, ProposalFields
<1>4. Resolved(X, {Uri(o)}) = {e} /\ The({e}) = e /\ The({q}) = q
  BY EvidenceThere, TheOnly DEF Cited
<1>5. {d \in Dependencies({q}) : d.id \in {Uri(o)}} = {One(o)} /\ One(o).uri = Uri(o)
      /\ One(o).id = Uri(o)
  BY DependsOnUri DEF Unprovided
<1> HIDE DEF q, e
<1> DEFINE records == {RecordFor(o, "c1"), RecordFor(o, "c2")}
<1>6. SupportedRecords(o) = {records}
  <2>1. {n \in ToSet(o.manifest) : n.op = "UPDATE_TRUST_TIER"} = {m}
    BY <1>1, <1>2, OneInSequence
  <2> DEFINE ids == ToSet(o.base.relationships[m.args.entity].ids \o m.args.ids)
  <2>2. ids = {"c1", "c2"}
    <3>1. o.base.relationships[m.args.entity].ids = <<"c1", "c2">>
      BY <1>1 DEF Offered, Regular, RegularRelations
    <3>2. <<"c1", "c2">> \o <<>> = <<"c1", "c2">>
      OBVIOUS
    <3>3. ToSet(<<"c1", "c2">>) = {"c1", "c2"}
      BY DEF ToSet
    <3> QED  BY <1>1, <3>1, <3>2, <3>3
  <2> DEFINE Mine(n) == {[session |-> id, entity |-> n.args.entity, positive |-> TRUE,
                          acquired |-> o.base.timestamp - 1] :
                           id \in ToSet(o.base.relationships[n.args.entity].ids \o n.args.ids)}
  <2>3. SupportedRecords(o) =
          {Mine(n) : n \in {k \in ToSet(o.manifest) : k.op = "UPDATE_TRUST_TIER"}}
    BY DEF SupportedRecords
  <2>4. Mine(m) = {RecordFor(o, id) : id \in ids}
    BY <1>1 DEF RecordFor
  <2> HIDE DEF Mine, ids
  <2>5. Mine(m) = records
    BY <2>2, <2>4
  <2> HIDE DEF records
  <2> QED  BY <2>1, <2>3, <2>5
<1>7. \A r \in records : Supports(r, key, c)
  BY DEF Offered, Regular, Supports, RecordFor
<1>8. CitedBy(q, key) = {Uri(o)}
  <2>1. {n \in ToSet(q.manifest) : n.op = "UPDATE_TRUST_TIER" /\ n.args.entity = key} = {m}
    BY <1>1, <1>2, <1>3, OneInSequence
  <2> DEFINE mine == {n \in ToSet(q.manifest) : n.op = "UPDATE_TRUST_TIER" /\ n.args.entity = key}
  <2>2. UNION {k.ref : k \in mine} = {Uri(o)}
    <3>1. mine = {m}
      BY <2>1
    <3> HIDE DEF mine
    <3> QED  BY <1>1, <3>1
  <2>3. CitedBy(q, key) =
          UNION {UNION {k.ref : k \in {n \in ToSet(x.manifest) :
                                 n.op = "UPDATE_TRUST_TIER" /\ n.args.entity = key}} : x \in {q}}
    BY DEF CitedBy
  <2>4. CitedBy(q, key) = UNION {UNION {k.ref : k \in mine}}
    BY <2>3
  <2> HIDE DEF mine
  <2> QED  BY <2>2, <2>4
<1>9. CitedDeps(q, key) = {One(o)}
  BY <1>5, <1>8 DEF CitedDeps
<1>10. {d.id : d \in CitedDeps(q, key)} = {Uri(o)} /\ {d.uri : d \in CitedDeps(q, key)} = {Uri(o)}
  BY <1>5, <1>9
<1>11. AbsentFrom(CitedDeps(q, key), X) = FALSE
  BY <1>4, <1>5, <1>9 DEF Resolved, Lookup, AbsentFrom
<1>12. RelationSupport(key, new, c, {q}, X) = Says(q, key, new, c, {e}, FALSE)
  <2>1. RelationSupport(key, new, c, {q}, X) =
          Says(q, key, new, c, Resolved(X, {d.uri : d \in CitedDeps(q, key)}),
               AbsentFrom(CitedDeps(q, key), X))
    BY <1>8, <1>10, RelationShape
  <2> QED  BY <1>4, <1>10, <1>11, <2>1
<1>13. Says(q, key, new, c, {e}, FALSE) = "PASS"
  <2> DEFINE scoped == {x \in {e} : /\ x.records # {} /\ x.identity = The({q}).identity
                                    /\ x.epoch = The({q}).epoch}
  <2> DEFINE supported == {r.session : r \in {x \in UNION {The(y.records) : y \in scoped} :
                                       Supports(x, key, c)}}
  <2> DEFINE A == {CitedStatus(y, key, c, The({q})) : y \in {e}}
  <2>1. Says(q, key, new, c, {e}, FALSE) =
          Combine(A \cup {Or(ToSet(new.ids) \subseteq supported, "FAIL")})
    BY Zenon DEF Says
  <2>2. e.records = {records} /\ The({records}) = records
    BY <1>3, <1>6, TheOnly
  <2> HIDE DEF records
  <2>3. scoped = {e}
    BY <1>3, <1>4, <2>2
  <2>4. CitedStatus(e, key, c, The({q})) = "PASS"
    BY <1>3, <1>4, <1>7, <2>2 DEF CitedStatus, Or
  <2>5. A = {"PASS"}
    BY <2>4
  <2> HIDE DEF scoped, A
  <2>6. UNION {The(y.records) : y \in scoped} = records
    BY <2>2, <2>3
  <2>7. supported = {r.session : r \in records}
    BY <1>7, <2>6
  <2>8. {r.session : r \in records} = {"c1", "c2"}
    BY DEF records, RecordFor
  <2>9. ToSet(new.ids) \subseteq {"c1", "c2"}
    BY DEF ToSet
  <2>10. Or(ToSet(new.ids) \subseteq supported, "FAIL") = "PASS"
    <3> HIDE DEF supported
    <3> QED  BY <2>7, <2>8, <2>9 DEF Or
  <2> QED  BY <2>1, <2>5, <2>10, CombineGood
<1>14. RelationSupport(key, new, c, {q}, X) = "PASS"
  BY <1>12, <1>13
<1> QED  BY <1>14 DEF q

(* A tier that was earned passes.                                          *)
LEMMA RelationPasses ==
  ASSUME NEW o, Offered(o), NEW X, Trusting(X, o), o.name = "L4"
  PROVE  CheckRelational(o.base, o.applied, PolicyOf(o), {ProposalOf(o)}, X) = "PASS"
<1> DEFINE s == o.base
<1> DEFINE c == o.applied
<1> DEFINE policy == PolicyOf(o)
<1> DEFINE proposal == {ProposalOf(o)}
<1> DEFINE args == Relate(o, "collaborator", "HIGH", <<>>).args
<1>1. o.manifest = <<Relate(o, "collaborator", "HIGH", <<>>)>>
  BY ManifestIs DEF Offered
<1>2. PICK a : /\ Turns(s, a, {})
               /\ c.relationships =
                    Put(s.relationships, "collaborator", UpdatedRelationship(a, args))
  BY <1>1, RelateOutcome
<1>3. Changed(o, {"relationships"}) /\ c.timestamp = s.timestamp + 1
  BY <1>1, RelateOutcome DEF Changed, Turns
<1> DEFINE old == s.relationships["collaborator"]
<1> DEFINE new == c.relationships["collaborator"]
<1>4. RegularRelations(s.relationships)
  BY DEF Offered, Regular
<1>5. /\ RegularRelations(c.relationships) /\ new = UpdatedRelationship(a, args)
      /\ c.relationships["stranger"] = s.relationships["stranger"]
  <2>1. RegularRelations(Put(s.relationships, "collaborator", UpdatedRelationship(a, args)))
    BY <1>2, <1>4, RelationsUpdated
  <2>2. DOMAIN s.relationships = {"collaborator", "stranger"}
    BY <1>4 DEF RegularRelations
  <2> HIDE DEF args
  <2> QED  BY <1>2, <2>1, <2>2 DEF Put
<1>6. /\ new.tier = "HIGH" /\ new.entity = "collaborator" /\ new.count = 2
      /\ new.ids = <<"c1", "c2">> /\ old.entity = "collaborator" /\ old.count = 2
      /\ old.ids = <<"c1", "c2">>
      /\ DOMAIN s.relationships = {"collaborator", "stranger"}
      /\ DOMAIN c.relationships = {"collaborator", "stranger"}
  <2>1. new.tier = "HIGH"
    BY <1>2, <1>4, <1>5, UpdatedIs
  <2> QED  BY <1>4, <1>5, <2>1 DEF RegularRelations
<1>7. RelationSupport("collaborator", new, c, proposal, X) = "PASS"
  BY <1>3, <1>6, InteractionsSupported
<1>8. Lookup(s.relationships, "collaborator") = {old}
  BY <1>6 DEF Lookup
<1> HIDE DEF old, new
<1>9. RecordsKept({old}, new)
  <2>1. "HIGH" \in DOMAIN Ranks
    BY DEF Ranks
  <2>2. IsInjective(<<"c1", "c2">>) /\ Len(<<"c1", "c2">>) = 2
    BY DEF IsInjective
  <2>3. IsPrefix(<<"c1", "c2">>, <<"c1", "c2">>)
    BY DEF IsPrefix
  <2> QED  BY <1>6, <2>1, <2>2, <2>3 DEF RecordsKept
<1>10. Earned({old}, new, policy)
  <2>1. The({old}) = old /\ {old} # {}
    BY TheOnly
  <2>2. policy.trustThreshold = 2
    BY DEF PolicyOf, DefaultPolicy
  <2> DEFINE before == [rank |-> Rank(old.tier), count |-> old.count]
  <2>3. before.count = 2
    BY <1>6
  <2>4. Earned({old}, new, policy) <=>
          (Rank(new.tier) > before.rank => before.count >= policy.trustThreshold)
    BY <2>1, Zenon DEF Earned
  <2> QED  BY <2>2, <2>3, <2>4
<1>11. TierEarned(s, c, "collaborator", policy)
  BY <1>8, <1>9, <1>10 DEF TierEarned, new
<1>12. \A k \in DOMAIN c.relationships :
         k = "collaborator" \/ Lookup(s.relationships, k) = {c.relationships[k]}
  BY <1>5, <1>6 DEF Lookup
<1> HIDE DEF policy, proposal
<1>13. CheckRelational(s, c, policy, proposal, X) = "PASS"
  BY <1>6, <1>7, <1>11, <1>12, RelationsComeTo DEF new
<1> QED  BY <1>13 DEF policy, proposal

------------------------------------------------------------------------------
(* A chronicle fails with one event of the past missing or not what it     *)
(* was, or with one that nobody vouches for.                               *)
LEMMA HistoryFails ==
  ASSUME NEW s, NEW c, NEW proposal, NEW policy, NEW X,
         \/ \E i \in DOMAIN s.chronicle :
              \A j \in DOMAIN c.chronicle : c.chronicle[j].id # s.chronicle[i].id
         \/ \E old \in ToSet(s.chronicle) :
              OldEventStatus(old, CHOOSE e \in ToSet(c.chronicle) : e.id = old.id,
                             s, c, proposal, policy, X) = "FAIL"
         \/ \E e \in ToSet(c.chronicle) :
              e.id \notin ToSet(EventIds(s)) /\ NewEventStatus(e, X) = "FAIL"
  PROVE  CheckHistoricalChronicle(s, c, proposal, policy, X) = "FAIL"
<1> DEFINE ids == EventIds(c)
<1> DEFINE oldIds == EventIds(s)
<1> DEFINE New(old) == CHOOSE e \in ToSet(c.chronicle) : e.id = old.id
<1> DEFINE A == {OldEventStatus(old, New(old), s, c, proposal, policy, X) :
                   old \in ToSet(s.chronicle)}
<1> DEFINE B == {NewEventStatus(e, X) :
                  e \in {n \in ToSet(c.chronicle) : n.id \notin ToSet(oldIds)}}
<1>1. CheckHistoricalChronicle(s, c, proposal, policy, X) =
        IF ~IsInjective(ids) \/ ~InOrder(oldIds, ids) THEN "FAIL" ELSE Combine(A \cup B)
  BY Zenon DEF CheckHistoricalChronicle
<1>2. ASSUME NEW i \in DOMAIN s.chronicle,
             \A j \in DOMAIN c.chronicle : c.chronicle[j].id # s.chronicle[i].id
      PROVE  ~InOrder(oldIds, ids)
  <2>1. s.chronicle[i].id \in ToSet(oldIds) /\ s.chronicle[i].id \notin ToSet(ids)
    BY <1>2 DEF EventIds, ToSet
  <2> QED  BY <2>1 DEF InOrder
<1>3. \/ \E i \in DOMAIN s.chronicle :
           \A j \in DOMAIN c.chronicle : c.chronicle[j].id # s.chronicle[i].id
      \/ "FAIL" \in A \/ "FAIL" \in B
  OBVIOUS
<1> HIDE DEF ids, oldIds, A, B
<1>4. "FAIL" \in A \cup B => Combine(A \cup B) = "FAIL"
  BY CombineBad
<1> QED  BY <1>1, <1>2, <1>3, <1>4

(* An event fabricated is not what its evidence says.                      *)
LEMMA FabricationFails ==
  ASSUME NEW o, Offered(o), NEW X, Trusting(X, o), o.name = "I1", NEW proposal, NEW policy
  PROVE  CheckHistoricalChronicle(o.base, o.applied, proposal, policy, X) = "FAIL"
<1> DEFINE s == o.base
<1> DEFINE t == o.applied
<1> DEFINE e == NewEvent(o, "fabricated")
<1>1. t.chronicle = Append(s.chronicle, e) /\ ~Holds(s, e.id)
  BY ManifestIs, ReportOutcome DEF Offered
<1>2. e.content = "fabricated" /\ e.evidence = {Uri(o)}
  BY NewEventFields
<1>3. PICK S : s.chronicle \in Seq(S)
  BY DEF Offered, Regular, RegularChronicle, IsSequence
<1> HIDE DEF e
<1>4. e \in ToSet(t.chronicle)
  <2>1. Len(s.chronicle) + 1 \in DOMAIN t.chronicle /\ t.chronicle[Len(s.chronicle) + 1] = e
    BY <1>1, <1>3
  <2> QED  BY <2>1 DEF ToSet
<1>5. NewEventStatus(e, X) = "FAIL"
  <2> DEFINE x == EvidenceOf(o)
  <2>1. /\ Resolved(X, {Uri(o)}) = {x} /\ The({x}) = x /\ x.content = "finding"
    BY EvidenceThere, EvidenceFields DEF Cited
  <2> HIDE DEF x
  <2> QED  BY <1>2, <2>1 DEF NewEventStatus, Or
<1>6. e.id \notin ToSet(EventIds(s))
  BY <1>1 DEF Holds
<1> HIDE DEF s, t
<1>7. CheckHistoricalChronicle(s, t, proposal, policy, X) = "FAIL"
  BY <1>4, <1>5, <1>6, HistoryFails
<1> QED  BY <1>7 DEF s, t

(* An event rewritten is not what was recorded.                            *)
LEMMA RewriteFails ==
  ASSUME NEW o, Offered(o), NEW X, o.name = "historical", NEW proposal, NEW policy
  PROVE  CheckHistoricalChronicle(o.base, o.applied, proposal, policy, X) = "FAIL"
<1> DEFINE s == o.base
<1> DEFINE t == o.applied
<1> DEFINE m == Rewrite(s, 0)
<1>1. o.manifest = <<m>> /\ m.op = "REWRITE_CHRONICLE" /\ m.args.content = "rewritten"
  BY ManifestIs DEF Offered, Rewrite, Mutation
<1> HIDE DEF m
<1>2. PICK p \in DOMAIN s.chronicle :
        t.chronicle = [s.chronicle EXCEPT ![p] = ChangedBy(m, s.chronicle[p])]
  BY <1>1, EventOutcome
<1> DEFINE old == s.chronicle[p]
<1> DEFINE new == ChangedBy(m, old)
<1>3. /\ RegularEvent(old, s.timestamp)
      /\ \A i, j \in DOMAIN s.chronicle : s.chronicle[i].id = s.chronicle[j].id => i = j
  BY <1>2 DEF Offered, Regular, RegularChronicle
<1>4. /\ EventFields \subseteq DOMAIN old /\ ~old.tombstone
      /\ old.content \in {"observed", "finding"}
  BY <1>3 DEF RegularEvent
<1> HIDE DEF old
<1>5. /\ new.id = old.id /\ new.tombstone = old.tombstone /\ new.content = "rewritten"
      /\ new.annotations = old.annotations
  BY <1>1, <1>4 DEF ChangedBy, EventFields
<1> HIDE DEF new
<1>6. EventCommitment(new) # EventCommitment(old)
  BY <1>4, <1>5 DEF EventCommitment
<1>7. OldEventStatus(old, new, s, t, proposal, policy, X) = "FAIL"
  BY <1>4, <1>5, <1>6, ContinuesItself DEF OldEventStatus, Or
<1>8. (CHOOSE e \in ToSet(t.chronicle) : e.id = old.id) = new
  <2> DEFINE d == t.chronicle
  <2>1. DOMAIN d = DOMAIN s.chronicle /\ d[p] = new
    BY <1>2 DEF new, old
  <2>2. \A i \in DOMAIN s.chronicle : d[i].id = s.chronicle[i].id
    BY <1>2, <1>5 DEF new, old
  <2>3. \A i, j \in DOMAIN d : d[i].id = d[j].id => i = j
    BY <1>3, <2>1, <2>2
  <2> HIDE DEF d
  <2>4. (CHOOSE e \in ToSet(d) : e.id = d[p].id) = d[p]
    BY <1>2, <2>1, <2>3, TheEvent
  <2> QED  BY <1>5, <2>1, <2>4 DEF d
<1>9. old \in ToSet(s.chronicle)
  BY <1>2 DEF old, ToSet
<1> HIDE DEF s, t
<1>10. CheckHistoricalChronicle(s, t, proposal, policy, X) = "FAIL"
  BY <1>7, <1>8, <1>9, HistoryFails
<1> QED  BY <1>10 DEF s, t

(* An event taken out is missed.                                           *)
LEMMA RemovalFails ==
  ASSUME NEW o, Offered(o), NEW X, o.name = "I5", NEW proposal, NEW policy
  PROVE  CheckHistoricalChronicle(o.base, o.applied, proposal, policy, X) = "FAIL"
<1> DEFINE s == o.base
<1> DEFINE t == o.applied
<1> DEFINE d == s.chronicle
<1>1. PICK p \in DOMAIN d : t.chronicle = RemoveAt(d, p)
  BY ManifestIs, RemovalOutcome DEF Offered
<1>2. \A i, j \in DOMAIN d : d[i].id = d[j].id => i = j
  BY DEF Offered, Regular, RegularChronicle
<1>3. PICK S : d \in Seq(S)
  BY DEF Offered, Regular, RegularChronicle, IsSequence
<1> HIDE DEF d
<1>4. \A j \in DOMAIN RemoveAt(d, p) : \E k \in DOMAIN d : k # p /\ RemoveAt(d, p)[j] = d[k]
  BY <1>1, <1>3, RemovalKeeps
<1>5. \A j \in DOMAIN t.chronicle : t.chronicle[j].id # d[p].id
  BY <1>1, <1>2, <1>4
<1>6. \A j \in DOMAIN t.chronicle : t.chronicle[j].id # s.chronicle[p].id
  BY <1>5 DEF d
<1>7. p \in DOMAIN s.chronicle
  BY <1>1 DEF d
<1> HIDE DEF s, t
<1>8. CheckHistoricalChronicle(s, t, proposal, policy, X) = "FAIL"
  BY <1>6, <1>7, HistoryFails
<1> QED  BY <1>8 DEF s, t

(* A belief held since another epoch is not the one there was.             *)
LEMMA ForgettingFails ==
  ASSUME NEW o, Offered(o), o.name \in {"I2", "belief", "provenance_and_belief"},
         NEW proposal, NEW X
  PROVE  CheckBeliefCoherence(o.base, o.applied, proposal, X) = "FAIL"
<1> DEFINE s == o.base
<1> DEFINE c == o.applied
<1>1. "hypothesis" \in DOMAIN c.beliefs /\ c.beliefs["hypothesis"].established = 0
  BY ManifestIs, ForgetOutcome DEF Offered
<1>2. DOMAIN s.beliefs = {"hypothesis"} /\ s.beliefs["hypothesis"].established = 1
  BY DEF Offered, Regular, RegularBeliefs
<1>3. ~PriorBeliefKept(s.beliefs["hypothesis"], Lookup(c.beliefs, "hypothesis"))
  <2> DEFINE old == s.beliefs["hypothesis"]
  <2> DEFINE new == c.beliefs["hypothesis"]
  <2>1. Lookup(c.beliefs, "hypothesis") = {new}
    BY <1>1 DEF Lookup
  <2>2. The({new}) = new
    BY TheOnly
  <2>3. new.established # old.established
    BY <1>1, <1>2
  <2>4. ~PriorBeliefKept(old, {new})
    BY <2>2, <2>3 DEF PriorBeliefKept
  <2> QED  BY <1>2, <2>1, <2>4
<1> QED  BY <1>2, <1>3, BeliefsComeTo

(* The core rule struck is missed.                                         *)
LEMMA StrikingFails ==
  ASSUME NEW o, Offered(o),
         o.name \in {"I3", "normative", "authority_and_normative", "unknown_and_invalid"}
  PROVE  CheckNormative(o.base, o.applied) = "FAIL"
<1>1. "core" \notin DOMAIN o.applied.rules
  BY ManifestIs, StrikeOutcome DEF Offered
<1>2. o.base.rules = Genesis.rules
  BY DEF Offered, Regular
<1>3. "core" \in DOMAIN Genesis.rules /\ Genesis.rules["core"].fixed
  BY DEF Genesis
<1>4. Lookup(o.applied.rules, "core") = {}
  BY <1>1 DEF Lookup
<1>5. ~(\A r \in DOMAIN o.base.rules :
          o.base.rules[r].fixed => Lookup(o.applied.rules, r) = {o.base.rules[r]})
  BY <1>2, <1>3, <1>4
<1> QED  BY <1>5 DEF CheckNormative, Or

(* A stranger has not earned a higher tier.                                *)
LEMMA StrangerFails ==
  ASSUME NEW o, Offered(o), o.name \in {"I4", "relational"}, NEW proposal, NEW X
  PROVE  CheckRelational(o.base, o.applied, PolicyOf(o), proposal, X) = "FAIL"
<1> DEFINE s == o.base
<1> DEFINE c == o.applied
<1> DEFINE policy == PolicyOf(o)
<1> DEFINE args == Relate(o, "stranger", "HIGH", <<>>).args
<1>1. o.manifest = <<Relate(o, "stranger", "HIGH", <<>>)>>
  BY ManifestIs DEF Offered
<1>2. PICK a : /\ Turns(s, a, {})
               /\ c.relationships = Put(s.relationships, "stranger", UpdatedRelationship(a, args))
  BY <1>1, RelateOutcome
<1> DEFINE old == s.relationships["stranger"]
<1> DEFINE new == c.relationships["stranger"]
<1>3. RegularRelations(s.relationships)
  BY DEF Offered, Regular
<1>4. /\ DOMAIN s.relationships = {"collaborator", "stranger"}
      /\ old.tier = "DEFAULT" /\ old.count = 0
  BY <1>3 DEF RegularRelations
<1>5. new = UpdatedRelationship(a, args) /\ "stranger" \in DOMAIN c.relationships
  <2> HIDE DEF args
  <2> QED  BY <1>2, <1>4 DEF Put
<1>6. new.tier = "HIGH"
  BY <1>2, <1>3, <1>5, UpdatedIs
<1>7. Lookup(s.relationships, "stranger") = {old}
  BY <1>4 DEF Lookup
<1>8. new # old
  BY <1>4, <1>6
<1> HIDE DEF old, new
<1>9. ~Earned({old}, new, policy)
  <2>1. The({old}) = old /\ {old} # {}
    BY TheOnly
  <2>2. policy.trustThreshold = 2
    BY DEF PolicyOf, DefaultPolicy
  <2> DEFINE before == [rank |-> Rank(old.tier), count |-> old.count]
  <2>3. before.count = 0 /\ before.rank = 0 /\ Rank(new.tier) = 1
    BY <1>4, <1>6 DEF Rank, Ranks
  <2>4. Earned({old}, new, policy) <=>
          (Rank(new.tier) > before.rank => before.count >= policy.trustThreshold)
    BY <2>1, Zenon DEF Earned
  <2> QED  BY <2>2, <2>3, <2>4
<1>10. ~TierEarned(s, c, "stranger", policy)
  BY <1>7, <1>9 DEF TierEarned, new
<1>11. Lookup(s.relationships, "stranger") # {c.relationships["stranger"]}
  BY <1>7, <1>8 DEF new
<1> HIDE DEF policy
<1>12. CheckRelational(s, c, policy, proposal, X) = "FAIL"
  BY <1>5, <1>10, <1>11, RelationsComeTo
<1> QED  BY <1>12 DEF policy

(* A claim older than its evidence is too early.                           *)
LEMMA BackdatingFails ==
  ASSUME NEW o, Offered(o), NEW X, Trusting(X, o), o.name = "temporal"
  PROVE  CheckTemporal(o.base, o.applied, X) = "FAIL"
<1> DEFINE s == o.base
<1> DEFINE c == o.applied
<1> DEFINE v == Claim(o, s.timestamp - 1)
<1>1. c.knowledge = Put(s.knowledge, Uri(o), v)
  BY ManifestIs, LearnOutcome DEF Offered
<1>2. v.structured /\ v.claimed = {s.timestamp - 1} /\ v.evidence = {Uri(o)}
  BY DEF Claim
<1>3. s.timestamp \in Nat
  BY DEF Offered, Regular
<1> HIDE DEF v
<1>4. NotBefore(Resolved(X, v.evidence), The(v.claimed)) = "FAIL"
  <2>1. The({s.timestamp - 1}) = s.timestamp - 1
    BY TheOnly
  <2>2. NotBefore(Resolved(X, {Uri(o)}), s.timestamp - 1)
          = Or(s.timestamp - 1 >= s.timestamp, "FAIL")
    BY NotBeforeIs DEF Cited
  <2>3. ~(s.timestamp - 1 >= s.timestamp)
    BY <1>3
  <2>4. NotBefore(Resolved(X, {Uri(o)}), s.timestamp - 1) = "FAIL"
    BY <2>2, <2>3 DEF Or
  <2> QED  BY <1>2, <2>1, <2>4
<1>5. v \in Range(c.knowledge)
  BY <1>1 DEF Put, Range
<1> DEFINE claims == {k \in Range(c.knowledge) : k.structured /\ k.claimed # {}}
<1> DEFINE dates == {NotBefore(Resolved(X, k.evidence), The(k.claimed)) : k \in claims}
<1> DEFINE events == ToSet(c.chronicle)
<1> DEFINE oldIds == ToSet(EventIds(s))
<1> DEFINE news == {NotBefore(Resolved(X, e.evidence), e.timestamp) :
                      e \in {n \in events : n.id \notin oldIds}}
<1> DEFINE acquired == {Or(\A a \in e.acquired : e.timestamp >= a, "FAIL") : e \in events}
<1> DEFINE back == LatestEvent(c) < LatestEvent(s)
<1>6. CheckTemporal(s, c, X) = IF back THEN "FAIL" ELSE Combine(dates \cup news \cup acquired)
  BY Zenon DEF CheckTemporal
<1>7. "FAIL" \in dates
  <2>1. v \in claims
    BY <1>2, <1>5
  <2> HIDE DEF claims
  <2> QED  BY <1>4, <2>1
<1> HIDE DEF dates, news, acquired, back
<1>8. Combine(dates \cup news \cup acquired) = "FAIL"
  BY <1>7, CombineBad
<1> QED  BY <1>6, <1>8

------------------------------------------------------------------------------
(* The cases of the generator proper, by their labels.                     *)
Gaps == {"D1", "D2", "D3", "D4", "head_missing", "authority_missing", "provenance_missing",
         "provenance_unavailable", "attestation_conflict", "attestation_missing"}
Faults == {"I1", "I2", "I3", "I4", "I5", "I6", "I7", "I8", "I9", "I10", "lineage_binding", "scope",
           "receipt_binding", "receipt_signature", "provenance", "state_application",
           "attestation_binding", "authority", "historical", "temporal", "belief", "relational",
           "normative"} \cup CompoundCases

(* There are no others.                                                    *)
LEMMA LabelsAre ==
  ASSUME NEW name \in Names, name \notin Extra
  PROVE  \/ name \in Lawful /\ Label(name) = "VALID"
         \/ name \in Gaps /\ Label(name) = "INDETERMINATE"
         \/ name \in Faults \cup {"head_contradiction"} /\ Label(name) = "INVALID"
<1>1. name \in Lawful \cup Gaps \cup Faults \cup {"head_contradiction"}
  BY DEF Names, Families, SingleCases, OnTheUpgrade, CompoundCases, Lawful, Gaps, Faults
<1>2. name \in Lawful => Label(name) = "VALID"
  BY DEF Lawful, Label
<1>3. name \in Gaps => Label(name) = "INDETERMINATE"
  BY DEF Gaps, Label
<1>4. name \in Faults \cup {"head_contradiction"} => Label(name) = "INVALID"
  BY DEF Faults, CompoundCases, Label
<1> QED  BY <1>1, <1>2, <1>3, <1>4

(* What the verifier goes by, judging an offer on its own base.            *)
Conds(X, o) == Conditions(o.base, {WitnessOf(o)}, CandidateOf(o), PolicyOf(o), X)

Attesting == {"D4", "attestation_conflict", "attestation_missing", "attestation_binding",
              "attestation_pass", "attestation_stale"}
BeliefStatus(X, o) ==
  IF o.name \in Attesting THEN CheckAttestation("I_bel", {WitnessOf(o)}, PolicyOf(o), X)
  ELSE CheckBeliefCoherence(o.base, CandidateOf(o), {ProposalOf(o)}, X)
LineageOf(X, o) ==
  Range(LineageConditions(o.base, CandidateOf(o), {WitnessOf(o)}, PolicyOf(o), X))

(* The conditions of a policy that asks for all and has at most the        *)
(* beliefs attested.                                                       *)
LEMMA ConditionsOfAll ==
  ASSUME NEW s, NEW w, NEW c, NEW policy, NEW X,
         {"I_lin", "I_auth", "I_prov", "state_application"} \cup Semantics
           \subseteq policy.requires,
         NEW attests \in BOOLEAN, policy.attested = IF attests THEN {"I_bel"} ELSE {}
  PROVE  Conditions(s, {w}, c, policy, X) =
           Range(LineageConditions(s, c, {w}, policy, X)) \cup
           { CheckAuthority({w.proposal}, s, policy, X), CheckProvenance({w.proposal}, X),
             StateApplication(s, {w.proposal}, c),
             CheckHistoricalChronicle(s, c, {w.proposal}, policy, X), CheckTemporal(s, c, X),
             IF attests THEN CheckAttestation("I_bel", {w}, policy, X)
             ELSE CheckBeliefCoherence(s, c, {w.proposal}, X),
             CheckRelational(s, c, policy, {w.proposal}, X), CheckNormative(s, c) }
<1> DEFINE auth == CheckAuthority({w.proposal}, s, policy, X)
<1> DEFINE prov == CheckProvenance({w.proposal}, X)
<1> DEFINE app == StateApplication(s, {w.proposal}, c)
<1> DEFINE lineage == Range(LineageConditions(s, c, {w}, policy, X))
<1>1. Conditions(s, {w}, c, policy, X) =
        lineage \cup {auth, prov, app}
        \cup {SemanticStatus(n, s, w, c, policy, X) : n \in Semantics}
  BY ConditionsShape
<1> DEFINE hist == CheckHistoricalChronicle(s, c, {w.proposal}, policy, X)
<1> DEFINE temp == CheckTemporal(s, c, X)
<1> DEFINE bel == IF attests THEN CheckAttestation("I_bel", {w}, policy, X)
                  ELSE CheckBeliefCoherence(s, c, {w.proposal}, X)
<1> DEFINE rel == CheckRelational(s, c, policy, {w.proposal}, X)
<1> DEFINE norm == CheckNormative(s, c)
<1>2. /\ SemanticStatus("I_hist", s, w, c, policy, X) = hist
      /\ SemanticStatus("I_temp", s, w, c, policy, X) = temp
      /\ SemanticStatus("I_rel", s, w, c, policy, X) = rel
      /\ SemanticStatus("I_norm", s, w, c, policy, X) = norm
  BY DEF SemanticStatus, NativeCheck
<1>3. SemanticStatus("I_bel", s, w, c, policy, X) = bel
  BY DEF SemanticStatus, NativeCheck
<1>4. {SemanticStatus(n, s, w, c, policy, X) : n \in Semantics} = {hist, temp, bel, rel, norm}
  <2> HIDE DEF hist, temp, bel, rel, norm
  <2> QED  BY <1>2, <1>3 DEF Semantics
<1> HIDE DEF hist, temp, bel, rel, norm, lineage, auth, prov, app
<1>5. Conditions(s, {w}, c, policy, X) =
        lineage \cup {auth, prov, app, hist, temp, bel, rel, norm}
  BY <1>1, <1>4
<1> QED  BY <1>5, Zenon DEF hist, temp, bel, rel, norm, lineage, auth, prov, app

(* Those of an offer judged on its own base, one by one.                   *)
LEMMA CondsAre ==
  ASSUME NEW X, NEW o
  PROVE  Conds(X, o) = LineageOf(X, o) \cup
           { CheckAuthority({ProposalOf(o)}, o.base, PolicyOf(o), X),
             CheckProvenance({ProposalOf(o)}, X),
             StateApplication(o.base, {ProposalOf(o)}, CandidateOf(o)),
             CheckHistoricalChronicle(o.base, CandidateOf(o), {ProposalOf(o)}, PolicyOf(o), X),
             CheckTemporal(o.base, CandidateOf(o), X),
             BeliefStatus(X, o),
             CheckRelational(o.base, CandidateOf(o), PolicyOf(o), {ProposalOf(o)}, X),
             CheckNormative(o.base, CandidateOf(o)) }
<1> DEFINE s == o.base
<1> DEFINE w == WitnessOf(o)
<1> DEFINE c == CandidateOf(o)
<1> DEFINE policy == PolicyOf(o)
<1> DEFINE attests == o.name \in Attesting
<1>1. w.proposal = ProposalOf(o)
  BY WitnessFields
<1>2. {"I_lin", "I_auth", "I_prov", "state_application"} \cup Semantics \subseteq policy.requires
  BY PolicyInForce
<1>3. policy.attested = IF attests THEN {"I_bel"} ELSE {}
  BY DEF PolicyOf, DefaultPolicy, Attesting
<1>4. attests \in BOOLEAN
  OBVIOUS
<1> HIDE DEF w, policy, c, s, attests
<1>5. Conditions(s, {w}, c, policy, X) =
        Range(LineageConditions(s, c, {w}, policy, X)) \cup
           { CheckAuthority({w.proposal}, s, policy, X), CheckProvenance({w.proposal}, X),
             StateApplication(s, {w.proposal}, c),
             CheckHistoricalChronicle(s, c, {w.proposal}, policy, X), CheckTemporal(s, c, X),
             IF attests THEN CheckAttestation("I_bel", {w}, policy, X)
             ELSE CheckBeliefCoherence(s, c, {w.proposal}, X),
             CheckRelational(s, c, policy, {w.proposal}, X), CheckNormative(s, c) }
  BY <1>2, <1>3, <1>4, ConditionsOfAll
<1> QED  BY <1>1, <1>5, Zenon DEF Conds, LineageOf, BeliefStatus, s, w, c, policy, attests

(* A case with a fault fails, whatever the head.                           *)
LEMMA FaultFails ==
  ASSUME NEW o, Offered(o), NEW X, Trusting(X, o),
         o.name \in Faults \/ (o.name = "head_contradiction" /\ Alone(X, o))
  PROVE  "FAIL" \in Conds(X, o)
<1> DEFINE s == o.base
<1> DEFINE c == CandidateOf(o)
<1> DEFINE q == ProposalOf(o)
<1>1. o.name \notin Tampered => c = o.applied
  BY CandidateIsApplied DEF Tampered
<1>2. ASSUME \/ "FAIL" \in LineageOf(X, o)
             \/ CheckAuthority({q}, s, PolicyOf(o), X) = "FAIL"
             \/ CheckProvenance({q}, X) = "FAIL"
             \/ StateApplication(s, {q}, c) = "FAIL"
             \/ CheckHistoricalChronicle(s, c, {q}, PolicyOf(o), X) = "FAIL"
             \/ CheckTemporal(s, c, X) = "FAIL" \/ BeliefStatus(X, o) = "FAIL"
             \/ CheckRelational(s, c, PolicyOf(o), {q}, X) = "FAIL"
             \/ CheckNormative(s, c) = "FAIL"
      PROVE  "FAIL" \in Conds(X, o)
  <2> HIDE DEF s, c, q
  <2>1. Conds(X, o) = LineageOf(X, o) \cup
           { CheckAuthority({q}, s, PolicyOf(o), X), CheckProvenance({q}, X),
             StateApplication(s, {q}, c), CheckHistoricalChronicle(s, c, {q}, PolicyOf(o), X),
             CheckTemporal(s, c, X), BeliefStatus(X, o),
             CheckRelational(s, c, PolicyOf(o), {q}, X), CheckNormative(s, c) }
    BY CondsAre DEF s, c, q
  <2> QED  BY <1>2, <2>1
<1>3. CASE o.name \in LineageFaults \cup {"head_contradiction"}
  <2>1. o.name \in LineageFaults => "FAIL" \in LineageOf(X, o)
    BY LineageComesTo DEF LineageOf
  <2>2. o.name = "head_contradiction" => "FAIL" \in LineageOf(X, o)
    <3>1. CheckCanonicalHead(q, c, PolicyOf(o), X) \in LineageOf(X, o)
      BY LineageComesTo DEF LineageOf
    <3>2. ASSUME o.name = "head_contradiction"
          PROVE  CheckCanonicalHead(q, c, PolicyOf(o), X) = "FAIL"
      BY <3>2, HeadIs DEF Headless, Faults, CompoundCases
    <3> HIDE DEF q, c
    <3> QED  BY <3>1, <3>2
  <2> QED  BY <1>2, <1>3, <2>1, <2>2
<1>4. CASE o.name \in Outsiders
  BY <1>2, <1>4, OutsiderFails
<1>5. CASE o.name \in Corrupted
  BY <1>2, <1>5, CorruptedFails
<1>6. CASE o.name \in Tampered
  <2>1. Apply(o.base, o.manifest) = {o.applied}
    <3>1. CASE o.name \in {"I6", "unlogged_history"}
      BY <3>1, SuccessionIsSame DEF Same, Successions
    <3>2. CASE o.name = "state_application"
      <4>1. o.name \in OnTheUpgrade
        BY <3>2 DEF OnTheUpgrade
      <4>2. PICK m : /\ o.manifest = <<m>>
                     /\ m.op \in {"UPDATE_RUNTIME_CONFIG", "REBIND_SUBSTRATE", "FORWARD_RESTORE"}
        BY <4>1, ConfigManifest DEF Offered
      <4> QED  BY <4>2, ConfigOutcome DEF Changed
    <3> QED  BY <1>6, <3>1, <3>2 DEF Tampered
  <2> QED  BY <1>2, <1>6, <2>1, ApplicationIs
<1>7. CASE o.name \in {"I1", "historical", "I5"}
  BY <1>1, <1>7, FabricationFails, RewriteFails, RemovalFails, <1>2 DEF Tampered
<1>8. CASE o.name = "temporal"
  BY <1>1, <1>2, <1>8, BackdatingFails DEF Tampered
<1>9. CASE o.name \in {"I2", "belief", "provenance_and_belief"}
  <2>1. c = o.applied /\ o.name \notin Attesting
    BY <1>1, <1>9 DEF Tampered, Attesting
  <2>2. BeliefStatus(X, o) = CheckBeliefCoherence(s, c, {q}, X)
    BY <2>1 DEF BeliefStatus
  <2>3. CheckBeliefCoherence(s, o.applied, {q}, X) = "FAIL"
    BY <1>9, ForgettingFails
  <2> QED  BY <1>2, <2>1, <2>2, <2>3
<1>10. CASE o.name \in {"I3", "normative", "authority_and_normative", "unknown_and_invalid"}
  BY <1>1, <1>10, <1>2, StrikingFails DEF Tampered
<1>11. CASE o.name \in {"I4", "relational"}
  BY <1>1, <1>11, <1>2, StrangerFails DEF Tampered
<1>12. CASE o.name = "attestation_binding"
  BY <1>12, AttestationIs, <1>2 DEF BeliefStatus, Attesting, Divided
<1>13. o.name \in LineageFaults \cup {"head_contradiction"} \cup Outsiders \cup Corrupted
         \cup Tampered \cup {"I1", "historical", "I5"} \cup {"temporal"}
         \cup {"I2", "belief", "provenance_and_belief"}
         \cup {"I3", "normative", "authority_and_normative", "unknown_and_invalid"}
         \cup {"I4", "relational"} \cup {"attestation_binding"}
  BY DEF Faults, CompoundCases, LineageFaults, Forged, Outsiders, Corrupted, Tampered
<1> QED
  BY <1>3, <1>4, <1>5, <1>6, <1>7, <1>8, <1>9, <1>10, <1>11, <1>12, <1>13

(* What the engine leaves as it was.                                       *)
Leaves(o) ==
  /\ Apply(o.base, o.manifest) = {o.applied}
  /\ o.name \in {"L2", "L7"} \/ o.applied.chronicle = o.base.chronicle
  /\ o.name = "L1" \/ o.applied.knowledge = o.base.knowledge
  /\ o.name = "L3" \/ o.applied.beliefs = o.base.beliefs
  /\ o.name = "L4" \/ o.applied.relationships = o.base.relationships
  /\ o.applied.rules = o.base.rules
  /\ o.applied.timestamp \in {o.base.timestamp, o.base.timestamp + 1}

(* It is so when the engine changed no more than the case is for.          *)
LEMMA ChangedLeaves ==
  ASSUME NEW o, NEW changed, Changed(o, changed), "rules" \notin changed,
         "chronicle" \in changed => o.name \in {"L2", "L7"},
         "knowledge" \in changed => o.name = "L1",
         "beliefs" \in changed => o.name = "L3", "relationships" \in changed => o.name = "L4"
  PROVE  Leaves(o)
  BY DEF Changed, Turns, Leaves

(* Of the lawful cases and those with a gap, all leave the rules as they   *)
(* were, and one each the chronicle, the knowledge, beliefs, relationships.*)
LEMMA LawfulLeaves ==
  ASSUME NEW o, Offered(o), o.name \in Lawful \cup Gaps
  PROVE  Leaves(o)
<1>1. CASE o.name \in {"D1", "D2", "D3", "D4"}
  BY <1>1, SuccessionIsSame DEF Same, Successions, Leaves
<1>2. CASE o.name \in {"L8", "L9", "L10"} \cup OnTheUpgrade
  <2>1. PICK m : /\ o.manifest = <<m>>
                 /\ m.op \in {"UPDATE_RUNTIME_CONFIG", "REBIND_SUBSTRATE", "FORWARD_RESTORE"}
    BY <1>2, ConfigManifest DEF Offered
  <2>2. Changed(o, {})
    BY <2>1, ConfigOutcome
  <2> QED  BY <2>2, ChangedLeaves
<1>3. CASE o.name = "L1"
  BY <1>3, ManifestIs, LearnOutcome, ChangedLeaves DEF Offered
<1>4. CASE o.name = "L2"
  BY <1>4, ManifestIs, ReportOutcome, ChangedLeaves DEF Offered
<1>5. CASE o.name = "L3"
  BY <1>5, ManifestIs, ReviseOutcome, ChangedLeaves DEF Offered
<1>6. CASE o.name = "L4"
  BY <1>6, ManifestIs, RelateOutcome, ChangedLeaves DEF Offered
<1>7. CASE o.name = "L5"
  BY <1>7, ManifestIs, SummaryOutcome, ChangedLeaves DEF Offered
<1>8. CASE o.name = "L6"
  <2>1. PICK session :
          o.manifest = <<Mutation("PRUNE_EXPIRED_CONTEXT", [session |-> session], {}, 0)>>
    BY <1>8, ManifestIs DEF Offered
  <2>2. Changed(o, {"memory"})
    BY <2>1, PruneOutcome
  <2> QED  BY <2>2, ChangedLeaves
<1>9. CASE o.name = "L7"
  <2> DEFINE m == Annotate(o)
  <2>1. o.manifest = <<m>> /\ m.op = "ANNOTATE_CORRECTION"
    BY <1>9, ManifestIs DEF Offered, Annotate, Mutation
  <2> HIDE DEF m
  <2>2. Changed(o, {"chronicle"})
    BY <2>1, EventOutcome
  <2> QED  BY <1>9, <2>2, ChangedLeaves
<1>10. o.name \in {"D1", "D2", "D3", "D4"} \cup {"L8", "L9", "L10"} \cup OnTheUpgrade
         \cup {"L1", "L2", "L3", "L4", "L5", "L6", "L7"}
  BY DEF Lawful, Gaps, OnTheUpgrade
<1> QED
  BY <1>1, <1>2, <1>3, <1>4, <1>5, <1>6, <1>7, <1>8, <1>9, <1>10

(* So the history, the times, the relationships and the rules pass;        *)
LEMMA SemanticsPass ==
  ASSUME NEW o, Offered(o), o.name \in Lawful \cup Gaps, NEW X, Trusting(X, o),
         ClaimsPast(X, o.base)
  PROVE  LET c == o.applied
             q == {ProposalOf(o)}
         IN  /\ CheckHistoricalChronicle(o.base, c, q, PolicyOf(o), X) = "PASS"
             /\ CheckTemporal(o.base, c, X) = "PASS"
             /\ CheckBeliefCoherence(o.base, c, q, X) = "PASS"
             /\ CheckRelational(o.base, c, PolicyOf(o), q, X) = "PASS"
             /\ CheckNormative(o.base, c) = "PASS"
<1> DEFINE c == o.applied
<1> DEFINE q == {ProposalOf(o)}
<1>1. Leaves(o) /\ Regular(o.base)
  BY LawfulLeaves DEF Offered
<1>2. ClaimsPast(X, c)
  <2>1. CASE o.name = "L1"
    BY <2>1, ClaimsLearned
  <2>2. CASE o.name # "L1"
    BY <1>1, <2>2 DEF Leaves, ClaimsPast
  <2> QED  BY <2>1, <2>2
<1>3. /\ CheckHistoricalChronicle(o.base, c, q, PolicyOf(o), X) = "PASS"
      /\ CheckTemporal(o.base, c, X) = "PASS"
  <2>1. CASE o.name = "L2"
    BY <2>1, ReportPasses
  <2>2. CASE o.name = "L7"
    BY <2>2, AnnotationPasses
  <2>3. CASE o.name \notin {"L2", "L7"}
    <3>1. c.chronicle = o.base.chronicle
      BY <1>1, <2>3 DEF Leaves
    <3> HIDE DEF c, q
    <3> QED  BY <1>1, <1>2, <3>1, HistoryAsItWas, TimeAsItWas
  <2> QED  BY <2>1, <2>2, <2>3
<1>4. CheckBeliefCoherence(o.base, c, q, X) = "PASS"
  <2>1. CASE o.name = "L3"
    BY <2>1, RevisionPasses
  <2>2. CASE o.name # "L3"
    BY <1>1, <2>2, BeliefsAsTheyWere DEF Leaves
  <2> QED  BY <2>1, <2>2
<1>5. CheckRelational(o.base, c, PolicyOf(o), q, X) = "PASS"
  <2>1. CASE o.name = "L4"
    BY <2>1, RelationPasses
  <2>2. CASE o.name # "L4"
    BY <1>1, <2>2, RelationsAsTheyWere DEF Leaves
  <2> QED  BY <2>1, <2>2
<1>6. CheckNormative(o.base, c) = "PASS"
  BY <1>1, RulesAsTheyWere DEF Leaves
<1> QED  BY <1>3, <1>4, <1>5, <1>6

(* what is unknown, is unknown for one gap.                                *)
LEMMA GapsAre ==
  ASSUME NEW o, Offered(o), o.name \in Lawful \cup Gaps, NEW X, Alone(X, o),
         ClaimsPast(X, o.base)
  PROVE  /\ "FAIL" \notin Conds(X, o)
         /\ o.name \in Lawful => Conds(X, o) \subseteq {"PASS"}
         /\ o.name \in Gaps => "UNKNOWN" \in Conds(X, o)
<1> DEFINE s == o.base
<1> DEFINE c == CandidateOf(o)
<1> DEFINE q == ProposalOf(o)
<1>0. Trusting(X, o)
  BY DEF Alone
<1>1. c = o.applied /\ o.name \notin Tampered
  BY CandidateIsApplied DEF Lawful, Gaps, Tampered
<1>2. Leaves(o)
  BY LawfulLeaves
<1>3. LineageOf(X, o) = IF o.name \in Headless THEN {"PASS", "UNKNOWN"} ELSE {"PASS"}
  <2>1. o.name \notin LineageFaults /\ o.name # "head_contradiction"
    BY DEF Lawful, Gaps, LineageFaults, Forged
  <2>2. LineageOf(X, o) = {"PASS", CheckCanonicalHead(q, c, PolicyOf(o), X)}
    BY <1>0, <2>1, LineageComesTo DEF LineageOf
  <2>3. CheckCanonicalHead(q, c, PolicyOf(o), X) =
          IF o.name \in Headless THEN "UNKNOWN" ELSE "PASS"
    BY <2>1, HeadIs
  <2> HIDE DEF q, c
  <2> QED  BY <2>2, <2>3
<1>4. CheckAuthority({q}, s, PolicyOf(o), X) =
        IF o.name = "authority_missing" THEN "UNKNOWN" ELSE "PASS"
  <2>1. o.name \notin Extra \cup Outsiders
    BY DEF Lawful, Gaps, Extra, Outsiders
  <2>2. CASE o.name = "authority_missing"
    BY <2>2, NobodySigns
  <2>3. CASE o.name # "authority_missing"
    BY <1>0, <2>1, <2>3, GovernorsDecide
  <2> QED  BY <2>2, <2>3
<1>5. CheckProvenance({q}, X) =
        IF o.name \in Unprovided \cup Unstored THEN "UNKNOWN" ELSE "PASS"
  BY CitedWell, <1>0, ProvenanceIs DEF Lawful, Gaps, OnTheUpgrade, Successions, Corrupted, Offered
<1>6. StateApplication(s, {q}, c) = "PASS"
  BY <1>1, <1>2, ApplicationIs DEF Leaves
<1>7. /\ CheckHistoricalChronicle(s, c, {q}, PolicyOf(o), X) = "PASS"
      /\ CheckTemporal(s, c, X) = "PASS" /\ CheckBeliefCoherence(s, c, {q}, X) = "PASS"
      /\ CheckRelational(s, c, PolicyOf(o), {q}, X) = "PASS" /\ CheckNormative(s, c) = "PASS"
  BY <1>0, <1>1, SemanticsPass
<1>8. BeliefStatus(X, o) = IF o.name \in Undecided THEN "UNKNOWN" ELSE "PASS"
  <2>1. CASE o.name \in Undecided
    BY <2>1, <1>0, <1>1, <1>2, AttestationIs DEF Undecided, Divided, Attesting, Leaves, BeliefStatus
  <2>2. CASE o.name \notin Undecided
    BY <2>2, <1>7 DEF Undecided, Divided, Attesting, Lawful, Gaps, BeliefStatus
  <2> QED  BY <2>1, <2>2
<1> HIDE DEF s, c, q
<1>9. Conds(X, o) = LineageOf(X, o) \cup
        { CheckAuthority({q}, s, PolicyOf(o), X), CheckProvenance({q}, X),
          StateApplication(s, {q}, c), CheckHistoricalChronicle(s, c, {q}, PolicyOf(o), X),
          CheckTemporal(s, c, X), BeliefStatus(X, o),
          CheckRelational(s, c, PolicyOf(o), {q}, X), CheckNormative(s, c) }
  BY CondsAre DEF s, c, q
<1>10. Conds(X, o) = LineageOf(X, o) \cup
        { CheckAuthority({q}, s, PolicyOf(o), X), CheckProvenance({q}, X), "PASS",
          BeliefStatus(X, o) }
  BY <1>6, <1>7, <1>9
<1>11. Conds(X, o) \subseteq {"PASS", "UNKNOWN"}
  BY <1>3, <1>4, <1>5, <1>8, <1>10
<1>12. ASSUME o.name \in Lawful PROVE Conds(X, o) \subseteq {"PASS"}
  BY <1>12, <1>3, <1>4, <1>5, <1>8, <1>10 DEF Lawful, Headless, Unprovided, Unstored, Undecided,
     Divided
<1>13. ASSUME o.name \in Gaps PROVE "UNKNOWN" \in Conds(X, o)
  BY <1>13, <1>3, <1>4, <1>5, <1>8, <1>10 DEF Gaps, Headless, Unprovided, Unstored, Undecided,
     Divided
<1> QED  BY <1>11, <1>12, <1>13

(* So an offer judged alone, on its base, gets the verdict of its label.   *)
LEMMA LabelOfAlone ==
  ASSUME NEW o, Offered(o), o.name \notin Extra, NEW X, Alone(X, o), ClaimsPast(X, o.base)
  PROVE  Verdict(o.base, {WitnessOf(o)}, CandidateOf(o), PolicyOf(o), X) = Label(o.name)
<1>1. Trusting(X, o) /\ o.name \in Names
  BY DEF Alone, Offered, Made
<1>2. Verdict(o.base, {WitnessOf(o)}, CandidateOf(o), PolicyOf(o), X) =
        IF "FAIL" \in Conds(X, o) THEN "INVALID"
        ELSE IF "UNKNOWN" \in Conds(X, o) THEN "INDETERMINATE" ELSE "VALID"
  BY DEF Verdict, Conds
<1>3. CASE o.name \in Lawful /\ Label(o.name) = "VALID"
  BY <1>3, GapsAre, <1>2
<1>4. CASE o.name \in Gaps /\ Label(o.name) = "INDETERMINATE"
  BY <1>4, GapsAre, <1>2
<1>5. CASE o.name \in Faults \cup {"head_contradiction"} /\ Label(o.name) = "INVALID"
  BY <1>1, <1>5, FaultFails, <1>2
<1> QED  BY <1>1, <1>3, <1>4, <1>5, LabelsAre

------------------------------------------------------------------------------
(* An offer has a manifest the engine took; a log keeps to the generator.  *)
Taken(o) == o.manifest # <<>> /\ o.applied \in Apply(o.base, o.manifest)
UsualLog(q) == \A i \in DOMAIN q : q[i].name \notin Extra

(* What a life without faults and of the generator's cases comes to.       *)
Orderly ==
  /\ Regular(state)
  /\ \A i \in DOMAIN log : /\ log[i].base.epoch \in Nat /\ log[i].base.epoch < state.epoch
                           /\ log[i].base.timestamp = log[i].base.epoch + 4

(* The inductive invariant of the labels.                                  *)
LabelInv ==
  /\ HistInv /\ faults \in Nat
  /\ faults = 0 => revoked = {} /\ unclear = {} /\ lost = {}
  /\ \A i \in DOMAIN pending : Taken(pending[i])
  /\ faults = 0 /\ UsualLog(log) => Orderly

(* A key that nobody touched is plain.                                     *)
LEMMA CredentialsPlain ==
  ASSUME revoked = {}, unclear = {}, NEW p \in Principals
  PROVE  Lookup(CredentialsNow, p) = {PlainCredential(p)}
<1> DEFINE known == p \notin unclear
<1> DEFINE bad == {r[2] : r \in {x \in revoked : x[1] = p}}
<1> DEFINE plain == PlainCredential(p)
<1>1. CredentialsNow[p] = [plain EXCEPT !.statusKnown = known, !.revoked = bad]
      /\ p \in DOMAIN CredentialsNow
  BY DEF CredentialsNow
<1>2. known = TRUE /\ bad = {}
  OBVIOUS
<1>3. plain = [i \in DOMAIN plain |-> plain[i]] /\ plain.statusKnown = TRUE /\ plain.revoked = {}
  BY DEF PlainCredential
<1> HIDE DEF plain, known, bad
<1>4. [plain EXCEPT !.statusKnown = TRUE] = plain /\ [plain EXCEPT !.revoked = {}] = plain
  BY <1>3
<1>5. [plain EXCEPT !.statusKnown = TRUE, !.revoked = {}]
        = [[plain EXCEPT !.statusKnown = TRUE] EXCEPT !.revoked = {}]
  OBVIOUS
<1>6. CredentialsNow[p] = plain
  BY <1>1, <1>2, <1>4, <1>5
<1> QED  BY <1>1, <1>6 DEF Lookup, plain

(* Where nothing is lost the store returns what an offer of the name left. *)
LEMMA StoreReturns ==
  ASSUME LifeInv, lost = {}, NEW o \in Offers, Stored(o) # {}
  PROVE  \E p \in Offers : /\ Uri(p) = Uri(o) /\ Stored(p) # {}
                           /\ Lookup(StoreNow, Uri(o)) = {The(Stored(p))}
<1>1. Uri(o) \in DOMAIN StoreNow
  BY StoreHolds
<1>2. PICK p \in Offers : Uri(p) = Uri(o) /\ Stored(p) # {} /\ StoreNow[Uri(o)] = The(Stored(p))
  BY <1>1, StoreTells
<1>3. Lookup(StoreNow, Uri(o)) = {The(Stored(p))}
  BY <1>1, <1>2 DEF Lookup
<1> QED  BY <1>2, <1>3

(* The names of evidence tell the epochs apart.                            *)
LEMMA SameEpoch == ASSUME NEW o, NEW p, Uri(o) = Uri(p) PROVE o.base.epoch = p.base.epoch
<1>1. Uri(o)[1] = o.base.epoch /\ Uri(p)[1] = p.base.epoch
  BY DEF Uri
<1> QED  BY <1>1

(* Evidence stored is one piece.                                           *)
LEMMA StoredOnce == ASSUME NEW o, Stored(o) # {} PROVE Stored(o) = {The(Stored(o))}
<1>1. PICK x : Stored(o) = {x}
  BY DEF Stored
<1> QED  BY <1>1, TheOnly

(* A trusting verifier lets none of the generator's cases in but the       *)
(* lawful ones, rivals or not.                                             *)
LEMMA OnlyLawful ==
  ASSUME NEW o, Offered(o), Sound(o), o.name \notin Extra, NEW X, Trusting(X, o),
         Verdict(o.base, {WitnessOf(o)}, CandidateOf(o), PolicyOf(o), X) = "VALID"
  PROVE  o.name \in Lawful
<1>1. \A x \in Conds(X, o) : Passed(x)
  BY ValidMeansPassed DEF Conds
<1>2. o.name \in Names
  BY DEF Offered, Made
<1>3. o.name \notin Faults
  <2> SUFFICES ASSUME o.name \in Faults PROVE FALSE
    OBVIOUS
  <2>1. "FAIL" \in Conds(X, o)
    BY FaultFails
  <2> QED  BY <1>1, <2>1 DEF Passed
<1>4. o.name # "head_contradiction" /\ o.name \notin Headless /\ o.name \notin Unstored
  BY DEF Sound, HeadOf, Headless, Stored, Unstored
<1> DEFINE auth == CheckAuthority({ProposalOf(o)}, o.base, PolicyOf(o), X)
<1> DEFINE prov == CheckProvenance({ProposalOf(o)}, X)
<1>5. Passed(auth) /\ Passed(prov) /\ Passed(BeliefStatus(X, o))
  <2>1. {auth, prov, BeliefStatus(X, o)} \subseteq Conds(X, o)
    BY CondsAre
  <2> HIDE DEF auth, prov
  <2> QED  BY <1>1, <2>1
<1>6. o.name # "authority_missing"
  BY <1>5, NobodySigns DEF Passed
<1>7. o.name \notin Unprovided
  BY <1>5, UnprovidedIsOpen DEF Passed
<1>8. ASSUME o.name \in Gaps, o.name \in Undecided PROVE FALSE
  <2>1. o.name \in Attesting /\ o.name \notin Tampered
    BY <1>8 DEF Undecided, Divided, Attesting, Tampered
  <2>2. CandidateOf(o).timestamp \in {o.base.timestamp, o.base.timestamp + 1}
    BY <1>8, <2>1, CandidateIsApplied, LawfulLeaves DEF Leaves, Tampered
  <2>3. CheckAttestation("I_bel", {WitnessOf(o)}, PolicyOf(o), X) = "UNKNOWN"
    BY <1>8, <2>2, AttestationIs
  <2> QED  BY <1>5, <2>1, <2>3 DEF BeliefStatus, Passed
<1>9. o.name \notin Gaps
  BY <1>4, <1>6, <1>7, <1>8 DEF Gaps, Headless, Unprovided, Unstored, Undecided, Divided
<1> QED  BY <1>2, <1>3, <1>4, <1>9, LabelsAre

(* A commit of an orderly life is lawful.                                  *)
LEMMA CommitIsLawful ==
  ASSUME LabelInv, faults = 0, UsualLog(log), NEW o, Made(o), Taken(o), o.name \notin Extra,
         VerdictFrom(state, o) = "VALID"
  PROVE  o.name \in Lawful /\ Offered(o) /\ o.base = state
<1> DEFINE X == ContextAt(state)
<1>1. o.base = state
  BY CommittedOnItsBase
<1>2. Offered(o)
  BY <1>1 DEF LabelInv, Orderly, Offered, Taken
<1>3. Sound(o)
  BY CommitIsSound DEF LabelInv
<1>4. AtHand(X, o)
  BY CommitPassed, EvidenceAtHand
<1>5. /\ X.known = TRUE /\ X.identity = Identity /\ X.epoch = o.base.epoch
      /\ X.kernels = {"kernel"} /\ X.time = {o.base.timestamp + 2}
      /\ X.credentials = CredentialsNow
  BY <1>1, ContextFields
<1>6. Verdict(o.base, {WitnessOf(o)}, CandidateOf(o), PolicyOf(o), X) = "VALID"
  BY <1>1 DEF VerdictFrom
<1>7. revoked = {} /\ unclear = {}
  BY DEF LabelInv
<1> HIDE DEF X
<1>8. \A p \in Principals : Lookup(X.credentials, p) = {PlainCredential(p)}
  BY <1>5, <1>7, CredentialsPlain
<1>9. Lookup(X.store, Uri(o)) = Stored(o)
  BY <1>3, <1>4 DEF AtHand, Sound
<1>10. Trusting(X, o)
  BY <1>5, <1>8, <1>9 DEF Trusting
<1> QED  BY <1>1, <1>2, <1>3, <1>6, <1>10, OnlyLawful

(* The invariant holds at first,                                           *)
LEMMA LabelInit == ASSUME Init PROVE LabelInv
<1>1. /\ state = Genesis /\ DOMAIN log = {} /\ DOMAIN pending = {} /\ revoked = {} /\ unclear = {}
      /\ lost = {} /\ faults = 0
  BY DEF Init
<1> QED  BY <1>1, HistInit, GenesisRegular DEF LabelInv, Orderly

(* what is pending was taken by the engine,                                *)
LEMMA PendingTaken ==
  ASSUME LabelInv, [Next]_vars
  PROVE  \A i \in DOMAIN pending' : Taken(pending'[i])
<1>1. PICK S : pending \in Seq(S)
  BY DEF LabelInv, HistInv, LifeInv
<1>2. \A i \in DOMAIN pending : Taken(pending[i])
  BY DEF LabelInv
<1>3. ASSUME NEW name \in Names, Propose(name)
      PROVE  \A i \in DOMAIN pending' : Taken(pending'[i])
  <2>1. PICK o \in OfferOf(name, state) : pending' = Append(pending, o)
    BY <1>3 DEF Propose
  <2>2. Taken(o)
    BY <2>1 DEF OfferOf, Taken
  <2>3. \A i \in DOMAIN pending' : \/ i \in DOMAIN pending /\ pending'[i] = pending[i]
                                   \/ pending'[i] = o
    BY <1>1, <2>1
  <2> QED  BY <1>2, <2>2, <2>3
<1>4. ASSUME NEW i \in DOMAIN pending, Judge(i)
      PROVE  \A j \in DOMAIN pending' : Taken(pending'[j])
  BY <1>4, <1>1, RemovalKeeps, <1>2 DEF Judge
<1>5. CASE UNCHANGED pending
  BY <1>2, <1>5
<1> QED
  BY <1>3, <1>4, <1>5 DEF Next, Archive, Revoke, LoseKeyHistory, LoseEvidence, vars

(* keys and evidence are touched by faults only,                           *)
LEMMA FaultsCounted ==
  ASSUME LabelInv, [Next]_vars
  PROVE  /\ faults' \in Nat /\ (faults' = 0 => faults = 0)
         /\ faults' = 0 => revoked' = {} /\ unclear' = {} /\ lost' = {}
<1>1. CASE Fault
  BY <1>1 DEF Fault, LabelInv
<1>2. CASE UNCHANGED <<revoked, unclear, lost, faults>>
  BY <1>2 DEF LabelInv
<1> QED
  BY <1>1, <1>2 DEF Next, Propose, Judge, Archive, Revoke, LoseKeyHistory, LoseEvidence, vars

(* and a life stays orderly.                                               *)
LEMMA OrderStays ==
  ASSUME LabelInv, [Next]_vars, faults = 0, UsualLog(log')
  PROVE  Orderly'
<1>1. PICK S : log \in Seq(S)
  BY DEF LabelInv, HistInv, LifeInv, LogIsSequence
<1>2. ASSUME NEW i \in DOMAIN pending, Judge(i), VerdictFrom(state, pending[i]) = "VALID"
      PROVE  Orderly'
  <2> DEFINE o == pending[i]
  <2>1. /\ state' = CandidateOf(o) /\ log' = Append(log, o)
        /\ VerdictFrom(state, o) = "VALID" /\ Made(o) /\ Taken(o)
    BY <1>2 DEF Judge, LabelInv, HistInv, LifeInv
  <2> HIDE DEF o
  <2>2. /\ \A j \in DOMAIN log : j \in DOMAIN log' /\ log'[j] = log[j]
        /\ \E j \in DOMAIN log' : log'[j] = o
        /\ \A j \in DOMAIN log' : (j \in DOMAIN log /\ log'[j] = log[j]) \/ log'[j] = o
    <3>1. Len(log) + 1 \in DOMAIN log' /\ log'[Len(log) + 1] = o
      BY <1>1, <2>1
    <3>2. \A j \in DOMAIN log : j \in DOMAIN log' /\ log'[j] = log[j]
      BY <1>1, <2>1
    <3>3. \A j \in DOMAIN log' : (j \in DOMAIN log /\ log'[j] = log[j]) \/ log'[j] = o
      BY <1>1, <2>1
    <3> QED  BY <3>1, <3>2, <3>3
  <2>3. UsualLog(log) /\ o.name \notin Extra
    BY <2>2 DEF UsualLog
  <2>4. o.name \in Lawful /\ Offered(o) /\ o.base = state
    BY <2>1, <2>3, CommitIsLawful
  <2>5. CandidateOf(o) = o.applied
    BY <2>4, CandidateIsApplied DEF Lawful
  <2>6. Regular(state') /\ state'.epoch = state.epoch + 1
    BY <2>1, <2>4, <2>5, LawfulRegular
  <2>7. /\ Orderly /\ state.epoch \in Nat /\ state.timestamp = state.epoch + 4
    BY <2>3 DEF LabelInv, Orderly, Regular
  <2>8. ASSUME NEW j \in DOMAIN log'
        PROVE  /\ log'[j].base.epoch \in Nat /\ log'[j].base.epoch < state'.epoch
               /\ log'[j].base.timestamp = log'[j].base.epoch + 4
    <3>1. CASE j \in DOMAIN log /\ log'[j] = log[j]
      BY <2>7, <3>1, <2>6 DEF Orderly
    <3>2. CASE log'[j] = o
      BY <2>4, <2>6, <2>7, <3>2
    <3> QED  BY <2>2, <3>1, <3>2
  <2> QED  BY <2>6, <2>8 DEF Orderly
<1>3. CASE UNCHANGED <<state, log>>
  BY <1>3 DEF LabelInv, Orderly, UsualLog
<1> QED
  BY <1>2, <1>3 DEF Next, Propose, Judge, Archive, Revoke, LoseKeyHistory, LoseEvidence, vars

(* So the invariant is inductive.                                          *)
LEMMA LabelStep ==
  ASSUME LabelInv, [Next]_vars
  PROVE  LabelInv'
<1>1. HistInv'
  BY HistStep DEF LabelInv
<1>2. \A i \in DOMAIN pending' : Taken(pending'[i])
  BY PendingTaken
<1>3. /\ faults' \in Nat /\ (faults' = 0 => faults = 0)
      /\ faults' = 0 => revoked' = {} /\ unclear' = {} /\ lost' = {}
  BY FaultsCounted
<1>4. faults' = 0 /\ UsualLog(log') => Orderly'
  BY <1>3, OrderStays
<1> QED  BY <1>1, <1>2, <1>3, <1>4 DEF LabelInv

------------------------------------------------------------------------------
(* What LabelsAgree asks of a moment: one offer of the generator's cases,  *)
(* made for the committed state, after none but such cases, and no fault.  *)
AloneNow ==
  /\ LabelInv /\ faults = 0 /\ UsualLog(log) /\ Len(pending) = 1
  /\ pending[1].base = state /\ pending[1].name \notin Extra

(* What a name of evidence leads to is what was offered at that epoch: the *)
(* offer at hand for this one, a committed offer for an earlier one.       *)
LEMMA OffersOfEpoch ==
  ASSUME AloneNow, NEW p \in Offers
  PROVE  /\ p.base.epoch = state.epoch => p = pending[1]
         /\ p.base.epoch # state.epoch => p.base.timestamp = p.base.epoch + 4
<1>1. PICK T : pending \in Seq(T)
  BY DEF AloneNow, LabelInv, HistInv, LifeInv
<1>2. pending = <<pending[1]>> /\ ToSet(pending) = {pending[1]}
  BY <1>1 DEF AloneNow, ToSet
<1>3. Offers = ToSet(log) \cup {pending[1]}
  BY <1>2, OffersAre DEF AloneNow, LabelInv, HistInv
<1>4. CASE p \in ToSet(log)
  <2>1. PICK i \in DOMAIN log : p = log[i]
    BY <1>4 DEF ToSet
  <2>2. state.epoch \in Nat /\ log[i].base.epoch \in Nat /\ log[i].base.epoch < state.epoch
        /\ log[i].base.timestamp = log[i].base.epoch + 4
    BY DEF AloneNow, LabelInv, Orderly, Regular
  <2>3. log[i].base.epoch # state.epoch
    BY <2>2
  <2> QED  BY <2>1, <2>2, <2>3
<1>5. CASE p = pending[1]
  BY <1>5 DEF AloneNow
<1> QED  BY <1>3, <1>4, <1>5

(* Two sequences joined are as long as both.                               *)
LEMMA JoinedLength ==
  ASSUME NEW S, NEW a \in Seq(S), NEW b \in Seq(S)
  PROVE  DOMAIN (a \o b) = 1..(Len(a) + Len(b)) /\ Len(a) \in Nat
<1>1. DOMAIN (a \o b) = 1..(Len(a) + Len(b))
  OBVIOUS
<1>2. Len(a) \in Nat
  OBVIOUS
<1> QED  BY <1>1, <1>2

(* What is joined with one more has that one last.                         *)
LEMMA JoinedLast ==
  ASSUME NEW S, NEW a \in Seq(S), NEW b \in Seq(S), Len(b) = 1
  PROVE  a \o b # <<>> /\ Last(a \o b) = b[1]
<1>1. Len(a) \in Nat /\ Len(a \o b) = Len(a) + 1
  <2>1. DOMAIN (a \o b) = 1..(Len(a) + 1) /\ Len(a) \in Nat
    BY JoinedLength
  <2>2. a \o b \in Seq(S)
    OBVIOUS
  <2>3. Len(a \o b) \in Nat /\ DOMAIN (a \o b) = 1..Len(a \o b)
    BY <2>2
  <2> DEFINE m == Len(a \o b)
  <2> DEFINE n == Len(a) + 1
  <2>4. m \in Nat /\ n \in Nat /\ 1..m = 1..n /\ n >= 1
    BY <2>1, <2>3
  <2> HIDE DEF m, n
  <2>5. n \in 1..m /\ (m >= 1 => m \in 1..n)
    BY <2>4
  <2>6. m = n
    BY <2>4, <2>5
  <2> QED  BY <2>1, <2>6 DEF m, n
<1>2. (a \o b)[Len(a) + 1] = b[Len(a) + 1 - Len(a)]
  BY <1>1, JoinedAt
<1>3. Len(a) + 1 - Len(a) = 1
  BY <1>1
<1>4. a \o b # <<>>
  BY <1>1
<1> QED  BY <1>1, <1>2, <1>3, <1>4 DEF Last

(* The offer at hand is among the offers, and is one.                      *)
LEMMA AtHandNow ==
  ASSUME AloneNow
  PROVE  pending[1] \in Offers /\ Offered(pending[1]) /\ HeadNow = HeadOf(pending[1])
<1>1. PICK T : pending \in Seq(T)
  BY DEF AloneNow, LabelInv, HistInv, LifeInv
<1>2. PICK S : log \in Seq(S)
  BY DEF AloneNow, LabelInv, HistInv, LifeInv, LogIsSequence
<1>3. Len(pending) = 1 /\ DOMAIN pending = {1}
  BY <1>1 DEF AloneNow
<1>4. pending[1] \in ToSet(pending)
  BY <1>3 DEF ToSet
<1>5. pending[1] \in Offers
  BY <1>4, OffersAre DEF AloneNow, LabelInv, HistInv
<1>6. Made(pending[1]) /\ Taken(pending[1])
  BY <1>3 DEF AloneNow, LabelInv, HistInv, LifeInv
<1>7. Regular(pending[1].base)
  BY DEF AloneNow, LabelInv, Orderly
<1>8. log \o pending # <<>> /\ Last(log \o pending) = pending[1]
  <2>1. log \in Seq(S \cup T) /\ pending \in Seq(S \cup T)
    BY <1>1, <1>2, SeqGrows
  <2> QED  BY <1>3, <2>1, JoinedLast
<1> QED  BY <1>5, <1>6, <1>7, <1>8 DEF Offered, Taken, HeadNow

(* The store returns its evidence, if it has any stored,                   *)
LEMMA CitedNow ==
  ASSUME AloneNow, NEW o, o = pending[1]
  PROVE  Lookup(StoreNow, Uri(o)) = Stored(o)
<1>1. LifeInv /\ lost = {}
  BY DEF AloneNow, LabelInv, HistInv
<1>2. o \in Offers /\ o.base.epoch = state.epoch
  BY AtHandNow DEF AloneNow
<1>3. \A p \in Offers : Uri(p) = Uri(o) => p = o
  BY <1>2, SameEpoch, OffersOfEpoch
<1>4. CASE Stored(o) # {}
  <2>1. PICK p \in Offers : /\ Uri(p) = Uri(o) /\ Stored(p) # {}
                            /\ Lookup(StoreNow, Uri(o)) = {The(Stored(p))}
    BY <1>1, <1>2, <1>4, StoreReturns
  <2>2. p = o
    BY <1>3, <2>1
  <2> QED  BY <1>4, <2>1, <2>2, StoredOnce
<1>5. CASE Stored(o) = {}
  BY <1>1, <1>3, <1>5, StoreTells DEF Lookup
<1> QED  BY <1>4, <1>5

(* the archive has no head of its epoch,                                   *)
LEMMA UnarchivedNow ==
  ASSUME AloneNow
  PROVE  Lookup(ArchiveNow, state.epoch) = {}
<1>1. archive \subseteq DOMAIN log /\ LifeInv /\ \A i \in archive : HeadOf(log[i]) # {}
  BY DEF AloneNow, LabelInv, HistInv, Sound
<1>2. \A i \in DOMAIN log : log[i].base.epoch # state.epoch
  <2> SUFFICES ASSUME NEW i \in DOMAIN log PROVE log[i].base.epoch # state.epoch
    OBVIOUS
  <2>1. state.epoch \in Nat /\ log[i].base.epoch \in Nat /\ log[i].base.epoch < state.epoch
    BY DEF AloneNow, LabelInv, Orderly, Regular
  <2> QED  BY <2>1
<1>3. state.epoch \notin DOMAIN ArchiveNow
  BY <1>1, <1>2, ArchiveTells
<1> QED  BY <1>3 DEF Lookup

(* and every claim of the state is later than its evidence.                *)
LEMMA ClaimsNow ==
  ASSUME AloneNow, NEW X, X.store = StoreNow
  PROVE  ClaimsPast(X, state)
<1> SUFFICES ASSUME NEW k \in DOMAIN state.knowledge, NEW v, v = state.knowledge[k],
                    v.structured, v.claimed # {}
             PROVE  NotBefore(Resolved(X, v.evidence), The(v.claimed)) = "PASS"
  BY DEF ClaimsPast
<1>1. LifeInv /\ lost = {} /\ BackedIn(state, log)
  BY DEF AloneNow, LabelInv, HistInv
<1>2. PICK j \in DOMAIN log : v.evidence = {Uri(log[j])} /\ The(v.claimed) >= log[j].base.timestamp
  BY <1>1 DEF BackedIn, BackedBy
<1>3. Stored(log[j]) # {}
  BY DEF AloneNow, LabelInv, HistInv, Sound
<1>4. log[j] \in Offers
  BY <1>1, OffersAre DEF ToSet
<1>5. PICK p \in Offers : /\ Uri(p) = Uri(log[j]) /\ Stored(p) # {}
                          /\ Lookup(StoreNow, Uri(log[j])) = {The(Stored(p))}
  BY <1>1, <1>3, <1>4, StoreReturns
<1>6. p.base.timestamp = log[j].base.timestamp
  <2>1. p.base.epoch = log[j].base.epoch
    BY <1>5, SameEpoch
  <2>2. /\ state.epoch \in Nat /\ log[j].base.epoch \in Nat /\ log[j].base.epoch < state.epoch
        /\ log[j].base.timestamp = log[j].base.epoch + 4
    BY DEF AloneNow, LabelInv, Orderly, Regular
  <2>3. log[j].base.epoch # state.epoch
    BY <2>2
  <2> QED  BY <2>1, <2>2, <2>3, OffersOfEpoch
<1>7. Resolved(X, v.evidence) = {The(Stored(p))}
  BY <1>2, <1>5 DEF Resolved
<1>8. The(Stored(p)).acquired = {p.base.timestamp}
  BY <1>5, StoredShape
<1>9. The(Resolved(X, v.evidence)).acquired = {p.base.timestamp}
      /\ Resolved(X, v.evidence) # {}
  BY <1>7, <1>8, TheOnly
<1>10. The(The(Resolved(X, v.evidence)).acquired) = p.base.timestamp
       /\ The(Resolved(X, v.evidence)).acquired # {}
  BY <1>9, TheOnly
<1>11. The(v.claimed) >= p.base.timestamp
  BY <1>2, <1>6
<1> QED  BY <1>9, <1>10, <1>11 DEF NotBefore, Or

(* The labels of the benchmark hold on every history of its legitimate     *)
(* transitions, for every choice of cases, rivals and faults: a case       *)
(* proposed alone, with every key good and all evidence there, gets the    *)
(* verdict it is labelled with.                                            *)
THEOREM LabelsHold == Spec => []LabelsAgree
<1>1. Init => LabelInv
  BY LabelInit
<1>2. LabelInv /\ [Next]_vars => LabelInv'
  BY LabelStep
<1>3. LabelInv => LabelsAgree
  <2> SUFFICES ASSUME AloneNow
               PROVE  VerdictFrom(state, pending[1]) = Label(pending[1].name)
    BY DEF LabelsAgree, AloneNow, UsualLog
  <2> DEFINE o == pending[1]
  <2> DEFINE X == ContextAt(state)
  <2>1. o.base = state /\ o.name \notin Extra
    BY DEF AloneNow
  <2>2. Offered(o) /\ HeadNow = HeadOf(o)
    BY AtHandNow
  <2>3. /\ X.known = TRUE /\ X.identity = Identity /\ X.epoch = state.epoch
        /\ X.credentials = CredentialsNow /\ X.kernels = {"kernel"} /\ X.head = HeadNow
        /\ X.archive = ArchiveNow /\ X.store = StoreNow /\ X.time = {state.timestamp + 2}
    BY ContextFields
  <2>4. VerdictFrom(state, o) = Verdict(o.base, {WitnessOf(o)}, CandidateOf(o), PolicyOf(o), X)
    BY <2>1 DEF VerdictFrom
  <2>5. Lookup(StoreNow, Uri(o)) = Stored(o)
    BY CitedNow
  <2> HIDE DEF o, X
  <2>6. Alone(X, o)
    BY CredentialsPlain, <2>1, <2>3, <2>5, <2>2, UnarchivedNow DEF AloneNow, LabelInv, Trusting,
       Alone
  <2>7. ClaimsPast(X, o.base)
    BY <2>1, <2>3, ClaimsNow
  <2>8. Verdict(o.base, {WitnessOf(o)}, CandidateOf(o), PolicyOf(o), X) = Label(o.name)
    BY <2>1, <2>2, <2>6, <2>7, LabelOfAlone
  <2>9. VerdictFrom(state, o) = Label(o.name)
    BY <2>4, <2>8
  <2> QED  BY <2>9 DEF o
<1> QED  BY <1>1, <1>2, <1>3, PTL DEF Spec

=============================================================================
