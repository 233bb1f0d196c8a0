---------------------------- MODULE WorkLoopProofs ----------------------------
(***************************************************************************)
(* Proofs about WorkLoop: its type invariant; forged receipts change no    *)
(* verdict; a certificate dies with its evidence, if receipt ids are       *)
(* unique; nothing contested is certified; and, with unique ids again,     *)
(* what is executed was true of the target a short while ago.              *)
(***************************************************************************)
EXTENDS WorkLoop, FiniteSetTheorems, WellFoundedInduction, TLAPS

(* On a finite set a measure has a greatest value.                         *)
LEMMA FiniteHasGreatest ==
  ASSUME NEW S, IsFiniteSet(S), S # {}, NEW f \in [S -> Int]
  PROVE  \E x \in S : \A y \in S : f[y] <= f[x]
<1> DEFINE Tops(T) == {x \in T : \A y \in T : f[y] <= f[x]}
           topless == {T \in SUBSET S : T # {} /\ Tops(T) = {}}
<1>1. SUFFICES topless = {}
  <2>1. S \in SUBSET S /\ S \notin topless
    BY <1>1
  <2>2. QED
    BY <2>1
<1>2. SUFFICES ASSUME topless # {} PROVE FALSE
  OBVIOUS
<1>3. topless \subseteq FiniteSubsetsOf(S)
  BY FS_Subset DEF FiniteSubsetsOf
<1>4. IsWellFoundedOn(StrictSubsetOrdering(S), FiniteSubsetsOf(S))
  BY FS_StrictSubsetOrderingWellFounded
<1>5. PICK T \in topless : \A U \in topless : <<U, T>> \notin StrictSubsetOrdering(S)
  <2> HIDE DEF topless
  <2>1. QED
    BY <1>2, <1>3, <1>4, WFMin, Zenon
<1>6. T \in SUBSET S /\ T # {} /\ Tops(T) = {}
  BY <1>5
<1>7. PICK x \in T : TRUE
  BY <1>6
<1>8. T \ {x} \notin topless
  BY <1>5, <1>6, <1>7 DEF StrictSubsetOrdering
<1>9. CASE T \ {x} = {}
  <2>1. \A y \in T : f[y] <= f[x]
    BY <1>6, <1>7, <1>9
  <2>2. QED
    BY <1>6, <1>7, <2>1
<1>10. CASE T \ {x} # {}
  <2>1. PICK m \in T \ {x} : \A y \in T \ {x} : f[y] <= f[m]
    BY <1>6, <1>8, <1>10
  <2>2. f[x] \in Int /\ f[m] \in Int /\ \A y \in T : f[y] \in Int
    BY <1>6, <1>7, <2>1
  <2>3. CASE f[x] <= f[m]
    <3>1. \A y \in T : f[y] <= f[m]
      BY <2>1, <2>3
    <3>2. QED
      BY <1>6, <2>1, <3>1
  <2>4. CASE f[m] <= f[x]
    <3>1. \A y \in T : f[y] <= f[x]
      <4>1. TAKE y \in T
      <4>2. CASE y = x
        BY <2>2, <4>2
      <4>3. CASE y # x
        <5>1. f[y] <= f[m]
          BY <2>1, <4>3
        <5>2. QED
          BY <2>2, <2>4, <5>1
      <4>4. QED
        BY <4>2, <4>3
    <3>2. QED
      BY <1>6, <1>7, <3>1
  <2>5. QED
    BY <2>2, <2>3, <2>4
<1>11. QED
  BY <1>9, <1>10

LEMMA FiniteHasLeast ==
  ASSUME NEW S, IsFiniteSet(S), S # {}, NEW f \in [S -> Int]
  PROVE  \E x \in S : \A y \in S : f[x] <= f[y]
<1> DEFINE g == [x \in S |-> -f[x]]
<1>1. g \in [S -> Int]
  OBVIOUS
<1>2. PICK x \in S : \A y \in S : g[y] <= g[x]
  <2> HIDE DEF g
  <2>1. QED
    BY <1>1, FiniteHasGreatest
<1>3. \A y \in S : f[x] \in Int /\ f[y] \in Int /\ -f[y] <= -f[x]
  BY <1>2
<1>4. \A y \in S : f[x] <= f[y]
  BY <1>3
<1>5. QED
  BY <1>4

(* A set of integers that is bounded below has a least element.            *)
LEMMA MinOfBounded ==
  ASSUME NEW S \in SUBSET Int, S # {}, NEW b \in Int, \A x \in S : b <= x
  PROVE  Min(S) \in S /\ \A y \in S : Min(S) <= y
<1> DEFINE D == {x - b : x \in S}
<1>1. D \subseteq Nat /\ D # {}
  <2>1. \A x \in S : x - b \in Nat
    OBVIOUS
  <2>2. QED
    BY <2>1
<1>2. IsWellFoundedOn({pair \in Nat \X Nat : pair[1] < pair[2]}, Nat)
  BY NatLessThanWellFounded DEF OpToRel
<1>3. PICK m \in D : \A n \in D : <<n, m>> \notin {pair \in Nat \X Nat : pair[1] < pair[2]}
  <2> HIDE DEF D
  <2>1. QED
    BY <1>1, <1>2, WFMin, Zenon
<1>4. PICK x \in S : m = x - b
  BY <1>3
<1>5. \A y \in S : x <= y
  <2>1. TAKE y \in S
  <2>2. y - b \in D /\ y - b \in Nat /\ m \in Nat
    BY <1>1, <1>3
  <2>3. ~(y - b < m)
    BY <1>3, <2>2
  <2>4. QED
    BY <1>4, <2>3
<1>6. \E z \in S : \A y \in S : z <= y
  BY <1>5
<1>7. QED
  BY <1>6 DEF Min

(* The values of a measure on a finite set have their extremes.            *)
LEMMA ExtremesOfImage ==
  ASSUME NEW S, IsFiniteSet(S), S # {}, NEW f \in [S -> Int]
  PROVE  LET values == {f[x] : x \in S} IN
           /\ Min(values) \in values /\ \A y \in values : Min(values) <= y
           /\ Max(values) \in values /\ \A y \in values : Max(values) >= y
<1> DEFINE values == {f[x] : x \in S}
<1>1. \E m \in values : \A y \in values : m <= y
  BY FiniteHasLeast
<1>2. \E m \in values : \A y \in values : m >= y
  <2>1. PICK x \in S : \A y \in S : f[y] <= f[x]
    BY FiniteHasGreatest
  <2>2. f[x] \in values /\ \A y \in values : f[x] >= y
    BY <2>1
  <2>3. QED
    BY <2>2
<1> HIDE DEF values
<1>3. Min(values) \in values /\ \A y \in values : Min(values) <= y
  BY <1>1 DEF Min
<1>4. Max(values) \in values /\ \A y \in values : Max(values) >= y
  BY <1>2 DEF Max
<1>5. QED
  BY <1>3, <1>4 DEF values

------------------------------------------------------------------------------
(* A cut is a number, for it is counted on a finite basis of faults.       *)
LEMMA KappaIsNat ==
  ASSUME NEW participating, NEW profile, IsFiniteSet(profile.faults)
  PROVE  KappaE(participating, profile) \in Nat
<1>1. \A F \in MinimumFaultCuts(participating, profile) : F \subseteq profile.faults
  BY DEF MinimumFaultCuts, MinimumHittingSets, Smallest
<1>2. \A F \in MinimumFaultCuts(participating, profile) : Cardinality(F) \in Nat
  BY <1>1, FS_Subset, FS_CardinalityType
<1>3. QED
  BY <1>2 DEF KappaE

(* A set of witnesses of finitely many receipts.                           *)
Witnesses(witnesses) ==
  /\ IsFiniteSet(witnesses) /\ witnesses # {}
  /\ \A W \in witnesses : /\ IsFiniteSet(W) /\ W # {}
                           /\ \A r \in W : r.observedAt \in Int

(* selectCanonicalWitness selects one of the witnesses it is given.        *)
LEMMA CanonicalIsOneOfThem ==
  ASSUME NEW witnesses, Witnesses(witnesses), NEW o, NEW profiles,
         \A W \in witnesses : CutOf(W, o, profiles) \in Int
  PROVE  CanonicalWitness(witnesses, o, profiles) \in witnesses
<1> DEFINE Oldest(W) == Min({r.observedAt : r \in W})
           youngest == {W \in witnesses : \A V \in witnesses : Oldest(V) <= Oldest(W)}
           toughest == {W \in youngest : \A V \in youngest :
                          CutOf(V, o, profiles) <= CutOf(W, o, profiles)}
           age == [W \in witnesses |-> Oldest(W)]
           cut == [W \in youngest |-> CutOf(W, o, profiles)]
           size == [W \in toughest |-> Cardinality(W)]
<1>1. \A W \in witnesses : Oldest(W) \in Int
  <2>1. TAKE W \in witnesses
  <2> DEFINE time == [r \in W |-> r.observedAt]
  <2>2. time \in [W -> Int] /\ IsFiniteSet(W) /\ W # {}
    BY DEF Witnesses
  <2>3. Min({time[r] : r \in W}) \in {time[r] : r \in W}
    <3> HIDE DEF time
    <3>1. QED
      BY <2>2, ExtremesOfImage
  <2>4. {time[r] : r \in W} = {r.observedAt : r \in W}
    OBVIOUS
  <2>5. {time[r] : r \in W} \subseteq Int
    BY <2>2
  <2>6. QED
    BY <2>3, <2>4, <2>5
<1>2. youngest # {} /\ youngest \subseteq witnesses
  <2> HIDE DEF Oldest
  <2>1. age \in [witnesses -> Int]
    BY <1>1
  <2>2. PICK W \in witnesses : \A V \in witnesses : age[V] <= age[W]
    <3> HIDE DEF age
    <3>1. QED
      BY <2>1, FiniteHasGreatest DEF Witnesses
  <2>3. W \in youngest
    BY <2>2
  <2>4. QED
    BY <2>3
<1>3. toughest # {} /\ toughest \subseteq youngest
  <2> HIDE DEF youngest
  <2>1. cut \in [youngest -> Int] /\ IsFiniteSet(youngest)
    BY <1>2, FS_Subset DEF Witnesses
  <2>2. PICK W \in youngest : \A V \in youngest : cut[V] <= cut[W]
    <3> HIDE DEF cut
    <3>1. QED
      BY <1>2, <2>1, FiniteHasGreatest
  <2>3. W \in toughest
    BY <2>2
  <2>4. QED
    BY <2>3
<1>4. Smallest(toughest) # {} /\ Smallest(toughest) \subseteq toughest
  <2> HIDE DEF youngest, toughest
  <2>1. size \in [toughest -> Int] /\ IsFiniteSet(toughest)
    BY <1>2, <1>3, FS_Subset, FS_CardinalityType DEF Witnesses
  <2>2. PICK W \in toughest : \A V \in toughest : size[W] <= size[V]
    <3> HIDE DEF size
    <3>1. QED
      BY <1>3, <2>1, FiniteHasLeast
  <2>3. W \in Smallest(toughest)
    BY <2>2 DEF Smallest
  <2>4. QED
    BY <2>3 DEF Smallest
<1>5. CanonicalWitness(witnesses, o, profiles) = CHOOSE W \in Smallest(toughest) : TRUE
  BY DEF CanonicalWitness
<1> HIDE DEF youngest, toughest
<1>6. QED
  BY <1>2, <1>3, <1>4, <1>5

------------------------------------------------------------------------------
(* What discharge looks at: the witnesses of each polarity.                *)
Valid(eligible, o, profiles, polarity) ==
  {W \in SUBSET {r \in eligible : Entailment(r.claim, o) = polarity} :
     SetConstraintsHold(o, W, profiles)}

(* What is known of the eligible receipts and of the obligation.           *)
Evaluable(eligible, o, profiles) ==
  /\ IsFiniteSet(eligible)
  /\ \A r \in eligible : r.observedAt \in Int
  /\ \A source \in DOMAIN o.priorities : o.priorities[source] \in Int
  /\ \A id \in DOMAIN profiles : IsFiniteSet(profiles[id].faults)

(* What both polarities' witnesses are.                                    *)
LEMMA ValidWitnesses ==
  ASSUME NEW eligible, NEW o, NEW profiles, NEW polarity,
         Evaluable(eligible, o, profiles),
         NEW W \in Valid(eligible, o, profiles, polarity)
  PROVE  /\ W \subseteq eligible /\ W # {} /\ IsFiniteSet(W)
         /\ CutOf(W, o, profiles) \in Int
         /\ WitnessPriority(W, o) \in Int
         /\ \A r \in W : WitnessPriority({r}, o) \in Int
         /\ \A r \in W : Entailment(r.claim, o) = polarity
<1> DEFINE rank == [r \in eligible |->
                     IF r.source \in DOMAIN o.priorities THEN o.priorities[r.source] ELSE 0]
<1>1. W \subseteq eligible /\ W # {} /\ SetConstraintsHold(o, W, profiles)
      /\ \A r \in W : Entailment(r.claim, o) = polarity
  BY DEF Valid, SetConstraintsHold
<1>2. IsFiniteSet(W)
  BY <1>1, FS_Subset DEF Evaluable
<1>3. CutOf(W, o, profiles) \in Int
  <2>1. CASE o.efd = {}
    BY <2>1 DEF CutOf
  <2>2. CASE o.efd # {}
    <3> DEFINE requirement == CHOOSE q \in o.efd : TRUE
    <3>1. requirement \in o.efd
      BY <2>2
    <3>2. requirement.profile \in DOMAIN profiles
      BY <1>1, <3>1 DEF SetConstraintsHold, ResilientTo
    <3>3. IsFiniteSet(profiles[requirement.profile].faults)
      BY <3>2 DEF Evaluable
    <3> HIDE DEF requirement
    <3>4. KappaE(Participating(W, profiles[requirement.profile]), profiles[requirement.profile])
            \in Nat
      BY <3>3, KappaIsNat
    <3>5. QED
      BY <2>2, <3>4 DEF CutOf, requirement
  <2>3. QED
    BY <2>1, <2>2
<1>4. rank \in [eligible -> Int]
  BY DEF Evaluable
<1>5. ASSUME NEW V \in SUBSET eligible, V # {}
      PROVE  WitnessPriority(V, o) \in Int
  <2> DEFINE part == [r \in V |-> rank[r]]
  <2>1. part \in [V -> Int] /\ IsFiniteSet(V)
    BY <1>4, FS_Subset DEF Evaluable
  <2>2. Min({part[r] : r \in V}) \in {part[r] : r \in V}
    <3> HIDE DEF part
    <3>1. QED
      BY <1>5, <2>1, ExtremesOfImage
  <2>3. {part[r] : r \in V}
          = {IF r.source \in DOMAIN o.priorities THEN o.priorities[r.source] ELSE 0 : r \in V}
    OBVIOUS
  <2>4. {part[r] : r \in V} \subseteq Int
    BY <2>1
  <2>5. QED
    BY <2>2, <2>3, <2>4 DEF WitnessPriority
<1>6. \A r \in W : {r} \in SUBSET eligible /\ {r} # {}
  BY <1>1
<1>7. QED
  BY <1>1, <1>2, <1>3, <1>5, <1>6

(* A satisfied obligation: the witness is one of the positive ones, and    *)
(* none of the negative ones has a priority as good.                       *)
LEMMA SatisfiedBy ==
  ASSUME NEW eligible, NEW o, NEW profiles,
         Evaluable(eligible, o, profiles),
         DischargeFrom(eligible, o, profiles).kind = "SATISFIED"
  PROVE  LET W == DischargeFrom(eligible, o, profiles).witness IN
           /\ W \in Valid(eligible, o, profiles, "POSITIVE")
           /\ \A V \in Valid(eligible, o, profiles, "NEGATIVE") :
                ~(WitnessPriority(V, o) >= WitnessPriority(W, o))
<1> DEFINE positive == Valid(eligible, o, profiles, "POSITIVE")
           negative == Valid(eligible, o, profiles, "NEGATIVE")
           both == positive \cup negative
           priority == [W \in both |-> WitnessPriority(W, o)]
           top == Max({WitnessPriority(W, o) : W \in both})
           Maximal(witnesses) == {W \in witnesses : WitnessPriority(W, o) = top}
           best == CanonicalWitness(Maximal(positive), o, profiles)
<1>1. /\ Maximal(positive) # {} /\ Maximal(negative) = {}
      /\ DischargeFrom(eligible, o, profiles).witness = best
  BY DEF DischargeFrom, Valid, Unknown
<1>2. \A W \in both : WitnessPriority(W, o) \in Int /\ CutOf(W, o, profiles) \in Int
                      /\ W \subseteq eligible /\ W # {} /\ IsFiniteSet(W)
  BY ValidWitnesses
<1>3. IsFiniteSet(both)
  <2>1. IsFiniteSet(SUBSET eligible)
    BY FS_SUBSET DEF Evaluable
  <2>2. both \subseteq SUBSET eligible
    BY DEF Valid
  <2>3. QED
    BY <2>1, <2>2, FS_Subset
<1> HIDE DEF positive, negative
<1>4. Maximal(positive) \subseteq both
  OBVIOUS
<1>5. best \in Maximal(positive)
  <2>1. Witnesses(Maximal(positive))
    <3>1. IsFiniteSet(Maximal(positive))
      BY <1>3, <1>4, FS_Subset
    <3>2. \A W \in Maximal(positive) : \A r \in W : r.observedAt \in Int
      BY <1>2, <1>4 DEF Evaluable
    <3> HIDE DEF Maximal
    <3>3. QED
      BY <1>1, <1>2, <1>4, <3>1, <3>2 DEF Witnesses
  <2> HIDE DEF Maximal
  <2>2. QED
    BY <1>2, <1>4, <2>1, CanonicalIsOneOfThem
<1>6. best \in positive /\ WitnessPriority(best, o) = top
  <2> HIDE DEF best
  <2>1. QED
    BY <1>5
<1>7. \A V \in both : top >= WitnessPriority(V, o)
  <2>1. priority \in [both -> Int] /\ both # {}
    BY <1>2, <1>6
  <2>2. \A y \in {priority[W] : W \in both} : Max({priority[W] : W \in both}) >= y
    <3> HIDE DEF priority, both
    <3>1. QED
      BY <1>3, <2>1, ExtremesOfImage
  <2>3. {priority[W] : W \in both} = {WitnessPriority(W, o) : W \in both}
    OBVIOUS
  <2>4. \A V \in both : WitnessPriority(V, o) \in {WitnessPriority(W, o) : W \in both}
    OBVIOUS
  <2> HIDE DEF both, priority
  <2>5. QED
    BY <2>2, <2>3, <2>4 DEF top
<1>8. ASSUME NEW V \in negative, WitnessPriority(V, o) >= top PROVE FALSE
  <2>1. top \in Int
    BY <1>2, <1>6
  <2>2. WitnessPriority(V, o) = top
    <3> HIDE DEF top
    <3>1. QED
      BY <1>2, <1>7, <1>8, <2>1
  <2>3. QED
    BY <1>1, <2>2
<1>9. QED
  BY <1>1, <1>6, <1>8 DEF positive, negative

------------------------------------------------------------------------------
(* The outcomes that evaluate collects.                                    *)
Outcomes(p, view, rules, evidence, context) ==
  LET obligations == Obligations(p, view, rules)
      Result(o) == Discharge(o, evidence, view, context.time, context.profiles)
  IN  {[ index |-> i, obligation |-> obligations[i],
         kind |-> Result(obligations[i]).kind,
         witness |-> Result(obligations[i]).witness ] : i \in DOMAIN obligations}

SatisfiedOf(outcomes) == {x \in outcomes : x.obligation.required /\ x.kind = "SATISFIED"}

LEMMA EvaluationForm ==
  ASSUME NEW p, NEW view, NEW rules, NEW evidence, NEW context
  PROVE  Evaluation(p, view, rules, evidence, context) =
           IF BudgetSpent(context) THEN Verdict("ABORT")
           ELSE IF ~Authorized(p, context.allowed) THEN Verdict("DENY")
           ELSE IF ~StaticallyCompliant(p, view, rules) THEN Verdict("DENY")
           ELSE Admission(p, view, rules, context, Outcomes(p, view, rules, evidence, context))
BY DEF Evaluation, Outcomes

(* What a permit contains.                                                 *)
PermitOf(verdict, satisfied, time) ==
  /\ verdict.basis = satisfied
  /\ verdict.certificate.wellFormed = TRUE
  /\ verdict.certificate.issuedAt = time
  /\ verdict.certificate.expiresAt = CertificateExpiry(satisfied, time)

LEMMA VerdictContents ==
  ASSUME NEW p, NEW view, NEW rules, NEW evidence, NEW context
  PROVE  LET verdict == Evaluation(p, view, rules, evidence, context)
             satisfied == SatisfiedOf(Outcomes(p, view, rules, evidence, context))
         IN  /\ verdict.kind = "PERMIT" => PermitOf(verdict, satisfied, context.time)
             /\ verdict.kind = "DEFER" =>
                  /\ verdict.open # {}
                  /\ verdict.open \subseteq DOMAIN Obligations(p, view, rules)
<1> DEFINE verdict == Evaluation(p, view, rules, evidence, context)
           outcomes == Outcomes(p, view, rules, evidence, context)
           decided == Admission(p, view, rules, context, outcomes)
           satisfied == SatisfiedOf(outcomes)
           unknown == {x \in outcomes : x.obligation.required /\ x.kind = "UNKNOWN"}
<1>1. verdict.kind \in {"PERMIT", "DEFER"} => verdict = decided
  BY EvaluationForm DEF Verdict
<1>2. \A x \in outcomes : x.index \in DOMAIN Obligations(p, view, rules)
  BY DEF Outcomes
<1> HIDE DEF outcomes
<1>3. decided.kind = "PERMIT" => PermitOf(decided, satisfied, context.time)
  BY DEF Admission, Verdict, Certificate, SatisfiedOf, PermitOf
<1>4. decided.kind = "DEFER" =>
        unknown # {} /\ decided.open = {x.index : x \in unknown}
  BY DEF Admission, Verdict
<1>5. decided.kind = "DEFER" =>
        decided.open # {} /\ decided.open \subseteq DOMAIN Obligations(p, view, rules)
  <2> HIDE DEF decided
  <2>1. QED
    BY <1>2, <1>4
<1> HIDE DEF decided, satisfied, unknown, verdict
<1>6. QED
  BY <1>1, <1>3, <1>5 DEF verdict, satisfied, outcomes

(* The obligations of a proposal, by place.                                *)
LEMMA ObligationsTyped ==
  ASSUME NEW p, NEW view, NEW rules \in Policies
  PROVE  LET obligations == Obligations(p, view, rules) IN
           /\ \E n \in Nat : DOMAIN obligations = 1..n
           /\ \A i \in DOMAIN obligations :
                /\ obligations[i].maxFreshness \in Nat
                /\ \A source \in DOMAIN obligations[i].priorities :
                     obligations[i].priorities[source] \in Int
<1> DEFINE bound == [i \in DOMAIN rules.rules |-> [rules.rules[i] EXCEPT !.scope = p.scope]]
           approval == HumanApproval(p.scope)
           n == Len(rules.rules)
           Typed(o) == /\ o.maxFreshness \in Nat
                       /\ \A source \in DOMAIN o.priorities : o.priorities[source] \in Int
<1>1. n \in Nat /\ DOMAIN rules.rules = 1..n
  BY PolicyAssumption
<1>2. \A i \in DOMAIN rules.rules : Typed(bound[i])
  <2>1. TAKE i \in DOMAIN rules.rules
  <2>2. /\ bound[i] = [rules.rules[i] EXCEPT !.scope = p.scope]
        /\ {"maxFreshness", "priorities"} \subseteq DOMAIN rules.rules[i]
        /\ Typed(rules.rules[i])
    BY PolicyAssumption
  <2>3. bound[i].maxFreshness = rules.rules[i].maxFreshness
        /\ bound[i].priorities = rules.rules[i].priorities
    BY <2>2
  <2>4. QED
    BY <2>2, <2>3
<1>3. bound \in Seq({bound[i] : i \in 1..n}) /\ Len(bound) = n
  <2>1. DOMAIN bound = 1..n /\ \A i \in 1..n : bound[i] \in {bound[j] : j \in 1..n}
    BY <1>1
  <2>2. bound = [i \in 1..n |-> bound[i]]
    BY <1>1
  <2> HIDE DEF bound, n
  <2>3. QED
    BY <1>1, <2>1, <2>2
<1>4. Typed(approval)
  BY WorkLoopAssumption DEF HumanApproval
<1>5. CASE Obligations(p, view, rules) = bound
  BY <1>1, <1>2, <1>5
<1>6. CASE Obligations(p, view, rules) = Append(bound, approval)
  <2> HIDE DEF bound, approval
  <2>1. /\ DOMAIN Append(bound, approval) = 1..(n + 1)
        /\ \A i \in 1..n : Append(bound, approval)[i] = bound[i]
        /\ Append(bound, approval)[n + 1] = approval
    BY <1>1, <1>3
  <2>2. \A i \in 1..(n + 1) : i \in 1..n \/ i = n + 1
    BY <1>1
  <2>3. n + 1 \in Nat
    BY <1>1
  <2> HIDE DEF Typed, n
  <2>4. \A i \in 1..(n + 1) : Typed(Append(bound, approval)[i])
    BY <1>1, <1>2, <1>4, <2>1, <2>2
  <2>5. QED
    BY <1>6, <2>1, <2>3, <2>4 DEF Typed
<1>7. QED
  BY <1>5, <1>6 DEF Obligations

------------------------------------------------------------------------------
(* Forgeries.  Nothing but the eligible receipts reaches a verdict, and a  *)
(* receipt nobody vouches for is not eligible.                             *)
LEMMA DischargeOfAuthentic ==
  ASSUME NEW o, NEW evidence, NEW view, NEW time, NEW profiles
  PROVE  Discharge(o, evidence, view, time, profiles)
           = Discharge(o, {r \in evidence : r.authentic}, view, time, profiles)
<1>1. {r \in evidence : Eligible(r, o, view, time)}
        = {r \in {q \in evidence : q.authentic} : Eligible(r, o, view, time)}
  BY DEF Eligible
<1>2. QED
  BY <1>1 DEF Discharge

LEMMA EvaluationOfAuthentic ==
  ASSUME NEW p, NEW view, NEW rules, NEW evidence, NEW context
  PROVE  Evaluation(p, view, rules, evidence, context)
           = Evaluation(p, view, rules, {r \in evidence : r.authentic}, context)
<1> DEFINE authentic == {r \in evidence : r.authentic}
           obligations == Obligations(p, view, rules)
           Of(o) == Discharge(o, evidence, view, context.time, context.profiles)
           Again(o) == Discharge(o, authentic, view, context.time, context.profiles)
           Outcome(i, result) == [ index |-> i, obligation |-> obligations[i],
                                   kind |-> result.kind, witness |-> result.witness ]
<1>1. \A o : Of(o) = Again(o)
  BY DischargeOfAuthentic
<1>2. Outcomes(p, view, rules, evidence, context)
        = {Outcome(i, Of(obligations[i])) : i \in DOMAIN obligations}
  BY DEF Outcomes
<1>3. Outcomes(p, view, rules, authentic, context)
        = {Outcome(i, Again(obligations[i])) : i \in DOMAIN obligations}
  BY DEF Outcomes
<1>4. Outcomes(p, view, rules, evidence, context)
        = Outcomes(p, view, rules, authentic, context)
  <2> HIDE DEF Of, Again, Outcome, obligations
  <2>1. QED
    BY <1>1, <1>2, <1>3
<1> HIDE DEF authentic
<1>5. QED
  BY <1>4, EvaluationForm DEF authentic

(* Receipts nobody vouches for change no verdict: whatever policy, world,  *)
(* clock and pool the loop has come to.                                    *)
THEOREM ForgeriesChangeNothing == Spec => []ForgeriesAreInert
<1>1. ForgeriesAreInert
  BY EvaluationOfAuthentic DEF ForgeriesAreInert, Evaluated
<1>2. QED
  BY <1>1, PTL

------------------------------------------------------------------------------
(* What a permit rests on.                                                 *)
PoolTyped(evidence) == IsFiniteSet(evidence) /\ \A r \in evidence : r.observedAt \in Int

IdsUnique(evidence) ==
  \A r, s \in evidence : r.authentic /\ s.authentic /\ r.id = s.id => r = s

EligibleOf(evidence, o, view, time) == {r \in evidence : Eligible(r, o, view, time)}

LEMMA SatisfiedOutcome ==
  ASSUME NEW p, NEW view, NEW rules \in Policies, NEW evidence, PoolTyped(evidence),
         NEW context, context.profiles = Profiles,
         NEW b \in SatisfiedOf(Outcomes(p, view, rules, evidence, context))
  PROVE  LET eligible == EligibleOf(evidence, b.obligation, view, context.time) IN
           /\ b.index \in DOMAIN Obligations(p, view, rules)
           /\ b.obligation.maxFreshness \in Nat
           /\ Evaluable(eligible, b.obligation, Profiles)
           /\ b.witness \in Valid(eligible, b.obligation, Profiles, "POSITIVE")
           /\ \A V \in Valid(eligible, b.obligation, Profiles, "NEGATIVE") :
                ~(WitnessPriority(V, b.obligation) >= WitnessPriority(b.witness, b.obligation))
<1> DEFINE obligations == Obligations(p, view, rules)
<1>1. PICK i \in DOMAIN obligations :
        LET result == Discharge(obligations[i], evidence, view, context.time, Profiles) IN
          b = [ index |-> i, obligation |-> obligations[i],
                kind |-> result.kind, witness |-> result.witness ]
  BY DEF SatisfiedOf, Outcomes
<1> DEFINE o == obligations[i]
           eligible == EligibleOf(evidence, o, view, context.time)
<1>2. b.index = i /\ b.obligation = o /\ b.kind = "SATISFIED"
      /\ b.kind = DischargeFrom(eligible, o, Profiles).kind
      /\ b.witness = DischargeFrom(eligible, o, Profiles).witness
  BY <1>1 DEF SatisfiedOf, Discharge, EligibleOf
<1>3. /\ o.maxFreshness \in Nat
      /\ \A source \in DOMAIN o.priorities : o.priorities[source] \in Int
  BY ObligationsTyped
<1>4. Evaluable(eligible, o, Profiles)
  <2>1. IsFiniteSet(eligible) /\ \A r \in eligible : r.observedAt \in Int
    BY FS_Subset DEF PoolTyped, EligibleOf
  <2> HIDE DEF eligible, o
  <2>2. QED
    BY <1>3, <2>1, PolicyAssumption DEF Evaluable
<1> HIDE DEF eligible, o
<1>5. LET W == DischargeFrom(eligible, o, Profiles).witness IN
        /\ W \in Valid(eligible, o, Profiles, "POSITIVE")
        /\ \A V \in Valid(eligible, o, Profiles, "NEGATIVE") :
             ~(WitnessPriority(V, o) >= WitnessPriority(W, o))
  BY <1>2, <1>4, SatisfiedBy
<1>6. i \in DOMAIN Obligations(p, view, rules)
  OBVIOUS
<1>7. QED
  BY <1>2, <1>3, <1>4, <1>5, <1>6 DEF eligible

(* With unique ids receiptsMap finds the receipt itself.                   *)
LEMMA ReceiptOfIdIsIt ==
  ASSUME NEW p, NEW view, NEW rules \in Policies, NEW evidence, PoolTyped(evidence),
         IdsUnique(evidence), NEW context, context.profiles = Profiles,
         NEW b \in SatisfiedOf(Outcomes(p, view, rules, evidence, context)),
         NEW r \in b.witness
  PROVE  ReceiptOfId(r.id, SatisfiedOf(Outcomes(p, view, rules, evidence, context))) = r
<1> DEFINE satisfied == SatisfiedOf(Outcomes(p, view, rules, evidence, context))
           citing == {x \in satisfied : \E q \in x.witness : q.id = r.id}
           places == {x.index : x \in citing}
           self == [i \in places |-> i]
           last == CHOOSE x \in citing : \A y \in citing : y.index <= x.index
<1>1. \A x \in satisfied : /\ x.index \in DOMAIN Obligations(p, view, rules)
                           /\ x.witness \subseteq {q \in evidence : q.authentic}
  <2>1. TAKE x \in satisfied
  <2>2. /\ x.index \in DOMAIN Obligations(p, view, rules)
        /\ x.witness \in Valid(EligibleOf(evidence, x.obligation, view, context.time),
                               x.obligation, Profiles, "POSITIVE")
    BY SatisfiedOutcome
  <2>3. QED
    BY <2>2 DEF Valid, EligibleOf, Eligible
<1>2. PICK n \in Nat : DOMAIN Obligations(p, view, rules) = 1..n
  BY ObligationsTyped
<1> HIDE DEF satisfied
<1>3. b \in citing
  BY DEF satisfied
<1>4. self \in [places -> Int] /\ IsFiniteSet(places) /\ places # {}
  <2>1. places \subseteq 1..n
    BY <1>1, <1>2
  <2>2. IsFiniteSet(1..n)
    BY FS_Interval
  <2> HIDE DEF citing
  <2>3. QED
    BY <1>3, <2>1, <2>2, FS_Subset
<1>5. \E x \in citing : \A y \in citing : y.index <= x.index
  <2>1. PICK i \in places : \A j \in places : self[j] <= self[i]
    <3> HIDE DEF self, places
    <3>1. QED
      BY <1>4, FiniteHasGreatest
  <2>2. \A j \in places : j <= i
    BY <2>1
  <2> HIDE DEF citing
  <2>3. QED
    BY <2>2
<1>6. last \in citing
  <2> HIDE DEF citing
  <2>1. QED
    BY <1>5
<1> HIDE DEF last
<1>7. PICK q \in last.witness : q.id = r.id
  BY <1>6
<1>8. \A t \in last.witness : t.id = r.id => t = r
  <2>1. last \in satisfied /\ b \in satisfied
    BY <1>6 DEF satisfied
  <2>2. QED
    BY <1>1, <2>1 DEF IdsUnique
<1>9. (CHOOSE t \in last.witness : t.id = r.id) = r
  BY <1>7, <1>8
<1>10. QED
  BY <1>9 DEF ReceiptOfId, last, satisfied

(* The certificate's expiry is within every receipt's freshness, and not   *)
(* before its issue.                                                       *)
ExpiresInTime(b, issuedAt, expiresAt) ==
  \A r \in b.witness :
    /\ expiresAt \in Int
    /\ expiresAt <= r.observedAt + b.obligation.maxFreshness /\ issuedAt <= expiresAt

LEMMA PermitExpiresInTime ==
  ASSUME NEW p, NEW view, NEW rules \in Policies, NEW evidence, PoolTyped(evidence),
         IdsUnique(evidence), NEW context, context.profiles = Profiles, context.time \in Int,
         NEW b \in SatisfiedOf(Outcomes(p, view, rules, evidence, context))
  PROVE  ExpiresInTime(b, context.time, CertificateExpiry(
           SatisfiedOf(Outcomes(p, view, rules, evidence, context)), context.time))
<1> DEFINE satisfied == SatisfiedOf(Outcomes(p, view, rules, evidence, context))
           time == context.time
           Limits(x) == {ReceiptOfId(r.id, satisfied).observedAt + x.obligation.maxFreshness :
                           r \in x.witness}
           limits == {time + MaxTtl} \cup UNION {Limits(x) : x \in satisfied}
<1>1. ASSUME NEW x \in satisfied, NEW r \in x.witness
      PROVE  LET limit == r.observedAt + x.obligation.maxFreshness IN
               limit \in Int /\ time <= limit
  <2>1. /\ x.obligation.maxFreshness \in Nat
        /\ x.witness \in Valid(EligibleOf(evidence, x.obligation, view, time),
                               x.obligation, Profiles, "POSITIVE")
    BY SatisfiedOutcome
  <2>2. r \in evidence /\ Fresh(r, x.obligation, time)
    BY <2>1 DEF Valid, EligibleOf, Eligible
  <2>3. r.observedAt \in Int /\ time - r.observedAt <= x.obligation.maxFreshness
    BY <2>2 DEF PoolTyped, Fresh
  <2> HIDE DEF satisfied
  <2>4. QED
    BY <2>1, <2>3
<1>2. \A x \in satisfied : \A r \in x.witness : ReceiptOfId(r.id, satisfied) = r
  BY ReceiptOfIdIsIt
<1>3. time \in Int /\ MaxTtl \in Nat /\ b \in satisfied
  BY WorkLoopAssumption
<1>4. CertificateExpiry(satisfied, time) = Min(limits)
  BY DEF CertificateExpiry, WitnessExpirations
<1> HIDE DEF satisfied, time
<1>5. \A x \in satisfied : Limits(x) = {r.observedAt + x.obligation.maxFreshness : r \in x.witness}
  BY <1>2
<1>6. \A x \in satisfied : \A y \in Limits(x) : y \in Int /\ time <= y
  <2> HIDE DEF Limits
  <2>1. ASSUME NEW x \in satisfied, NEW y \in Limits(x) PROVE y \in Int /\ time <= y
    <3>1. PICK r \in x.witness : y = r.observedAt + x.obligation.maxFreshness
      BY <1>5
    <3>2. QED
      BY <1>1, <3>1
  <2>2. QED
    BY <2>1
<1>7. limits \in SUBSET Int /\ limits # {} /\ \A y \in limits : time <= y
  <2> HIDE DEF Limits
  <2>1. time + MaxTtl \in Int /\ time <= time + MaxTtl
    BY <1>3
  <2>2. QED
    BY <1>6, <2>1
<1>8. \A r \in b.witness : r.observedAt + b.obligation.maxFreshness \in limits
  <2>1. TAKE r \in b.witness
  <2>2. r.observedAt + b.obligation.maxFreshness \in Limits(b)
    <3> HIDE DEF Limits
    <3>1. QED
      BY <1>3, <1>5
  <2> HIDE DEF Limits
  <2>3. QED
    BY <1>3, <2>2
<1>9. Min(limits) \in limits /\ \A y \in limits : Min(limits) <= y
  <2> HIDE DEF limits
  <2>1. QED
    BY <1>3, <1>7, MinOfBounded
<1> HIDE DEF limits
<1>10. ExpiresInTime(b, time, Min(limits))
  BY <1>7, <1>8, <1>9 DEF ExpiresInTime
<1>11. QED
  BY <1>4, <1>10 DEF satisfied, time

(* What UncontestedWhenIssued says of one obligation.                      *)
Uncontested(b, evidence, issuedAt) ==
  LET o == b.obligation IN
    o.efd = {} /\ o.minCardinality <= 1 /\ o.minPrincipals <= 1 /\ ~o.reconcile =>
      ~\E r \in evidence :
         /\ r.authentic /\ r.class \in o.classes /\ o.scope \subseteq r.scope
         /\ Fresh(r, o, issuedAt)
         /\ r.version \in {s.version : s \in b.witness}
         /\ Entailment(r.claim, o) = "NEGATIVE"
         /\ WitnessPriority({r}, o) >= WitnessPriority(b.witness, o)

(* A reading against the claim would be a witness by itself, of a priority *)
(* that makes discharge find a conflict.                                   *)
LEMMA PermitUncontested ==
  ASSUME NEW p, NEW view, NEW rules \in Policies, NEW evidence, PoolTyped(evidence),
         NEW context, context.profiles = Profiles,
         NEW b \in SatisfiedOf(Outcomes(p, view, rules, evidence, context))
  PROVE  Uncontested(b, evidence, context.time)
<1> DEFINE o == b.obligation
           eligible == EligibleOf(evidence, o, view, context.time)
<1>1. SUFFICES
        ASSUME o.efd = {}, o.minCardinality <= 1, o.minPrincipals <= 1, ~o.reconcile,
               NEW r \in evidence,
               r.authentic, r.class \in o.classes, o.scope \subseteq r.scope,
               Fresh(r, o, context.time), r.version \in {s.version : s \in b.witness},
               Entailment(r.claim, o) = "NEGATIVE",
               WitnessPriority({r}, o) >= WitnessPriority(b.witness, o)
        PROVE  FALSE
  BY DEF Uncontested
<1>2. /\ b.witness \in Valid(eligible, o, Profiles, "POSITIVE")
      /\ \A V \in Valid(eligible, o, Profiles, "NEGATIVE") :
           ~(WitnessPriority(V, o) >= WitnessPriority(b.witness, o))
  BY SatisfiedOutcome
<1>3. r.version = view.observedVersion
  <2>1. \A s \in b.witness : s.version = view.observedVersion
    BY <1>2 DEF Valid, EligibleOf, Eligible
  <2>2. QED
    BY <1>1, <2>1
<1>4. r \in eligible
  BY <1>1, <1>3 DEF EligibleOf, Eligible
<1>5. QuorumMet(o, {r})
  <2>1. Cardinality({r}) = 1
    BY FS_Singleton
  <2>2. {s.principal : s \in {r}} = {r.principal} /\ Cardinality({r.principal}) = 1
    BY FS_Singleton
  <2>3. Cardinality({r}) >= o.minCardinality
    BY <1>1, <2>1
  <2>4. Cardinality({s.principal : s \in {r}}) >= o.minPrincipals
    BY <1>1, <2>2
  <2> HIDE DEF o
  <2>5. QED
    BY <1>1, <2>3, <2>4 DEF QuorumMet
<1>6. SetConstraintsHold(o, {r}, Profiles)
  BY <1>1, <1>5 DEF SetConstraintsHold
<1> HIDE DEF o, eligible
<1>7. {r} \in Valid(eligible, o, Profiles, "NEGATIVE")
  BY <1>1, <1>4, <1>6 DEF Valid
<1>8. QED
  BY <1>1, <1>2, <1>7

------------------------------------------------------------------------------
(* The inductive invariant.  A fetch gives an id made of the turn and of   *)
(* the place of the obligation, so what may still be given is a matter of  *)
(* the turn and of the open places.                                        *)
Issued(r) ==
  Len(r.id) = 3 =>
    /\ r.id[2] \in Int
    /\ r.id[2] < turn \/ (r.id[2] = turn /\ phase # "evaluate" /\ r.id[3] \notin open)

WorkInv ==
  /\ TypeOK
  /\ PoolTyped(pool)
  /\ UniqueIds => IdsUnique(pool) /\ \A r \in pool : r.authentic => Issued(r)
  /\ open \subseteq Nat
  /\ phase \in {"evaluate", "fetch"} => turn < MaxTurns /\ basis = {}
  /\ UniqueIds => \A b \in basis :
                   ExpiresInTime(b, certificate.issuedAt, certificate.expiresAt)
  /\ \A b \in basis : Uncontested(b, pool, certificate.issuedAt)

LEMMA WorkInvInit == Init => WorkInv
<1> SUFFICES ASSUME Init PROVE WorkInv
  OBVIOUS
<1>1. Authorizer!AuthorizerTypeOK
  BY GrantsAssumption DEF Init, Authorizer!AuthorizerTypeOK, Authorizer!Grants
<1>2. TypeOK
  BY <1>1, WorkLoopAssumption DEF Init, TypeOK
<1>3. PoolTyped(pool)
      /\ (UniqueIds => IdsUnique(pool) /\ \A r \in pool : r.authentic => Issued(r))
  BY EvidenceAssumption DEF Init, PoolTyped, IdsUnique, Issued
<1>4. QED
  BY <1>2, <1>3, WorkLoopAssumption DEF Init, WorkInv

LEMMA EvaluatePreserves == WorkInv /\ Evaluate => WorkInv'
<1> SUFFICES ASSUME WorkInv, Evaluate PROVE WorkInv'
  OBVIOUS
<1> DEFINE verdict == Evaluated(pool)
           satisfied == SatisfiedOf(Outcomes(proposal, world.view, policy, pool, Context))
<1>1. /\ phase = "evaluate" /\ open = {} /\ basis = {} /\ turn < MaxTurns
      /\ certificate = NoCertificate
  BY DEF WorkInv, TypeOK, Evaluate
<1>2. UNCHANGED <<worldVars, runVars, pool, turn, lastHeld>>
  BY DEF Evaluate
<1>3. policy \in Policies /\ PoolTyped(pool)
  BY DEF WorkInv, TypeOK
<1>4. Context.profiles = Profiles /\ Context.time = now /\ now \in Int
  BY WorkLoopAssumption DEF Context, WorkInv, TypeOK
<1>5. /\ verdict.kind = "PERMIT" =>
           /\ verdict.basis = satisfied
           /\ verdict.certificate.wellFormed = TRUE
           /\ verdict.certificate.issuedAt = now
           /\ verdict.certificate.expiresAt = CertificateExpiry(satisfied, now)
      /\ verdict.kind = "DEFER" =>
           verdict.open # {} /\ verdict.open \subseteq Nat
  <2>1. DOMAIN Obligations(proposal, world.view, policy) \subseteq Nat
    <3>1. PICK n \in Nat : DOMAIN Obligations(proposal, world.view, policy) = 1..n
      BY <1>3, ObligationsTyped
    <3>2. QED
      BY <3>1
  <2> DEFINE v == Evaluation(proposal, world.view, policy, pool, Context)
  <2>2. v.kind = "PERMIT" => PermitOf(v, satisfied, Context.time)
    BY VerdictContents
  <2>3. v.kind = "DEFER" =>
          v.open # {} /\ v.open \subseteq DOMAIN Obligations(proposal, world.view, policy)
    BY VerdictContents
  <2>4. verdict = v
    BY DEF Evaluated
  <2> HIDE DEF verdict, satisfied, v
  <2>5. QED
    BY <1>4, <2>1, <2>2, <2>3, <2>4 DEF PermitOf
<1> DEFINE Permitted == /\ verdict.kind = "PERMIT" /\ phase' = "dispatch"
                        /\ certificate' = verdict.certificate /\ basis' = verdict.basis
                        /\ UNCHANGED open
           Deferred == /\ verdict.kind = "DEFER" /\ phase' = "fetch" /\ open' = verdict.open
                       /\ UNCHANGED <<certificate, basis>>
           Ended == /\ phase' \in {"thrown", "closed"} /\ UNCHANGED <<open, certificate, basis>>
<1>6. Permitted \/ Deferred \/ Ended
  BY DEF Evaluate
<1> HIDE DEF verdict
<1>7. TypeOK'
  <2>1. Authorizer!AuthorizerTypeOK'
    BY <1>2 DEF WorkInv, TypeOK, Authorizer!AuthorizerTypeOK, worldVars
  <2>2. /\ now' \in 0..MaxTime /\ moves' \in 0..MaxMoves /\ world' \in Worlds
        /\ policy' \in Policies /\ proposal' \in Proposals /\ faults' \in FaultSets
        /\ turn' \in 0..MaxTurns
    BY <1>2 DEF WorkInv, TypeOK, worldVars, runVars
  <2>3. CASE Permitted
    <3>1. certificate' # NoCertificate
      BY <1>5, <2>3 DEF NoCertificate
    <3>2. QED
      BY <1>1, <2>1, <2>2, <2>3, <3>1 DEF TypeOK
  <2>4. CASE Deferred
    BY <1>1, <1>5, <2>1, <2>2, <2>4 DEF TypeOK
  <2>5. CASE Ended
    BY <1>1, <2>1, <2>2, <2>5 DEF TypeOK
  <2>6. QED
    BY <1>6, <2>3, <2>4, <2>5
<1>8. PoolTyped(pool)' /\ (UniqueIds => IdsUnique(pool)')
  BY <1>2 DEF WorkInv, PoolTyped, IdsUnique
<1>9. UniqueIds => \A r \in pool' : r.authentic => Issued(r)'
  <2>1. UniqueIds => \A r \in pool : r.authentic /\ Len(r.id) = 3 =>
                      r.id[2] \in Int /\ r.id[2] < turn
    BY <1>1 DEF WorkInv, Issued
  <2>2. QED
    BY <1>2, <2>1 DEF Issued
<1>10. open' \subseteq Nat
  BY <1>1, <1>5, <1>6
<1>11. phase' \in {"evaluate", "fetch"} => turn' < MaxTurns /\ basis' = {}
  BY <1>1, <1>2, <1>6
<1>12. (UniqueIds => \A b \in basis :
                     ExpiresInTime(b, certificate.issuedAt, certificate.expiresAt))'
  <2>1. ASSUME Permitted, UniqueIds, NEW b \in satisfied
        PROVE  ExpiresInTime(b, certificate'.issuedAt, certificate'.expiresAt)
    <3>1. IdsUnique(pool)
      BY <2>1 DEF WorkInv
    <3>2. ExpiresInTime(b, now, CertificateExpiry(satisfied, now))
      BY <1>3, <1>4, <3>1, PermitExpiresInTime
    <3>3. QED
      BY <1>5, <2>1, <3>2
  <2> HIDE DEF satisfied
  <2>2. QED
    BY <1>1, <1>5, <1>6, <2>1
<1>13. (\A b \in basis : Uncontested(b, pool, certificate.issuedAt))'
  <2>1. ASSUME Permitted, NEW b \in satisfied
        PROVE  Uncontested(b, pool', certificate'.issuedAt)
    <3>1. Uncontested(b, pool, now)
      BY <1>3, <1>4, PermitUncontested
    <3>2. QED
      BY <1>2, <1>5, <2>1, <3>1
  <2> HIDE DEF satisfied
  <2>2. QED
    BY <1>1, <1>5, <1>6, <2>1
<1>14. QED
  BY <1>7, <1>8, <1>9, <1>10, <1>11, <1>12, <1>13 DEF WorkInv

LEMMA FetchPreserves == WorkInv /\ Fetch => WorkInv'
<1> SUFFICES ASSUME WorkInv, Fetch PROVE WorkInv'
  OBVIOUS
<1> DEFINE place == Min(open)
<1>1. /\ phase = "fetch" /\ open # {} /\ open \subseteq Nat /\ basis = {}
      /\ turn \in Nat /\ turn < MaxTurns /\ certificate = NoCertificate
      /\ now \in Int /\ MaxTurns \in Nat
  BY WorkLoopAssumption DEF WorkInv, TypeOK, Fetch
<1>2. UNCHANGED <<worldVars, runVars, certificate, basis, lastHeld>> /\ open' = open \ {place}
  BY DEF Fetch
<1>3. place \in open
  BY <1>1, MinOfBounded
<1>4. \/ open' # {} /\ phase' = phase /\ turn' = turn
      \/ /\ open' = {} /\ turn' = turn + 1
         /\ phase' = IF turn' < MaxTurns THEN "evaluate" ELSE "closed"
  BY DEF Fetch
<1>5. \/ pool' = pool
      \/ \E receipt : /\ pool' = pool \cup {receipt}
                      /\ receipt.observedAt = now
                      /\ UniqueIds => \E source : receipt.id = <<source, turn, place>>
  <2>1. ASSUME NEW s, NEW receipt \in Reports(s)
        PROVE  /\ receipt.observedAt = now
               /\ UniqueIds => receipt.id = <<s.source, turn, place>>
    <3> DEFINE Receipt(claim) ==
          [ id |-> IF UniqueIds THEN <<s.source, turn, Min(open)>>
                   ELSE <<Cardinality({r \in pool : r.source = s.source})>>,
            source |-> s.source, class |-> s.class, scope |-> s.scope,
            principal |-> s.principal, authentic |-> TRUE,
            version |-> world.view.observedVersion, observedAt |-> now, claim |-> claim ]
    <3>1. \A claim : /\ Receipt(claim).observedAt = now
                    /\ UniqueIds => Receipt(claim).id = <<s.source, turn, place>>
      OBVIOUS
    <3>2. \/ receipt = Receipt([f \in s.fields |-> world.facts[f]])
          \/ \E lie \in Lies : receipt = Receipt([f \in s.fields |-> lie[f]])
      BY <2>1 DEF Reports
    <3>3. \E claim : receipt = Receipt(claim)
      <4> HIDE DEF Receipt
      <4>1. QED
        BY <3>2
    <3>4. PICK claim : receipt = Receipt(claim)
      BY <3>3
    <3>5. /\ Receipt(claim).observedAt = now
          /\ UniqueIds => Receipt(claim).id = <<s.source, turn, place>>
      BY <3>1
    <3> HIDE DEF Receipt
    <3>6. QED
      BY <3>4, <3>5
  <2>2. CASE pool' = pool
    BY <2>2
  <2>3. CASE \E s \in SensorsFor[policy.rules[Min(open)].id] :
               \E receipt \in Reports(s) : pool' = pool \cup {receipt}
    <3>1. PICK s \in SensorsFor[policy.rules[Min(open)].id] :
            \E receipt \in Reports(s) : pool' = pool \cup {receipt}
      BY <2>3
    <3>2. PICK receipt \in Reports(s) : pool' = pool \cup {receipt}
      BY <3>1
    <3> HIDE DEF place
    <3>3. QED
      BY <2>1, <3>2
  <2>4. QED
    BY <2>2, <2>3 DEF Fetch
<1> HIDE DEF place
<1>6. TypeOK'
  <2>1. Authorizer!AuthorizerTypeOK'
    BY <1>2 DEF WorkInv, TypeOK, Authorizer!AuthorizerTypeOK, worldVars
  <2>2. QED
    BY <1>1, <1>2, <1>4, <2>1 DEF WorkInv, TypeOK, worldVars, runVars
<1>7. PoolTyped(pool)'
  BY <1>1, <1>5, FS_AddElement DEF WorkInv, PoolTyped
<1>8. ASSUME UniqueIds PROVE (IdsUnique(pool) /\ \A r \in pool : r.authentic => Issued(r))'
  <2>1. \A r \in pool : r.authentic /\ Len(r.id) = 3 =>
          /\ r.id[2] \in Int
          /\ r.id[2] < turn \/ (r.id[2] = turn /\ r.id[3] \notin open)
    BY <1>8 DEF WorkInv, Issued
  <2>2. IdsUnique(pool)
    BY <1>8 DEF WorkInv
  <2>3. \A r \in pool : r.authentic => Issued(r)'
    BY <1>1, <1>2, <1>4, <2>1 DEF Issued
  <2>4. CASE pool' = pool
    BY <2>2, <2>3, <2>4 DEF IdsUnique
  <2>5. ASSUME NEW receipt, NEW source, pool' = pool \cup {receipt},
               receipt.id = <<source, turn, place>>
        PROVE  (IdsUnique(pool) /\ \A r \in pool : r.authentic => Issued(r))'
    <3>1. Len(receipt.id) = 3 /\ receipt.id[2] = turn /\ receipt.id[3] = place
      BY <2>5
    <3>2. \A r \in pool : r.authentic => r.id # receipt.id
      BY <1>1, <1>3, <2>1, <3>1
    <3>3. IdsUnique(pool)'
      BY <2>2, <2>5, <3>2 DEF IdsUnique
    <3>4. Issued(receipt)'
      BY <1>1, <1>2, <1>4, <3>1 DEF Issued
    <3>5. QED
      BY <2>3, <2>5, <3>3, <3>4
  <2>6. QED
    BY <1>5, <1>8, <2>4, <2>5
<1>9. open' \subseteq Nat
  BY <1>1, <1>2
<1>10. (phase \in {"evaluate", "fetch"} => turn < MaxTurns /\ basis = {})'
  BY <1>1, <1>2, <1>4
<1>11. basis' = {}
  BY <1>1, <1>2
<1>12. QED
  BY <1>6, <1>7, <1>8, <1>9, <1>10, <1>11 DEF WorkInv

(* A step that leaves pool, certificate and basis as they are, and may     *)
(* only end the search for evidence, keeps what is known of them.          *)
LEMMA EvidenceKept ==
  ASSUME WorkInv, TypeOK', UNCHANGED <<pool, turn, open, certificate, basis>>,
         phase' = phase \/ phase' \in {"executed", "blocked"}
  PROVE  WorkInv'
<1>1. PoolTyped(pool)' /\ (UniqueIds => IdsUnique(pool)')
  BY DEF WorkInv, PoolTyped, IdsUnique
<1>2. UniqueIds => \A r \in pool' : r.authentic => Issued(r)'
  BY DEF WorkInv, Issued
<1>3. (phase \in {"evaluate", "fetch"} => turn < MaxTurns /\ basis = {})'
  BY DEF WorkInv
<1>4. (UniqueIds => \A b \in basis :
                    ExpiresInTime(b, certificate.issuedAt, certificate.expiresAt))'
  BY DEF WorkInv
<1>5. (\A b \in basis : Uncontested(b, pool, certificate.issuedAt))'
  BY DEF WorkInv
<1>6. QED
  BY <1>1, <1>2, <1>3, <1>4, <1>5 DEF WorkInv

LEMMA WorkInvStep == WorkInv /\ [Next]_vars => WorkInv'
<1> SUFFICES ASSUME WorkInv, [Next]_vars PROVE WorkInv'
  OBVIOUS
<1>1. CASE Evaluate
  BY <1>1, EvaluatePreserves
<1>2. CASE Fetch
  BY <1>2, FetchPreserves
<1>3. CASE Dispatch
  <2>1. Authorizer!AuthorizerTypeOK'
    BY <1>3 DEF WorkInv, TypeOK, Authorizer!AuthorizerTypeOK, Dispatch, worldVars
  <2>2. TypeOK'
    BY <1>3, <2>1 DEF WorkInv, TypeOK, Dispatch, worldVars, runVars
  <2>3. QED
    BY <1>3, <2>2, EvidenceKept DEF Dispatch
<1>4. CASE Moves
  <2>1. Authorizer!AuthorizerTypeOK'
    <3>1. CASE UNCHANGED allowed
      BY <3>1 DEF WorkInv, TypeOK, Authorizer!AuthorizerTypeOK
    <3>2. CASE Authorizer!RevokePrincipal(proposal.principal)
      BY <3>2 DEF WorkInv, TypeOK, Authorizer!AuthorizerTypeOK, Authorizer!RevokePrincipal
    <3>3. QED
      BY <1>4, <3>1, <3>2 DEF Moves
  <2>2. now' \in 0..MaxTime /\ moves' \in 0..MaxMoves /\ world' \in Worlds
    BY <1>4, WorkLoopAssumption DEF WorkInv, TypeOK, Moves
  <2>3. UNCHANGED <<runVars, pool, turn, phase, open, certificate, basis>>
    BY <1>4 DEF Moves
  <2>4. TypeOK'
    BY <2>1, <2>2, <2>3 DEF WorkInv, TypeOK, runVars
  <2>5. QED
    BY <2>3, <2>4, EvidenceKept
<1>5. CASE UNCHANGED vars
  <2>1. Authorizer!AuthorizerTypeOK'
    BY <1>5 DEF WorkInv, TypeOK, Authorizer!AuthorizerTypeOK, vars, worldVars
  <2>2. TypeOK'
    BY <1>5, <2>1 DEF WorkInv, TypeOK, vars, worldVars, runVars
  <2>3. QED
    BY <1>5, <2>2, EvidenceKept DEF vars
<1>6. QED
  BY <1>1, <1>2, <1>3, <1>4, <1>5 DEF Next

------------------------------------------------------------------------------
(* The variables keep their types; the loop never passes its turns.        *)
THEOREM WorkLoopTyped == Spec => []TypeOK
<1>1. WorkInv => TypeOK
  BY DEF WorkInv
<1>2. QED
  BY WorkInvInit, WorkInvStep, <1>1, PTL DEF Spec

(* Where receipt ids are unique, no certificate outlives a receipt it      *)
(* rests on: computeWitnessExpiration is the bound manifest.ts promises.   *)
THEOREM CertificatesDieWithTheirEvidence ==
  Spec => [](UniqueIds => CertificateWithinWitness)
<1>1. WorkInv => (UniqueIds => CertificateWithinWitness)
  BY DEF WorkInv, ExpiresInTime, CertificateWithinWitness
<1>2. QED
  BY WorkInvInit, WorkInvStep, <1>1, PTL DEF Spec

(* Whatever sources say in whichever order, nothing is certified that a    *)
(* fresh authentic reading of a source as good contradicts.                *)
THEOREM NothingContestedIsCertified == Spec => []UncontestedWhenIssued
<1>1. WorkInv => UncontestedWhenIssued
  BY DEF WorkInv, Uncontested, UncontestedWhenIssued
<1>2. QED
  BY WorkInvInit, WorkInvStep, <1>1, PTL DEF Spec

------------------------------------------------------------------------------
(* What is executed was true.                                              *)

(* An honest sensor that attests to a rule reports a target of which it    *)
(* holds, and knows every field the rule is about.                         *)
LEMMA HonestAttests ==
  ASSUME NEW w, NEW fields, fields \subseteq DOMAIN w.facts, NEW o,
         Entailment([f \in fields |-> w.facts[f]], o) = "POSITIVE"
  PROVE  Holds(o, w)
<1> DEFINE claim == [f \in fields |-> w.facts[f]]
           Reported(c) == c.field \in DOMAIN claim /\ claim[c.field] \in c.typed
<1>1. /\ o.predicate # {}
      /\ \A c \in o.predicate : Reported(c) /\ c.comparable /\ claim[c.field] \in c.holds
  BY DEF Entailment
<1>2. \A c \in o.predicate : /\ c.field \in DOMAIN w.facts /\ w.facts[c.field] \in c.typed
                             /\ c.comparable /\ w.facts[c.field] \in c.holds
  BY <1>1
<1>3. QED
  BY <1>1, <1>2 DEF Holds, Entailment

LEMMA AttestedFields ==
  ASSUME NEW claim, NEW o, Entailment(claim, o) = "POSITIVE"
  PROVE  {c.field : c \in o.predicate} \subseteq DOMAIN claim
BY DEF Entailment

(* Fewer faults than the cut leave a verifier of the panel untouched.      *)
LEMMA CutLeavesOneHonest ==
  ASSUME NEW profile, IsFiniteSet(profile.faults),
         profile.type \in {"ALL_OF", "K_OF_N", "EXPLICIT"},
         NEW participating, NEW F, IsFiniteSet(F), NEW minCut \in Nat,
         Cardinality(F) < minCut, KappaE(participating, profile) >= minCut
  PROVE  \E v \in participating : F \cap profile.exposures[v] \cap profile.faults = {}
<1> DEFINE coalitions == DecisiveCoalitions(participating, profile)
           toHit(c) == {profile.exposures[v] \cap profile.faults : v \in c}
           hitting(c) == {G \in SUBSET profile.faults : \A s \in toHit(c) : G \cap s # {}}
           cuts == MinimumFaultCuts(participating, profile)
           cut == CHOOSE x \in cuts : TRUE
           active == F \cap profile.faults
<1>1. Cardinality(F) \in Nat /\ Cardinality(active) \in Nat
      /\ Cardinality(active) <= Cardinality(F)
  <2>1. IsFiniteSet(active) /\ Cardinality(active) <= Cardinality(F)
    BY FS_Subset
  <2>2. QED
    BY <2>1, FS_CardinalityType
<1>2. cuts # {} /\ KappaE(participating, profile) = Cardinality(cut)
  BY <1>1 DEF KappaE
<1>3. cuts \subseteq UNION {Smallest(hitting(c)) : c \in coalitions}
  BY DEF MinimumFaultCuts, MinimumHittingSets, Smallest
<1> HIDE DEF cuts, coalitions, toHit
<1>4. cut \in cuts
  BY <1>2
<1> HIDE DEF cut
<1>5. PICK c \in coalitions : cut \in Smallest(hitting(c))
  BY <1>3, <1>4
<1>6. c \subseteq participating
  BY <1>5 DEF coalitions, DecisiveCoalitions
<1>7. ~(Cardinality(cut) <= Cardinality(active))
  <2>1. cut \in SUBSET profile.faults
    BY <1>5 DEF Smallest
  <2>2. Cardinality(cut) \in Nat
    BY <2>1, FS_Subset, FS_CardinalityType
  <2> HIDE DEF active
  <2>3. QED
    BY <1>1, <1>2, <2>2
<1>8. active \notin hitting(c)
  BY <1>5, <1>7 DEF Smallest
<1>9. PICK s \in toHit(c) : active \cap s = {}
  BY <1>8
<1>10. PICK v \in c : s = profile.exposures[v] \cap profile.faults
  BY <1>9 DEF toHit
<1>11. QED
  BY <1>6, <1>9, <1>10

(* The rules of a policy keep their places, bound to the proposal's scope; *)
(* the one obligation that may follow them is human approval.              *)
LEMMA ObligationsByPlace ==
  ASSUME NEW p, NEW view, NEW rules \in Policies
  PROVE  LET obligations == Obligations(p, view, rules) IN
           /\ DOMAIN rules.rules \subseteq DOMAIN obligations
           /\ \A i \in DOMAIN rules.rules :
                obligations[i] = [rules.rules[i] EXCEPT !.scope = p.scope]
           /\ \A i \in DOMAIN obligations \ DOMAIN rules.rules :
                obligations[i].kind = "DUAL_CONTROL"
<1> DEFINE bound == [i \in DOMAIN rules.rules |-> [rules.rules[i] EXCEPT !.scope = p.scope]]
           approval == HumanApproval(p.scope)
           n == Len(rules.rules)
<1>1. n \in Nat /\ DOMAIN rules.rules = 1..n
  BY PolicyAssumption
<1>2. /\ DOMAIN bound = 1..n
      /\ \A i \in 1..n : bound[i] = [rules.rules[i] EXCEPT !.scope = p.scope]
      /\ bound \in Seq({bound[i] : i \in 1..n}) /\ Len(bound) = n
  <2>1. DOMAIN bound = 1..n /\ bound = [i \in 1..n |-> bound[i]]
        /\ \A i \in 1..n : bound[i] = [rules.rules[i] EXCEPT !.scope = p.scope]
    BY <1>1
  <2> HIDE DEF bound, n
  <2> DEFINE values == {bound[j] : j \in 1..n}
  <2>2. \A i \in 1..n : bound[i] \in values
    OBVIOUS
  <2> HIDE DEF values
  <2>3. bound \in Seq(values)
    BY <1>1, <2>1, <2>2
  <2>4. Len(bound) = n
    BY <1>1, <2>1, <2>3
  <2>5. QED
    BY <2>1, <2>3, <2>4 DEF values
<1>3. approval.kind = "DUAL_CONTROL"
  BY DEF HumanApproval
<1>4. Obligations(p, view, rules) \in {bound, Append(bound, approval)}
  BY DEF Obligations
<1> HIDE DEF bound, approval, n
<1>5. CASE Obligations(p, view, rules) = bound
  BY <1>1, <1>2, <1>5
<1>6. CASE Obligations(p, view, rules) = Append(bound, approval)
  <2>1. /\ DOMAIN Append(bound, approval) = 1..(n + 1)
        /\ \A i \in 1..n : Append(bound, approval)[i] = bound[i]
        /\ Append(bound, approval)[n + 1] = approval
    BY <1>1, <1>2
  <2>2. 1..n \subseteq 1..(n + 1) /\ \A i \in 1..(n + 1) : i \in 1..n \/ i = n + 1
    BY <1>1
  <2>3. QED
    BY <1>1, <1>2, <1>3, <1>6, <2>1, <2>2
<1>7. QED
  BY <1>4, <1>5, <1>6

(* A rule as bound and the rule itself agree on all but the scope.         *)
Agree(b, o) ==
  /\ b.required = o.required /\ b.classes = o.classes /\ b.predicate = o.predicate
  /\ b.efd = o.efd /\ b.maxFreshness = o.maxFreshness

LEMMA BoundAgrees ==
  ASSUME NEW rules \in Policies, NEW i \in DOMAIN rules.rules, NEW scope
  PROVE  Agree([rules.rules[i] EXCEPT !.scope = scope], rules.rules[i])
<1>1. {"required", "classes", "predicate", "efd", "maxFreshness"} \subseteq DOMAIN rules.rules[i]
  BY PolicyAssumption
<1>2. QED
  BY <1>1 DEF Agree

LEMMA DischargeKinds ==
  ASSUME NEW o, NEW evidence, NEW view, NEW time, NEW profiles
  PROVE  Discharge(o, evidence, view, time, profiles).kind \in {"SATISFIED", "VIOLATED", "UNKNOWN"}
BY DEF Discharge, DischargeFrom, Unknown

(* A permit has every required rule discharged; a deferral leaves nothing  *)
(* open but rules.                                                         *)
LEMMA VerdictRules ==
  ASSUME NEW p, NEW view, NEW rules \in Policies, NEW evidence, NEW context
  PROVE  LET verdict == Evaluation(p, view, rules, evidence, context)
             satisfied == SatisfiedOf(Outcomes(p, view, rules, evidence, context))
         IN  /\ verdict.kind = "PERMIT" =>
                  \A i \in DOMAIN rules.rules : rules.rules[i].required =>
                    \E b \in satisfied : Agree(b.obligation, rules.rules[i])
             /\ verdict.kind = "DEFER" => verdict.open \subseteq DOMAIN rules.rules
<1> DEFINE verdict == Evaluation(p, view, rules, evidence, context)
           outcomes == Outcomes(p, view, rules, evidence, context)
           obligations == Obligations(p, view, rules)
           decided == Admission(p, view, rules, context, outcomes)
           Of(kind) == {x \in outcomes : x.obligation.required /\ x.kind = kind}
<1>1. verdict.kind \in {"PERMIT", "DEFER"} => verdict = decided
  BY EvaluationForm DEF Verdict
<1>2. \A x \in outcomes : /\ x.index \in DOMAIN obligations
                          /\ x.obligation = obligations[x.index]
                          /\ x.kind \in {"SATISFIED", "VIOLATED", "UNKNOWN"}
  BY DischargeKinds DEF Outcomes
<1>3. \A i \in DOMAIN obligations : \E x \in outcomes : x.index = i
  <2>1. TAKE i \in DOMAIN obligations
  <2> DEFINE result == Discharge(obligations[i], evidence, view, context.time, context.profiles)
             x == [ index |-> i, obligation |-> obligations[i],
                    kind |-> result.kind, witness |-> result.witness ]
  <2>2. x \in outcomes
    BY DEF Outcomes
  <2>3. x.index = i
    OBVIOUS
  <2> HIDE DEF x, outcomes
  <2>4. QED
    BY <2>2, <2>3
<1>4. /\ DOMAIN rules.rules \subseteq DOMAIN obligations
      /\ \A i \in DOMAIN rules.rules :
           obligations[i] = [rules.rules[i] EXCEPT !.scope = p.scope]
      /\ \A i \in DOMAIN obligations \ DOMAIN rules.rules : obligations[i].kind = "DUAL_CONTROL"
  BY ObligationsByPlace
<1>5. decided.kind = "PERMIT" => Of("VIOLATED") = {} /\ Of("UNKNOWN") = {}
  BY DEF Admission, Verdict
<1>6. decided.kind = "DEFER" =>
        /\ decided.open = {x.index : x \in Of("UNKNOWN")}
        /\ \A x \in Of("UNKNOWN") : x.obligation.kind # "DUAL_CONTROL"
  BY DEF Admission, Verdict
<1> HIDE DEF outcomes, obligations, decided, verdict
<1>7. ASSUME verdict.kind = "PERMIT", NEW i \in DOMAIN rules.rules, rules.rules[i].required
      PROVE  \E b \in SatisfiedOf(outcomes) : Agree(b.obligation, rules.rules[i])
  <2>1. PICK x \in outcomes : x.index = i
    BY <1>3, <1>4
  <2>2. Agree(x.obligation, rules.rules[i])
    <3>1. x.obligation = [rules.rules[i] EXCEPT !.scope = p.scope]
      BY <1>2, <1>4, <2>1, Zenon
    <3>2. Agree([rules.rules[i] EXCEPT !.scope = p.scope], rules.rules[i])
      BY BoundAgrees, Zenon
    <3>3. QED
      BY <3>1, <3>2, Zenon
  <2>3. x.obligation.required
    BY <1>7, <2>2 DEF Agree
  <2>4. x.kind = "SATISFIED"
    BY <1>1, <1>2, <1>5, <1>7, <2>1, <2>3
  <2>5. QED
    BY <2>1, <2>2, <2>3, <2>4 DEF SatisfiedOf
<1>8. ASSUME verdict.kind = "DEFER" PROVE verdict.open \subseteq DOMAIN rules.rules
  BY <1>1, <1>2, <1>4, <1>6, <1>8
<1>9. QED
  BY <1>7, <1>8 DEF verdict, outcomes

(* An obligation some of whose sensors lie may have been misreported by    *)
(* the source of a receipt.                                                *)
MayLie(source, o) ==
  \E s \in SensorsFor[o.id] : s.source = source /\ s.exposures \cap faults # {}

(* What a receipt attests to has held since it was observed, if its        *)
(* source does not lie.                                                    *)
Attested(r, i) ==
  LET o == policy.rules[i] IN
    r.class \in o.classes /\ Entailment(r.claim, o) = "POSITIVE" =>
      r.observedAt <= lastHeld[i] \/ MayLie(r.source, o)

(* The history remembers when a rule last held.                            *)
Remembered ==
  /\ DOMAIN lastHeld = DOMAIN policy.rules
  /\ \A i \in DOMAIN policy.rules :
       /\ lastHeld[i] \in Int /\ lastHeld[i] <= now
       /\ Holds(policy.rules[i], world) => lastHeld[i] = now

(* A certificate expires before what it rests on has been untrue for too   *)
(* long.                                                                   *)
Covered ==
  \A i \in DOMAIN policy.rules :
    policy.rules[i].required /\ Unforged(policy.rules[i]) =>
      /\ certificate.expiresAt \in Int
      /\ certificate.expiresAt <= lastHeld[i] + policy.rules[i].maxFreshness

TruthInv ==
  /\ WorkInv
  /\ Remembered
  /\ open \subseteq DOMAIN policy.rules
  /\ \A r \in pool : r.authentic => \A i \in DOMAIN policy.rules : Attested(r, i)
  /\ UniqueIds /\ phase \in {"dispatch", "executed"} => Covered
  /\ UniqueIds /\ phase = "executed" => now <= certificate.expiresAt

LEMMA SamePredicate ==
  ASSUME NEW claim, NEW b, NEW o, Agree(b, o)
  PROVE  Entailment(claim, b) = Entailment(claim, o)
BY DEF Entailment, Agree

(* A discharged obligation whose cut outlasts the active faults rests on a *)
(* receipt of a source that does not lie.                                  *)
LEMMA WitnessSpeaks ==
  ASSUME NEW p, NEW view, policy \in Policies, PoolTyped(pool), faults \in FaultSets,
         NEW context, context.profiles = Profiles,
         NEW b \in SatisfiedOf(Outcomes(p, view, policy, pool, context)),
         NEW i \in DOMAIN policy.rules, Agree(b.obligation, policy.rules[i]),
         Unforged(policy.rules[i])
  PROVE  \E r \in b.witness :
           /\ r \in pool /\ r.authentic /\ r.class \in policy.rules[i].classes
           /\ Entailment(r.claim, policy.rules[i]) = "POSITIVE"
           /\ ~MayLie(r.source, policy.rules[i])
<1> DEFINE o == policy.rules[i]
           eligible == EligibleOf(pool, b.obligation, view, context.time)
<1>1. b.witness \in Valid(eligible, b.obligation, Profiles, "POSITIVE")
  BY SatisfiedOutcome
<1>2. /\ b.witness # {} /\ b.witness \subseteq eligible
      /\ \A r \in b.witness : Entailment(r.claim, b.obligation) = "POSITIVE"
      /\ \A requirement \in b.obligation.efd : ResilientTo(requirement, b.witness, Profiles)
  BY <1>1 DEF Valid, SetConstraintsHold
<1>3. b.obligation.efd = o.efd /\ b.obligation.classes = o.classes
      /\ \A claim : Entailment(claim, b.obligation) = Entailment(claim, o)
  BY SamePredicate DEF Agree
<1>4. \A r \in b.witness : /\ r \in pool /\ r.authentic /\ r.class \in o.classes
                           /\ Entailment(r.claim, o) = "POSITIVE"
  BY <1>2, <1>3 DEF EligibleOf, Eligible
<1>5. CASE \A s \in SensorsFor[o.id] : s.exposures \cap faults = {}
  BY <1>2, <1>4, <1>5 DEF MayLie
<1>6. CASE \E requirement \in o.efd : Cardinality(faults) < requirement.minCut
  <2>1. PICK requirement \in o.efd : Cardinality(faults) < requirement.minCut
    BY <1>6
  <2> DEFINE profile == Profiles[requirement.profile]
             participating == Participating(b.witness, profile)
  <2>2. ResilientTo(requirement, b.witness, Profiles)
    BY <1>2, <1>3, <2>1
  <2>3. /\ requirement.profile \in DOMAIN Profiles /\ ProfileValid(profile)
        /\ \A r \in b.witness : r.source \in DOMAIN profile.verifierOf
        /\ KappaE(participating, profile) >= requirement.minCut
    BY <2>2 DEF ResilientTo, Bound
  <2>4. /\ IsFiniteSet(profile.faults) /\ profile.type \in {"ALL_OF", "K_OF_N", "EXPLICIT"}
        /\ requirement.minCut \in Nat
    BY <2>1, <2>3, PolicyAssumption
  <2>5. IsFiniteSet(faults)
    BY TruthAssumption
  <2>6. \A s \in SensorsFor[o.id] : s.source \in DOMAIN profile.verifierOf =>
          LET verifier == profile.verifierOf[s.source] IN
            /\ verifier \in DOMAIN profile.exposures
            /\ s.exposures \subseteq profile.exposures[verifier]
    BY <2>1, <2>3, TruthAssumption
  <2> HIDE DEF profile, o
  <2>7. PICK v \in participating : faults \cap profile.exposures[v] \cap profile.faults = {}
    BY <2>1, <2>3, <2>4, <2>5, CutLeavesOneHonest
  <2>8. PICK r \in b.witness : v = profile.verifierOf[r.source]
    BY <2>7 DEF Participating
  <2>9. ~MayLie(r.source, o)
    <3>1. SUFFICES ASSUME NEW s \in SensorsFor[o.id], s.source = r.source,
                          s.exposures \cap faults # {}
                   PROVE  FALSE
      BY DEF MayLie
    <3>2. v \in DOMAIN profile.exposures /\ s.exposures \subseteq profile.exposures[v]
      BY <2>3, <2>6, <2>8, <3>1
    <3>3. profile.exposures[v] \subseteq profile.faults
      BY <2>3, <3>2 DEF ProfileValid
    <3>4. QED
      BY <2>7, <3>1, <3>2, <3>3
  <2>10. QED
    BY <1>4, <2>8, <2>9 DEF o
<1>7. QED
  BY <1>5, <1>6 DEF Unforged

(* What a sensor reports on a fetch, it attests to truly unless it lies.   *)
LEMMA ReportsAttest ==
  ASSUME policy \in Policies, world \in Worlds, Remembered, now \in Int,
         NEW j \in DOMAIN policy.rules, NEW s \in SensorsFor[policy.rules[j].id],
         NEW r \in Reports(s), NEW i \in DOMAIN policy.rules
  PROVE  Attested(r, i)
<1> DEFINE o == policy.rules[i]
           honest == [f \in s.fields |-> world.facts[f]]
<1>1. /\ r.source = s.source /\ r.class = s.class /\ r.observedAt = now
      /\ DOMAIN r.claim = s.fields
      /\ s.exposures \cap faults = {} => r.claim = honest
  <2> DEFINE Receipt(claim) ==
        [ id |-> IF UniqueIds THEN <<s.source, turn, Min(open)>>
                 ELSE <<Cardinality({q \in pool : q.source = s.source})>>,
          source |-> s.source, class |-> s.class, scope |-> s.scope,
          principal |-> s.principal, authentic |-> TRUE,
          version |-> world.view.observedVersion, observedAt |-> now, claim |-> claim ]
      Lie(lie) == [f \in s.fields |-> lie[f]]
  <2>1. \A claim : /\ Receipt(claim).source = s.source /\ Receipt(claim).class = s.class
                  /\ Receipt(claim).observedAt = now /\ Receipt(claim).claim = claim
    OBVIOUS
  <2>2. IF s.exposures \cap faults = {} THEN r = Receipt(honest)
        ELSE \E lie \in Lies : r = Receipt(Lie(lie))
    BY DEF Reports
  <2>3. DOMAIN honest = s.fields /\ \A lie : DOMAIN Lie(lie) = s.fields
    OBVIOUS
  <2> HIDE DEF Receipt, Lie, honest
  <2>4. CASE s.exposures \cap faults = {}
    BY <2>1, <2>2, <2>3, <2>4
  <2>5. CASE s.exposures \cap faults # {}
    <3>1. PICK lie \in Lies : r = Receipt(Lie(lie))
      BY <2>2, <2>5
    <3>2. QED
      BY <2>1, <2>3, <2>5, <3>1
  <2>6. QED
    BY <2>4, <2>5
<1>2. SUFFICES ASSUME r.class \in o.classes, Entailment(r.claim, o) = "POSITIVE"
               PROVE  r.observedAt <= lastHeld[i] \/ MayLie(r.source, o)
  BY DEF Attested
<1>3. s \in SensorsFor[o.id]
  <2>1. CanAttest(s, o)
    BY <1>1, <1>2, AttestedFields DEF CanAttest
  <2>2. QED
    BY <2>1, TruthAssumption
<1>4. CASE s.exposures \cap faults # {}
  BY <1>1, <1>3, <1>4 DEF MayLie
<1>5. CASE s.exposures \cap faults = {}
  <2>1. s.fields \subseteq DOMAIN world.facts
    BY TruthAssumption
  <2>2. Holds(o, world)
    <3>1. Entailment(honest, o) = "POSITIVE"
      BY <1>1, <1>2, <1>5
    <3>2. QED
      BY <2>1, <3>1, HonestAttests
  <2>3. lastHeld[i] = now
    BY <2>2 DEF Remembered
  <2>4. QED
    BY <1>1, <2>3
<1>6. QED
  BY <1>4, <1>5

LEMMA TruthInvInit == Init => TruthInv
<1> SUFFICES ASSUME Init PROVE TruthInv
  OBVIOUS
<1>1. WorkInv /\ now = 0 /\ Never \in Int /\ Never <= 0
  BY WorkInvInit, WorkLoopAssumption DEF Init, Never
<1>2. lastHeld = [i \in DOMAIN policy.rules |->
                    IF Holds(policy.rules[i], world) THEN 0 ELSE Never]
  <2>1. lastHeld = HeldNow(world, 0, [i \in DOMAIN policy.rules |-> Never])
    BY <1>1 DEF Init
  <2>2. QED
    BY <2>1 DEF HeldNow
<1>3. Remembered
  BY <1>1, <1>2 DEF Remembered
<1>4. ASSUME NEW r \in pool, r.authentic, NEW i \in DOMAIN policy.rules
      PROVE  Attested(r, i)
  <2>1. SUFFICES ASSUME r.class \in policy.rules[i].classes,
                        Entailment(r.claim, policy.rules[i]) = "POSITIVE"
                 PROVE  r.observedAt <= lastHeld[i]
    BY DEF Attested
  <2>2. policy \in Policies /\ world \in Worlds /\ pool \in InitialPools[world]
    BY DEF Init
  <2>3. r.observedAt <= 0 /\ Holds(policy.rules[i], world)
    BY <1>4, <2>1, <2>2, TruthAssumption
  <2>4. QED
    BY <1>2, <2>3
<1>5. open = {} /\ phase = "evaluate"
  BY DEF Init
<1>6. QED
  BY <1>1, <1>3, <1>4, <1>5 DEF TruthInv

(* A permit covers every required rule that the active faults cannot have  *)
(* forged.                                                                 *)
LEMMA PermitCovers ==
  ASSUME TruthInv, UniqueIds, NEW satisfied,
         satisfied = SatisfiedOf(Outcomes(proposal, world.view, policy, pool, Context)),
         Evaluated(pool).kind = "PERMIT",
         NEW i \in DOMAIN policy.rules, policy.rules[i].required, Unforged(policy.rules[i])
  PROVE  LET expiry == CertificateExpiry(satisfied, now) IN
           expiry \in Int /\ expiry <= lastHeld[i] + policy.rules[i].maxFreshness
<1> DEFINE o == policy.rules[i]
           expiry == CertificateExpiry(satisfied, now)
<1>1. /\ policy \in Policies /\ faults \in FaultSets /\ PoolTyped(pool) /\ IdsUnique(pool)
      /\ Context.profiles = Profiles /\ Context.time = now /\ now \in Int
  BY WorkLoopAssumption DEF TruthInv, WorkInv, TypeOK, Context
<1>2. PICK b \in satisfied : Agree(b.obligation, o)
  <2> HIDE DEF o
  <2>1. Evaluation(proposal, world.view, policy, pool, Context).kind = "PERMIT"
    BY DEF Evaluated
  <2>2. \E b \in SatisfiedOf(Outcomes(proposal, world.view, policy, pool, Context)) :
          Agree(b.obligation, policy.rules[i])
    BY <1>1, <2>1, VerdictRules
  <2>3. QED
    BY <2>2 DEF o
<1>3. ExpiresInTime(b, now, expiry)
  BY <1>1, <1>2, PermitExpiresInTime
<1>4. PICK r \in b.witness :
        /\ r \in pool /\ r.authentic /\ r.class \in o.classes
        /\ Entailment(r.claim, o) = "POSITIVE" /\ ~MayLie(r.source, o)
  BY <1>1, <1>2, WitnessSpeaks
<1>5. r.observedAt <= lastHeld[i] /\ r.observedAt \in Int /\ lastHeld[i] \in Int
  BY <1>1, <1>4 DEF TruthInv, Attested, PoolTyped, Remembered
<1>6. b.obligation.maxFreshness = o.maxFreshness /\ o.maxFreshness \in Nat
  BY <1>1, <1>2, PolicyAssumption DEF Agree
<1> HIDE DEF o, expiry
<1>7. expiry \in Int /\ expiry <= r.observedAt + o.maxFreshness
  BY <1>3, <1>4, <1>6 DEF ExpiresInTime
<1>8. QED
  BY <1>5, <1>6, <1>7 DEF o, expiry

(* Whatever moves the target, what is remembered only grows.               *)
LEMMA HistoryGrows ==
  ASSUME Remembered, UNCHANGED policy, now \in Int, now' \in Int, now <= now',
         lastHeld' = HeldNow(world', now', lastHeld)
  PROVE  Remembered' /\ \A i \in DOMAIN policy.rules : lastHeld[i] <= lastHeld'[i]
<1>1. lastHeld' = [i \in DOMAIN policy.rules |->
                     IF Holds(policy.rules[i], world') THEN now' ELSE lastHeld[i]]
  BY DEF HeldNow
<1>2. ASSUME NEW i \in DOMAIN policy.rules
      PROVE  /\ lastHeld'[i] \in Int /\ lastHeld'[i] <= now' /\ lastHeld[i] <= lastHeld'[i]
             /\ Holds(policy.rules[i], world') => lastHeld'[i] = now'
  <2>1. lastHeld[i] \in Int /\ lastHeld[i] <= now
    BY DEF Remembered
  <2>2. lastHeld'[i] = IF Holds(policy.rules[i], world') THEN now' ELSE lastHeld[i]
    BY <1>1
  <2>3. QED
    BY <2>1, <2>2
<1>3. DOMAIN lastHeld' = DOMAIN policy.rules
  BY <1>1
<1>4. Remembered'
  BY <1>2, <1>3 DEF Remembered
<1>5. QED
  BY <1>2, <1>4

LEMMA TruthInvStep == TruthInv /\ [Next]_vars => TruthInv'
<1> SUFFICES ASSUME TruthInv, [Next]_vars PROVE TruthInv'
  OBVIOUS
<1> DEFINE AllAttested == \A r \in pool : r.authentic =>
                            \A i \in DOMAIN policy.rules : Attested(r, i)
           Safe == /\ UniqueIds /\ phase \in {"dispatch", "executed"} => Covered
                   /\ UniqueIds /\ phase = "executed" => now <= certificate.expiresAt
<1>1. WorkInv /\ WorkInv'
  BY WorkInvStep DEF TruthInv
<1>2. /\ policy \in Policies /\ faults \in FaultSets /\ world \in Worlds
      /\ now \in Int /\ now' \in Int /\ PoolTyped(pool)
      /\ Remembered /\ open \subseteq DOMAIN policy.rules /\ AllAttested /\ Safe
  BY <1>1, WorkLoopAssumption DEF TruthInv, WorkInv, TypeOK
<1>3. SUFFICES Remembered' /\ (open \subseteq DOMAIN policy.rules)' /\ AllAttested' /\ Safe'
  BY <1>1 DEF TruthInv
<1>4. CASE Evaluate
  <2> DEFINE verdict == Evaluated(pool)
             satisfied == SatisfiedOf(Outcomes(proposal, world.view, policy, pool, Context))
  <2>1. /\ UNCHANGED <<policy, faults, pool, lastHeld, now, world>>
        /\ phase = "evaluate" /\ phase' # "executed"
        /\ \/ verdict.kind = "PERMIT" /\ UNCHANGED open /\ certificate' = verdict.certificate
           \/ verdict.kind = "DEFER" /\ phase' = "fetch" /\ open' = verdict.open
           \/ phase' \in {"thrown", "closed"} /\ UNCHANGED open
    BY <1>4 DEF Evaluate, runVars, worldVars
  <2>2. Remembered' /\ AllAttested'
    BY <1>2, <2>1 DEF Remembered, Attested, MayLie
  <2>3. (open \subseteq DOMAIN policy.rules)'
    <3>1. verdict.kind = "DEFER" => verdict.open \subseteq DOMAIN policy.rules
      BY <1>2, VerdictRules DEF Evaluated
    <3> HIDE DEF verdict
    <3>2. QED
      BY <1>2, <2>1, <3>1
  <2>4. Safe'
    <3>1. SUFFICES ASSUME UniqueIds, verdict.kind = "PERMIT", certificate' = verdict.certificate
                   PROVE  Covered'
      BY <2>1
    <3>2. certificate'.expiresAt = CertificateExpiry(satisfied, now)
      <4>1. Context.time = now
        BY DEF Context
      <4>2. PermitOf(verdict, satisfied, Context.time)
        BY <3>1, VerdictContents DEF Evaluated
      <4> HIDE DEF verdict, satisfied
      <4>3. QED
        BY <3>1, <4>1, <4>2 DEF PermitOf
    <3>3. ASSUME NEW i \in DOMAIN policy.rules, policy.rules[i].required,
                 Unforged(policy.rules[i])
          PROVE  /\ CertificateExpiry(satisfied, now) \in Int
                 /\ CertificateExpiry(satisfied, now) <= lastHeld[i] + policy.rules[i].maxFreshness
      BY <3>1, <3>3, PermitCovers
    <3> HIDE DEF verdict, satisfied
    <3>4. QED
      BY <2>1, <3>2, <3>3 DEF Covered, Unforged
  <2>5. QED
    BY <2>2, <2>3, <2>4
<1>5. CASE Fetch
  <2>1. /\ UNCHANGED <<policy, faults, lastHeld, now, world>>
        /\ open # {} /\ open' = open \ {Min(open)}
        /\ phase' \in {"fetch", "evaluate", "closed"}
    BY <1>1, <1>5 DEF Fetch, WorkInv, TypeOK, runVars, worldVars
  <2>2. Remembered'
    BY <1>2, <2>1 DEF Remembered
  <2>3. ASSUME NEW r \in pool' PROVE r \in pool \/ \A i \in DOMAIN policy.rules : Attested(r, i)
    <3>1. Min(open) \in DOMAIN policy.rules
      <4>1. open \subseteq Nat
        BY <1>1 DEF WorkInv
      <4>2. Min(open) \in open
        BY <2>1, <4>1, MinOfBounded
      <4>3. QED
        BY <1>2, <4>2
    <3>2. CASE pool' = pool
      BY <2>3, <3>2
    <3>3. CASE \E s \in SensorsFor[policy.rules[Min(open)].id] :
                 \E receipt \in Reports(s) : pool' = pool \cup {receipt}
      <4>1. PICK s \in SensorsFor[policy.rules[Min(open)].id] :
              \E receipt \in Reports(s) : pool' = pool \cup {receipt}
        BY <3>3
      <4>2. PICK receipt \in Reports(s) : pool' = pool \cup {receipt}
        BY <4>1
      <4>3. \A i \in DOMAIN policy.rules : Attested(receipt, i)
        BY <1>2, <3>1, ReportsAttest
      <4>4. QED
        BY <2>3, <4>2, <4>3
    <3>4. QED
      BY <1>5, <3>2, <3>3 DEF Fetch
  <2>4. AllAttested'
    <3>1. \A r \in pool' : r.authentic => \A i \in DOMAIN policy.rules : Attested(r, i)
      BY <1>2, <2>3
    <3>2. QED
      BY <2>1, <3>1 DEF Attested, MayLie
  <2>5. QED
    BY <1>2, <2>1, <2>2, <2>4
<1>6. CASE Dispatch
  <2>1. /\ UNCHANGED <<policy, faults, pool, lastHeld, now, world, open, certificate>>
        /\ phase = "dispatch" /\ phase' = IF Admissible THEN "executed" ELSE "blocked"
    BY <1>6 DEF Dispatch, runVars, worldVars
  <2>2. Remembered' /\ AllAttested'
    BY <1>2, <2>1 DEF Remembered, Attested, MayLie
  <2>3. UniqueIds => Covered'
    BY <1>2, <2>1 DEF Covered, Unforged
  <2>4. Admissible => now <= certificate.expiresAt
    BY DEF Admissible, PresentationValid
  <2>5. QED
    BY <1>2, <2>1, <2>2, <2>3, <2>4
<1>7. CASE Moves
  <2>1. /\ UNCHANGED <<policy, faults, pool, open, certificate, phase>>
        /\ phase \in {"fetch", "dispatch"}
        /\ lastHeld' = HeldNow(world', now', lastHeld)
        /\ now' = now \/ now' = now + 1
    BY <1>7 DEF Moves, runVars
  <2>2. Remembered' /\ \A i \in DOMAIN policy.rules : lastHeld[i] <= lastHeld'[i]
    BY <1>2, <2>1, HistoryGrows
  <2>3. \A i \in DOMAIN policy.rules : lastHeld[i] \in Int /\ lastHeld'[i] \in Int
    BY <1>2, <2>1, <2>2 DEF Remembered
  <2>4. AllAttested'
    <3>1. ASSUME NEW r \in pool, r.authentic, NEW i \in DOMAIN policy.rules
          PROVE  Attested(r, i)'
      <4>1. Attested(r, i) /\ r.observedAt \in Int
        BY <1>2, <3>1 DEF PoolTyped
      <4>2. QED
        BY <2>1, <2>2, <2>3, <4>1 DEF Attested, MayLie
    <3>2. QED
      BY <2>1, <3>1
  <2>5. Safe'
    <3>1. SUFFICES ASSUME UniqueIds, Covered PROVE Covered'
      BY <1>2, <2>1
    <3>2. ASSUME NEW i \in DOMAIN policy.rules, policy.rules[i].required,
                 Unforged(policy.rules[i])
          PROVE  certificate.expiresAt \in Int
                 /\ certificate.expiresAt <= lastHeld'[i] + policy.rules[i].maxFreshness
      <4>1. policy.rules[i].maxFreshness \in Nat
        BY <1>2, PolicyAssumption
      <4>2. certificate.expiresAt \in Int
            /\ certificate.expiresAt <= lastHeld[i] + policy.rules[i].maxFreshness
        BY <3>1, <3>2 DEF Covered
      <4>3. QED
        BY <2>2, <2>3, <4>1, <4>2
    <3>3. QED
      BY <2>1, <3>2 DEF Covered, Unforged
  <2>6. QED
    BY <1>2, <2>1, <2>2, <2>4, <2>5
<1>8. CASE UNCHANGED vars
  <2>1. UNCHANGED <<policy, faults, pool, lastHeld, now, world, open, certificate, phase>>
    BY <1>8 DEF vars, worldVars, runVars
  <2>2. QED
    BY <1>2, <2>1 DEF Remembered, Attested, MayLie, Covered, Unforged
<1>9. QED
  BY <1>4, <1>5, <1>6, <1>7, <1>8 DEF Next

(* An action that is let through acts on the truth: each required rule the *)
(* active faults cannot have forged held of the target no longer ago than  *)
(* its freshness allows, whatever moved the target since, as long as ids   *)
(* are unique (computeWitnessExpiration looks receipts up by id).          *)
THEOREM ExecutedIsTrue == Spec => [](UniqueIds => ExecutedOnFreshTruth)
<1>1. TruthInv => (UniqueIds => ExecutedOnFreshTruth)
  <2>1. SUFFICES ASSUME TruthInv, UniqueIds, phase = "executed",
                        NEW i \in DOMAIN policy.rules,
                        policy.rules[i].required, Unforged(policy.rules[i])
                 PROVE  now - lastHeld[i] <= policy.rules[i].maxFreshness
    BY DEF ExecutedOnFreshTruth
  <2>2. /\ certificate.expiresAt \in Int /\ now <= certificate.expiresAt
        /\ certificate.expiresAt <= lastHeld[i] + policy.rules[i].maxFreshness
    BY <2>1 DEF TruthInv, Covered
  <2>3. now \in Int /\ policy \in Policies
    BY <2>1, WorkLoopAssumption DEF TruthInv, WorkInv, TypeOK
  <2>4. lastHeld[i] \in Int /\ policy.rules[i].maxFreshness \in Nat
    BY <2>1, <2>3, PolicyAssumption DEF TruthInv, Remembered
  <2>5. QED
    BY <2>2, <2>3, <2>4
<1>2. QED
  BY TruthInvInit, TruthInvStep, <1>1, PTL DEF Spec

=============================================================================
