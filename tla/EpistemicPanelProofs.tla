------------------------ MODULE EpistemicPanelProofs ------------------------
(***************************************************************************)
(* The structural cut is exact for every profile, any number of verifiers  *)
(* and faults.  Both sides of the theorem are read as one family of sets   *)
(* of faults: those that hit every verifier of some decisive coalition.    *)
(* The code takes the smallest hitting sets of each coalition and the      *)
(* smallest of those; propagation asks for the smallest of the family.     *)
(***************************************************************************)
EXTENDS EpistemicPanel, FiniteSetTheorems, WellFoundedInduction, TLAPS

(* A nonempty family of finite sets has a member with the fewest elements. *)
LEMMA SmallestExists ==
  ASSUME NEW family, family # {}, \A S \in family : IsFiniteSet(S)
  PROVE  Smallest(family) # {}
<1> DEFINE sizes == {Cardinality(S) : S \in family}
<1>1. sizes \subseteq Nat /\ sizes # {}
  BY FS_CardinalityType
<1>2. IsWellFoundedOn({pair \in Nat \X Nat : pair[1] < pair[2]}, Nat)
  BY NatLessThanWellFounded DEF OpToRel
<1>3. PICK m \in sizes : \A n \in sizes : <<n, m>> \notin {pair \in Nat \X Nat : pair[1] < pair[2]}
  <2> HIDE DEF sizes
  <2>1. QED
    BY <1>1, <1>2, WFMin, Zenon
<1>4. \A n \in sizes : m <= n
  <2>1. \A n \in sizes : m \in Nat /\ n \in Nat /\ ~(n < m)
    BY <1>1, <1>3
  <2>2. QED
    BY <2>1
<1>5. PICK S \in family : Cardinality(S) = m
  BY <1>3
<1>6. S \in Smallest(family)
  BY <1>4, <1>5 DEF Smallest
<1>7. QED
  BY <1>6

(* Every member is at least as large as the smallest ones.                 *)
LEMMA SmallestBounds ==
  ASSUME NEW family, NEW S \in Smallest(family)
  PROVE  S \in family /\ \A T \in family : Cardinality(S) <= Cardinality(T)
BY DEF Smallest

(* A finite set with at least k elements has a subset of exactly k.        *)
LEMMA SubsetOfSize ==
  ASSUME NEW S, IsFiniteSet(S), NEW k \in Nat, k <= Cardinality(S)
  PROVE  \E T \in SUBSET S : Cardinality(T) = k
<1>1. PICK f : f \in Bijection(1..Cardinality(S), S)
  BY FS_CardinalityType DEF ExistsBijection
<1>2. Cardinality(S) \in Nat
  BY FS_CardinalityType
<1> DEFINE T == {f[i] : i \in 1..k}
           g == [i \in 1..k |-> f[i]]
<1>3. 1..k \subseteq 1..Cardinality(S)
  BY <1>2
<1>4. /\ f \in [1..Cardinality(S) -> S]
      /\ \A i, j \in 1..Cardinality(S) : f[i] = f[j] => i = j
  BY <1>1 DEF Bijection, Injection, IsInjective
<1>5. T \in SUBSET S
  BY <1>3, <1>4
<1>6. g \in Bijection(1..k, T)
  BY <1>3, <1>4 DEF Bijection, Injection, IsInjective, Surjection
<1>7. Cardinality(T) = k
  BY <1>6, FS_CountingElements DEF ExistsBijection
<1>8. QED
  BY <1>5, <1>7

------------------------------------------------------------------------------
(* The sets of faults that hit every verifier of the coalition c.          *)
Hits(c) ==
  {F \in SUBSET profile.faults :
     \A s \in {profile.exposures[v] \cap profile.faults : v \in c} : F \cap s # {}}

Coalitions == DecisiveCoalitions(participating, profile)

PanelInv ==
  /\ profile \in Profiles /\ ProfileValid(profile)
  /\ participating \in SUBSET DOMAIN profile.exposures
  /\ kappa = KappaE(participating, profile)

(* A set of faults compromises the panel when it hits every verifier of a  *)
(* decisive coalition.                                                     *)
LEMMA CompromiseIsCoalitionHit ==
  ASSUME PanelInv, NEW F \in SUBSET profile.faults
  PROVE  Compromises(F) <=> \E c \in Coalitions : F \in Hits(c)
<1> USE PanelAssumption DEF PanelInv
<1>1. \A v \in DOMAIN profile.exposures :
        profile.exposures[v] \cap profile.faults = profile.exposures[v]
  BY DEF ProfileValid
<1>2. ASSUME NEW c \in SUBSET participating
      PROVE  F \in Hits(c) <=> c \subseteq Corrupted(F)
  <2>1. F \in Hits(c) <=> \A v \in c : F \cap (profile.exposures[v] \cap profile.faults) # {}
    BY DEF Hits
  <2>2. \A v \in c : v \in participating /\ v \in DOMAIN profile.exposures
    BY <1>2
  <2>3. QED
    BY <1>1, <2>1, <2>2 DEF Corrupted
<1>3. Corrupted(F) \in SUBSET participating /\ IsFiniteSet(Corrupted(F))
  <2>1. IsFiniteSet(participating)
    BY FS_Subset
  <2>2. Corrupted(F) \in SUBSET participating
    BY DEF Corrupted
  <2>3. QED
    BY <2>1, <2>2, FS_Subset
<1>4. CASE participating = {}
  BY <1>4 DEF Compromises, Decides, Coalitions, DecisiveCoalitions
<1>5. CASE participating # {} /\ profile.type = "ALL_OF"
  <2>1. Coalitions = {participating}
    BY <1>5 DEF Coalitions, DecisiveCoalitions
  <2>2. Compromises(F) <=> Corrupted(F) = participating
    BY <1>5 DEF Compromises, Decides
  <2>3. QED
    BY <1>2, <1>3, <2>1, <2>2
<1>6. CASE participating # {} /\ profile.type = "EXPLICIT"
  <2>1. Coalitions = {c \in profile.coalitions : c \subseteq participating}
    BY <1>6 DEF Coalitions, DecisiveCoalitions
  <2>2. Compromises(F) <=> \E c \in profile.coalitions : c \subseteq Corrupted(F)
    BY <1>6 DEF Compromises, Decides
  <2>3. QED
    BY <1>2, <1>3, <2>1, <2>2
<1>7. CASE participating # {} /\ profile.type = "K_OF_N"
  <2>1. Coalitions = {c \in SUBSET participating : Cardinality(c) = profile.k}
    BY <1>7 DEF Coalitions, DecisiveCoalitions
  <2>2. Compromises(F) <=> Cardinality(Corrupted(F)) >= profile.k
    BY <1>7 DEF Compromises, Decides
  <2>3. profile.k \in Nat
    BY <1>7 DEF ProfileValid
  <2>4. ASSUME Cardinality(Corrupted(F)) >= profile.k
        PROVE  \E c \in SUBSET Corrupted(F) : Cardinality(c) = profile.k
    <3>1. Cardinality(Corrupted(F)) \in Nat
      BY <1>3, FS_CardinalityType
    <3>2. profile.k <= Cardinality(Corrupted(F))
      BY <2>3, <2>4, <3>1
    <3>3. QED
      BY <1>3, <2>3, <3>2, SubsetOfSize
  <2>5. ASSUME NEW c \in SUBSET Corrupted(F), Cardinality(c) = profile.k
        PROVE  Cardinality(Corrupted(F)) >= profile.k
    <3>1. Cardinality(c) <= Cardinality(Corrupted(F))
      BY <1>3, FS_Subset
    <3>2. Cardinality(Corrupted(F)) \in Nat
      BY <1>3, FS_CardinalityType
    <3>3. QED
      BY <2>3, <2>5, <3>1, <3>2
  <2>6. QED
    BY <1>2, <1>3, <2>1, <2>2, <2>4, <2>5
<1>8. QED
  BY <1>4, <1>5, <1>6, <1>7

(* The reported cuts are the smallest sets that compromise the panel.      *)
LEMMA CutsAreSmallestCompromises ==
  ASSUME PanelInv
  PROVE  MinimumFaultCuts(participating, profile) =
           Smallest({F \in SUBSET profile.faults : Compromises(F)})
<1> DEFINE compromises == {F \in SUBSET profile.faults : Compromises(F)}
           chosen == UNION {Smallest(Hits(c)) : c \in Coalitions}
<1>1. MinimumFaultCuts(participating, profile) = Smallest(chosen)
  BY DEF MinimumFaultCuts, MinimumHittingSets, Hits, Coalitions
<1>2. \A F \in SUBSET profile.faults : IsFiniteSet(F) /\ Cardinality(F) \in Nat
  BY PanelAssumption, FS_Subset, FS_CardinalityType DEF PanelInv
<1>3. compromises = UNION {Hits(c) : c \in Coalitions}
  <2>1. \A F \in SUBSET profile.faults : Compromises(F) <=> \E c \in Coalitions : F \in Hits(c)
    BY CompromiseIsCoalitionHit
  <2>2. \A c : Hits(c) \subseteq SUBSET profile.faults
    BY DEF Hits
  <2>3. QED
    BY <2>1, <2>2
<1>4. chosen \subseteq compromises
  BY <1>3 DEF Smallest
<1>5. \A F \in compromises : \E G \in chosen : Cardinality(G) <= Cardinality(F)
  <2>1. TAKE F \in compromises
  <2>2. PICK c \in Coalitions : F \in Hits(c)
    BY <1>3
  <2>3. Smallest(Hits(c)) # {}
    <3>1. \A S \in Hits(c) : IsFiniteSet(S)
      BY <1>2 DEF Hits
    <3>2. QED
      BY <2>2, <3>1, SmallestExists
  <2>4. PICK G : G \in Smallest(Hits(c))
    BY <2>3
  <2>5. G \in chosen /\ Cardinality(G) <= Cardinality(F)
    BY <2>2, <2>4, SmallestBounds
  <2>6. QED
    BY <2>5
<1>6. \A F \in compromises : Cardinality(F) \in Nat
  BY <1>2
<1>7. Smallest(chosen) = Smallest(compromises)
  <2> HIDE DEF chosen, compromises
  <2>1. ASSUME NEW S \in Smallest(chosen) PROVE S \in Smallest(compromises)
    <3>1. S \in compromises
      BY <1>4, <2>1, SmallestBounds
    <3>2. ASSUME NEW F \in compromises PROVE Cardinality(S) <= Cardinality(F)
      <4>1. PICK G \in chosen : Cardinality(G) <= Cardinality(F)
        BY <1>5
      <4>2. Cardinality(S) <= Cardinality(G)
        BY <2>1, SmallestBounds
      <4>3. QED
        BY <1>4, <1>6, <3>1, <4>1, <4>2
    <3>3. QED
      BY <3>1, <3>2 DEF Smallest
  <2>2. ASSUME NEW S \in Smallest(compromises) PROVE S \in Smallest(chosen)
    <3>1. S \in compromises /\ \A F \in compromises : Cardinality(S) <= Cardinality(F)
      BY <2>2, SmallestBounds
    <3>2. S \in chosen
      <4>1. PICK c \in Coalitions : S \in Hits(c)
        BY <1>3, <3>1
      <4>2. \A F \in Hits(c) : Cardinality(S) <= Cardinality(F)
        BY <1>3, <3>1
      <4>3. QED
        BY <4>1, <4>2 DEF Smallest, chosen
    <3>3. QED
      BY <1>4, <3>1, <3>2 DEF Smallest
  <2>3. QED
    BY <2>1, <2>2
<1>8. QED
  BY <1>1, <1>7


------------------------------------------------------------------------------
(* The invariant makes the cut exact: either nothing compromises the panel *)
(* and kappaE is 0, or it is the size of every smallest compromise.        *)
LEMMA CutIsExact == PanelInv => CutMatchesPropagation /\ CutsAreExact
<1> SUFFICES ASSUME PanelInv PROVE CutMatchesPropagation /\ CutsAreExact
  OBVIOUS
<1> DEFINE compromises == {F \in SUBSET profile.faults : Compromises(F)}
           cuts == MinimumFaultCuts(participating, profile)
<1>1. cuts = Smallest(compromises)
  BY CutsAreSmallestCompromises
<1>2. \A F \in compromises : IsFiniteSet(F) /\ Cardinality(F) \in Nat
  BY PanelAssumption, FS_Subset, FS_CardinalityType DEF PanelInv
<1>3. kappa = IF cuts = {} THEN 0 ELSE Cardinality(CHOOSE cut \in cuts : TRUE)
  BY DEF PanelInv, KappaE
<1>4. CASE cuts = {}
  <2>1. compromises = {}
    BY <1>1, <1>2, <1>4, SmallestExists
  <2>2. kappa = 0 /\ \A F \in SUBSET profile.faults : ~Compromises(F)
    BY <1>3, <1>4, <2>1
  <2>3. QED
    BY <1>4, <2>2 DEF CutMatchesPropagation, CutsAreExact
<1>5. CASE cuts # {}
  <2>1. PICK S \in cuts : kappa = Cardinality(S)
    BY <1>3, <1>5
  <2>2. S \in compromises /\ \A F \in compromises : kappa <= Cardinality(F)
    BY <1>1, <2>1, SmallestBounds
  <2>3. ASSUME NEW F \in compromises
        PROVE  F \in cuts <=> Cardinality(F) = kappa
    <3>1. Cardinality(F) \in Nat /\ kappa \in Nat
      BY <1>2, <2>1, <2>2, <2>3
    <3>2. ASSUME F \in cuts PROVE Cardinality(F) <= kappa
      BY <1>1, <2>1, <2>2, <3>2, SmallestBounds
    <3>3. ASSUME Cardinality(F) = kappa PROVE F \in cuts
      BY <1>1, <2>2, <3>3 DEF Smallest
    <3>4. QED
      BY <2>2, <3>1, <3>2, <3>3
  <2>4. cuts \subseteq compromises
    BY <1>1, SmallestBounds
  <2>5. cuts = {F \in SUBSET profile.faults : Compromises(F) /\ Cardinality(F) = kappa}
    BY <2>3, <2>4
  <2>6. QED
    BY <2>1, <2>2, <2>5 DEF CutMatchesPropagation, CutsAreExact
<1>6. QED
  BY <1>4, <1>5

LEMMA PanelInvHolds == Spec => []PanelInv
<1>1. Init => PanelInv
  BY DEF Init, PanelInv
<1>2. PanelInv /\ [Next]_vars => PanelInv'
  BY DEF PanelInv, Next, Join, vars
<1>3. QED
  BY <1>1, <1>2, PTL DEF Spec

(* kappaE is the least number of faults of the basis that compromise a     *)
(* decision by direct propagation: what evaluateSetConstraints compares    *)
(* with the minimum structural cut an obligation asks for.                 *)
THEOREM KappaIsLeastCompromise == Spec => []CutMatchesPropagation
BY CutIsExact, PanelInvHolds, PTL

(* The minimum fault cuts reported are exactly the smallest compromises,   *)
(* so a disallowed fault that takes part in one is always seen.            *)
THEOREM ReportedCutsAreExact == Spec => []CutsAreExact
BY CutIsExact, PanelInvHolds, PTL

(* A decision that a set of faults compromises stays compromised when a    *)
(* verifier joins, unless the whole panel has to agree.                    *)
LEMMA JoiningKeepsCompromises ==
  ASSUME PanelInv, PanelInv', NEW v, Join(v), profile.type # "ALL_OF",
         NEW F \in SUBSET profile.faults, Compromises(F)
  PROVE  Compromises(F)'
<1>1. Corrupted(F) \subseteq Corrupted(F)' /\ Corrupted(F)' \in SUBSET participating'
  BY DEF Corrupted, Join
<1>2. profile' = profile /\ participating # {} /\ participating' # {}
  BY DEF Join, Compromises, Decides
<1>3. CASE profile.type = "EXPLICIT"
  BY <1>1, <1>2, <1>3 DEF Compromises, Decides
<1>4. CASE profile.type = "K_OF_N"
  <2>1. IsFiniteSet(Corrupted(F)')
    BY <1>1, <1>2, PanelAssumption, FS_Subset DEF PanelInv
  <2>2. /\ Cardinality(Corrupted(F)) \in Nat
        /\ Cardinality(Corrupted(F)') \in Nat
        /\ Cardinality(Corrupted(F)) <= Cardinality(Corrupted(F)')
    BY <1>1, <2>1, FS_Subset, FS_CardinalityType
  <2>3. profile.k \in Int /\ Cardinality(Corrupted(F)) >= profile.k
    BY <1>4, PanelAssumption DEF Compromises, Decides, PanelInv
  <2>4. QED
    BY <1>2, <1>4, <2>2, <2>3 DEF Compromises, Decides
<1>5. QED
  BY <1>3, <1>4, PanelAssumption DEF PanelInv

(* Evidence of one more verifier never raises the cut of a quorum or of an *)
(* explicit family.                                                        *)
THEOREM CutOnlyFalls == Spec => JoiningNeverStrengthens
<1>1. PanelInv /\ CutMatchesPropagation /\ PanelInv' /\ CutMatchesPropagation' /\ [Next]_vars
        => [profile.type # "ALL_OF" /\ kappa > 0 => kappa' <= kappa]_vars
  <2>1. SUFFICES ASSUME PanelInv, CutMatchesPropagation, PanelInv', CutMatchesPropagation',
                        NEW v, Join(v), profile.type # "ALL_OF", kappa > 0
                 PROVE  kappa' <= kappa
    BY DEF Next
  <2>2. PICK F \in SUBSET profile.faults : Compromises(F) /\ Cardinality(F) = kappa
    BY <2>1 DEF CutMatchesPropagation
  <2>3. Compromises(F)' /\ profile' = profile
    BY <2>1, <2>2, JoiningKeepsCompromises DEF Join
  <2>4. QED
    BY <2>1, <2>2, <2>3 DEF CutMatchesPropagation
<1>2. QED
  BY <1>1, CutIsExact, PanelInvHolds, PTL DEF Spec, JoiningNeverStrengthens

=============================================================================
