---------------------------- MODULE EpistemicCut ----------------------------
(***************************************************************************)
(* The structural epistemic cut (evidence/src/efd.ts).                     *)
(*                                                                         *)
(* A profile says which faults of a basis each verifier is exposed to and  *)
(* which coalitions of verifiers are decisive:                             *)
(*   faults      the ids of the fault basis                                *)
(*   exposures   verifier -> the ids of the faults it is exposed to        *)
(*   verifierOf  evidence source (or verifier id) -> verifier              *)
(*   type        "ALL_OF", "K_OF_N" or "EXPLICIT"                          *)
(*   k, n        (K_OF_N) the size of a decisive coalition, of how many    *)
(*   coalitions  (EXPLICIT) the decisive coalitions                        *)
(***************************************************************************)
EXTENDS Integers, FiniteSets

(* The members of a family of finite sets with the fewest elements.        *)
Smallest(family) == {S \in family : \A T \in family : Cardinality(S) <= Cardinality(T)}

(* validateEfdProfile, for a profile whose verifier ids are distinct and   *)
(* whose digest matches: no exposure dangles, the coalition policy is      *)
(* consistent with the verifiers.                                          *)
ProfileValid(profile) ==
  LET verifiers == DOMAIN profile.exposures IN
    /\ verifiers # {}
    /\ \A v \in verifiers : profile.exposures[v] \subseteq profile.faults
    /\ profile.type = "K_OF_N" =>
         0 < profile.k /\ profile.k <= profile.n /\ profile.n <= Cardinality(verifiers)
    /\ profile.type = "EXPLICIT" =>
         profile.coalitions # {} /\ \A c \in profile.coalitions : c # {} /\ c \subseteq verifiers

(* Mutant: any k or more of the verifiers of the profile are decisive,     *)
(* whether they took part or not.                                          *)
DecisiveCoalitions_WholePanel(participating, profile) ==
  IF participating = {} THEN {}
  ELSE CASE profile.type = "ALL_OF" -> {participating}
         [] profile.type = "EXPLICIT" -> {c \in profile.coalitions : c \subseteq participating}
         [] profile.type = "K_OF_N" ->
              {c \in SUBSET DOMAIN profile.exposures : Cardinality(c) = profile.k}

(* generateDecisiveCoalitions.                                             *)
DecisiveCoalitions(participating, profile) ==
  IF participating = {} THEN {}
  ELSE CASE profile.type = "ALL_OF" -> {participating}
         [] profile.type = "EXPLICIT" -> {c \in profile.coalitions : c \subseteq participating}
         [] profile.type = "K_OF_N" -> {c \in SUBSET participating : Cardinality(c) = profile.k}

(* findMinimumHittingSets; {} stands for the size Infinity.                *)
MinimumHittingSets(setsToHit, candidateFaults) ==
  Smallest({F \in SUBSET candidateFaults : \A s \in setsToHit : F \cap s # {}})

(* Mutant: the first coalition analysed decides, not the weakest one.      *)
MinimumFaultCuts_OneCoalition(participating, profile) ==
  LET coalitions == DecisiveCoalitions(participating, profile)
      CutsOf(c) == MinimumHittingSets(
        {profile.exposures[v] \cap profile.faults : v \in c}, profile.faults)
  IN  IF coalitions = {} THEN {} ELSE CutsOf(CHOOSE c \in coalitions : TRUE)

(* The minimum fault cuts of computeStructuralCut, over all coalitions.    *)
MinimumFaultCuts(participating, profile) ==
  LET coalitions == DecisiveCoalitions(participating, profile)
      CutsOf(c) == MinimumHittingSets(
        {profile.exposures[v] \cap profile.faults : v \in c}, profile.faults)
  IN  Smallest(UNION {CutsOf(c) : c \in coalitions})

(* kappaE: 0 when nothing is decisive, and, failing closed, when no set of *)
(* faults of the basis corrupts a decisive coalition.                      *)
KappaE(participating, profile) ==
  LET cuts == MinimumFaultCuts(participating, profile)
  IN  IF cuts = {} THEN 0 ELSE Cardinality(CHOOSE cut \in cuts : TRUE)

=============================================================================
