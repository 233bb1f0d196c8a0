--------------------------- MODULE EpistemicPanel ---------------------------
(***************************************************************************)
(* A panel of verifiers whose receipts arrive one after the other, and the *)
(* structural cut of those that have taken part so far: what step 4 of     *)
(* evaluateSetConstraints (evidence/src/setConstraints.ts) computes of a   *)
(* growing witness.                                                        *)
(***************************************************************************)
EXTENDS EpistemicCut

CONSTANT Profiles   \* the profiles a policy may register

ASSUME PanelAssumption ==
  \A p \in Profiles :
    /\ IsFiniteSet(p.faults) /\ IsFiniteSet(DOMAIN p.exposures)
    /\ p.type \in {"ALL_OF", "K_OF_N", "EXPLICIT"}
    /\ p.k \in Int /\ p.n \in Int

VARIABLES profile, participating, kappa
vars == <<profile, participating, kappa>>

(* A profile that does not validate is refused before any cut is computed. *)
Init ==
  /\ profile \in {p \in Profiles : ProfileValid(p)}
  /\ participating = {}
  /\ kappa = KappaE({}, profile)

Join(v) ==
  /\ participating' = participating \cup {v}
  /\ kappa' = KappaE(participating', profile)
  /\ UNCHANGED profile

Next == \E v \in DOMAIN profile.exposures \ participating : Join(v)

Spec == Init /\ [][Next]_vars

------------------------------------------------------------------------------
(* Direct fault propagation: what a set of faults corrupts, and whether    *)
(* that is enough to decide.                                               *)
Corrupted(F) == {v \in participating : profile.exposures[v] \cap F # {}}

Decides(S) ==
  /\ participating # {}
  /\ \/ profile.type = "ALL_OF" /\ S = participating
     \/ profile.type = "K_OF_N" /\ Cardinality(S) >= profile.k
     \/ profile.type = "EXPLICIT" /\ \E c \in profile.coalitions : c \subseteq S

Compromises(F) == Decides(Corrupted(F))

(* kappaE is the least number of faults of the basis whose propagation     *)
(* corrupts a decision, and 0 when none does: "min over decisive           *)
(* coalitions C of min |F| such that every verifier in C is exposed to at  *)
(* least one fault in F" (efd.ts).                                         *)
CutMatchesPropagation ==
  IF \E F \in SUBSET profile.faults : Compromises(F)
    THEN /\ \E F \in SUBSET profile.faults : Compromises(F) /\ Cardinality(F) = kappa
         /\ \A F \in SUBSET profile.faults : Compromises(F) => kappa <= Cardinality(F)
    ELSE kappa = 0

(* The reported cuts are all the smallest compromises and nothing else:    *)
(* disallowed faults are looked for in them, and a remediation excludes    *)
(* the exposures they name.                                                *)
CutsAreExact ==
  MinimumFaultCuts(participating, profile) =
    {F \in SUBSET profile.faults : Compromises(F) /\ Cardinality(F) = kappa}

(* A verifier that joins a quorum or an explicit family never makes it     *)
(* more resilient: it can only bring weaker coalitions.  This is why       *)
(* discharge has to search the subsets of its evidence.                    *)
JoiningNeverStrengthens ==
  [][profile.type # "ALL_OF" /\ kappa > 0 => kappa' <= kappa]_vars

=============================================================================
