-------------------------- MODULE MCEpistemicPanel --------------------------
(* EpistemicPanel on every exposure of three verifiers to three faults,    *)
(* under each kind of coalition policy; the profiles that do not validate  *)
(* (a dangling exposure, an impossible k) are among them.                  *)
EXTENDS EpistemicPanel

Verifiers == {"v1", "v2", "v3"}
Faults == {"f1", "f2", "f3"}
Families ==
  {F \in SUBSET (SUBSET Verifiers \ {{}}) : F # {} /\ Cardinality(F) <= 2}

Profile(exposures, type, k, coalitions) ==
  [ faults |-> Faults, exposures |-> exposures, type |-> type, k |-> k, n |-> 3,
    verifierOf |-> [v \in Verifiers |-> v], coalitions |-> coalitions ]

AllExposures == [Verifiers -> SUBSET Faults]
MCProfiles ==
  {Profile(e, "ALL_OF", 1, {}) : e \in AllExposures}
    \cup {Profile(e, "K_OF_N", k, {}) : e \in AllExposures, k \in 0..4}
    \cup {Profile(e, "EXPLICIT", 1, F) :
            e \in {x \in AllExposures : x["v1"] \in {{}, {"f1"}, {"f1", "f2"}}}, F \in Families}
    \cup {Profile([e EXCEPT !["v3"] = {"unknown"}], "K_OF_N", 2, {}) : e \in AllExposures}

=============================================================================
