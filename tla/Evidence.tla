------------------------------ MODULE Evidence ------------------------------
(***************************************************************************)
(* Evidence receipts against obligations (evidence/src/eligibility.ts and  *)
(* setConstraints.ts, workloop/src/entailment.ts, ranking.ts and           *)
(* discharge.ts), as functions.                                            *)
(*                                                                         *)
(* A receipt is a record of what these functions read:                     *)
(*   id, source, class, scope, version, observedAt                         *)
(*   authentic  its integrity proof verifies under the trusted roots       *)
(*   principal  claim.principal, or the source when the claim has none     *)
(*   claim      a function from the fields it reports to their values,     *)
(*              under the names the predicates use (aliases resolved)      *)
(* An obligation:                                                          *)
(*   id, kind, required (enforcement is REQUIRED), scope, maxFreshness     *)
(*   classes        the evidence classes it accepts                        *)
(*   predicate      its clauses; {} for a text that does not parse         *)
(*   priorities     source -> rank, for the sources the policy ranks       *)
(*   minCardinality, minPrincipals, reconcile   0, 0, FALSE when absent    *)
(*   efd            {} or the one requirement [profile, minCut, disallowed]*)
(*   guardTemplates [id, target, extractor]                                *)
(* A clause is [field, typed, holds, comparable]: the values of the        *)
(* literal's type, those that satisfy it, and whether the operator applies *)
(* to that type.                                                           *)
(***************************************************************************)
EXTENDS EpistemicCut, FiniteSetsExt

CONSTANTS
  MaxReceipts,    \* maxReceipts of the subset search
  LagTolerance    \* the spread reconciled lag readings may have, in bytes

Fresh(receipt, o, time) ==
  LET age == time - receipt.observedAt IN 0 <= age /\ age <= o.maxFreshness

(* Mutant: an unauthenticated receipt is eligible.                         *)
Eligible_Unauthenticated(receipt, o, view, time) ==
  /\ receipt.class \in o.classes
  /\ o.scope \subseteq receipt.scope
  /\ receipt.version = view.observedVersion
  /\ Fresh(receipt, o, time)

(* computeEligibilityDiagnostics, the eligible ones.                       *)
Eligible(receipt, o, view, time) ==
  /\ receipt.authentic
  /\ receipt.class \in o.classes
  /\ o.scope \subseteq receipt.scope
  /\ receipt.version = view.observedVersion
  /\ Fresh(receipt, o, time)

(* evaluateReceiptEntailment: one clause that fails makes the receipt      *)
(* negative, one that is not reported makes it inconclusive.               *)
Entailment(claim, o) ==
  LET Reported(c) == c.field \in DOMAIN claim /\ claim[c.field] \in c.typed
  IN  CASE \/ o.predicate = {}
           \/ \E c \in o.predicate : Reported(c) /\ ~c.comparable -> "INCONCLUSIVE"
        [] OTHER ->
             IF \E c \in o.predicate : Reported(c) /\ claim[c.field] \notin c.holds
               THEN "NEGATIVE"
             ELSE IF \A c \in o.predicate : Reported(c) THEN "POSITIVE"
             ELSE "INCONCLUSIVE"

------------------------------------------------------------------------------
(* The verifiers of the profile that stand behind a witness.               *)
Participating(witness, profile) ==
  {profile.verifierOf[r.source] : r \in witness}

(* A receipt's source is bound to a verifier, and its claim to no other.   *)
Bound(receipt, profile) ==
  /\ receipt.source \in DOMAIN profile.verifierOf
  /\ "verifierId" \in DOMAIN receipt.claim =>
       receipt.claim["verifierId"] = profile.verifierOf[receipt.source]

(* Mutant: the cut is computed but not compared with the one demanded.     *)
ResilientTo_Nominal(requirement, witness, profiles) ==
  /\ requirement.profile \in DOMAIN profiles
  /\ LET profile == profiles[requirement.profile] IN
       /\ ProfileValid(profile)
       /\ \A r \in witness : Bound(r, profile)
       /\ profile.type = "ALL_OF" =>
            Participating(witness, profile) = DOMAIN profile.exposures
       /\ UNION MinimumFaultCuts(Participating(witness, profile), profile)
            \cap requirement.disallowed = {}

(* Step 4 of evaluateSetConstraints; profiles: profile id -> profile.      *)
ResilientTo(requirement, witness, profiles) ==
  /\ requirement.profile \in DOMAIN profiles
  /\ LET profile == profiles[requirement.profile] IN
       /\ ProfileValid(profile)
       /\ \A r \in witness : Bound(r, profile)
       /\ profile.type = "ALL_OF" =>
            Participating(witness, profile) = DOMAIN profile.exposures
       /\ UNION MinimumFaultCuts(Participating(witness, profile), profile)
            \cap requirement.disallowed = {}
       /\ KappaE(Participating(witness, profile), profile) >= requirement.minCut

LagField == "replicationLagBytes"

(* Steps 1 to 3: quorum, distinct principals, agreeing lag readings.       *)
QuorumMet(o, witness) ==
  /\ Cardinality(witness) >= o.minCardinality
  /\ Cardinality({r.principal : r \in witness}) >= o.minPrincipals
  /\ o.reconcile =>
       /\ \A r \in witness : LagField \in DOMAIN r.claim
       /\ \A r, s \in witness : r.claim[LagField] - s.claim[LagField] <= LagTolerance

(* evaluateSetConstraints, on a set of receipts with distinct ids.         *)
SetConstraintsHold(o, witness, profiles) ==
  /\ witness # {}
  /\ QuorumMet(o, witness)
  /\ \A requirement \in o.efd : ResilientTo(requirement, witness, profiles)

------------------------------------------------------------------------------
(* witnessPriority: the rank of the weakest source.                        *)
WitnessPriority(witness, o) ==
  Min({IF r.source \in DOMAIN o.priorities THEN o.priorities[r.source] ELSE 0 : r \in witness})

CutOf(witness, o, profiles) ==
  LET requirement == CHOOSE q \in o.efd : TRUE
      profile == profiles[requirement.profile]
  IN  IF o.efd = {} THEN 0 ELSE KappaE(Participating(witness, profile), profile)

(* selectCanonicalWitness on witnesses of one priority: the youngest worst *)
(* receipt, then the greatest cut, then the fewest receipts; the digest of *)
(* the ids, a fixed choice, breaks ties.                                   *)
CanonicalWitness(witnesses, o, profiles) ==
  LET Oldest(W) == Min({r.observedAt : r \in W})
      youngest == {W \in witnesses : \A V \in witnesses : Oldest(V) <= Oldest(W)}
      toughest == {W \in youngest : \A V \in youngest :
                     CutOf(V, o, profiles) <= CutOf(W, o, profiles)}
  IN  CHOOSE W \in Smallest(toughest) : TRUE

Unknown == [kind |-> "UNKNOWN", witness |-> {}]

(* Two eligible receipts of one id that differ.                            *)
AmbiguousId(eligible) ==
  \E r, s \in eligible : r.id = s.id /\ r # s

(* Mutant: the positive witnesses are looked at first.                     *)
Discharge_PositiveFirst(o, pool, view, time, profiles) ==
  LET eligible == {r \in pool : Eligible(r, o, view, time)}
      Valid(polarity) ==
        {W \in SUBSET {r \in eligible : Entailment(r.claim, o) = polarity} :
           SetConstraintsHold(o, W, profiles)}
  IN  IF AmbiguousId(eligible) \/ Valid("POSITIVE") \cup Valid("NEGATIVE") = {} THEN Unknown
      ELSE IF Valid("POSITIVE") # {}
        THEN [kind |-> "SATISFIED",
              witness |-> CanonicalWitness(Valid("POSITIVE"), o, profiles)]
        ELSE [kind |-> "VIOLATED",
              witness |-> CanonicalWitness(Valid("NEGATIVE"), o, profiles)]

(* discharge, of the eligible receipts: the witnesses of both polarities   *)
(* that meet the constraints are ranked together, and a tie at the top     *)
(* between the polarities is a conflict.  The reason of an UNKNOWN only    *)
(* words the remediation.                                                  *)
DischargeFrom(eligible, o, profiles) ==
  LET Valid(polarity) ==
        {W \in SUBSET {r \in eligible : Entailment(r.claim, o) = polarity} :
           SetConstraintsHold(o, W, profiles)}
      positive == Valid("POSITIVE")
      negative == Valid("NEGATIVE")
      top == Max({WitnessPriority(W, o) : W \in positive \cup negative})
      Maximal(witnesses) == {W \in witnesses : WitnessPriority(W, o) = top}
  IN  IF \/ AmbiguousId(eligible)
         \/ Cardinality(eligible) > MaxReceipts
         \/ positive \cup negative = {}
         \/ Maximal(positive) # {} /\ Maximal(negative) # {}
        THEN Unknown
      ELSE IF Maximal(positive) # {}
        THEN [kind |-> "SATISFIED",
              witness |-> CanonicalWitness(Maximal(positive), o, profiles)]
        ELSE [kind |-> "VIOLATED",
              witness |-> CanonicalWitness(Maximal(negative), o, profiles)]

Discharge(o, pool, view, time, profiles) ==
  DischargeFrom({r \in pool : Eligible(r, o, view, time)}, o, profiles)

=============================================================================
