----------------------------- MODULE MCContinuity -----------------------------
EXTENDS ContinuityLoop

(* Two rounds that make a past worth attacking, then everything; the single*)
(* faults of an upgrade, which do not look at the past, come first only.   *)
First ==
  OnTheUpgrade \cup CompoundCases \cup {"L1", "L2", "L3", "meet", "redact", "amend", "set_clock"}
Second == {"L2", "I4", "redact"}
ThreeRounds == <<First, Second, Names \ OnTheUpgrade>>
Few == {"L2", "succession"}

(* Of what names nothing twice, the filtered sequence the code compares is *)
(* the one it is compared to exactly when that is in order, and the slice  *)
(* exactly when that is continued.                                         *)
ShortSeqs == UNION {[1..n -> 1..3] : n \in 0..3}
ASSUME OrderAssumption ==
  \A old, new \in ShortSeqs :
    /\ IsInjective(new) =>
         (InOrder(old, new) <=> SelectSeq(new, LAMBDA x : x \in ToSet(old)) = old)
    /\ Continues(old, new) <=> IsPrefix(old, new)
=============================================================================
