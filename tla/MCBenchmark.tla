---------------------------- MODULE MCBenchmark ----------------------------
(* Values for Benchmark: every controller on every scenario it is run on,  *)
(* but for the one trial that ends with seven agreeing sensor receipts,    *)
(* whose 127 witnesses are beyond TLC.                                     *)
EXTENDS Benchmark

Uninstrumented ==
  { "BND1", "BND2", "BND3", "BND4", "ROB1", "ROB2", "ROB3", "ROB4", "EFD-BND1",
    "R1", "R2", "R3" }
MCTrials ==
  (((Uninstrumented \cup RepairedCases) \X Family)
     \ {<<"correlated-witnesses", "CAC-NoAdaptiveOmega">>})
    \cup (Uninstrumented \X {"B0", "B1", "B2", "B3", "B4", "B5"})
    \cup (RepairedCases \X {"AuthOnly", "LivePolicy"})

(* The tiers of the entities the proposals name; none has dependents.      *)
Entities == {"dev-route", "auth-cache", "prod-cluster-a", "k8s-prod", "cluster-1"}
MCSeverity == [e \in Entities |->
  CASE e \in {"prod-cluster-a", "k8s-prod"} -> 2 [] e = "dev-route" -> 1 [] OTHER -> 0]
MCDependents == [e \in Entities |-> 0]

=============================================================================
