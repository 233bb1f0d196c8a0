---------------------------- MODULE MCReceiptIds ----------------------------
(* MCWorkLoop with the two rules whose evidence comes from different       *)
(* sources, each of which numbers the receipts it issues.                  *)
EXTENDS MCWorkLoop

TwoSourcePolicies == {Policy(<<LagRule, RollbackRule>>)}
TwoSourcesFor == [id \in {LagRule.id, RollbackRule.id} |->
  IF id = LagRule.id THEN {LagA} ELSE {Backup}]
NoEvidence == [w \in MCWorlds |-> {{}}]

=============================================================================
