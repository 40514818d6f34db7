--------------------------- MODULE MCForcedPlan ---------------------------
(***************************************************************************)
(* An instance of ForcedPlan for TLC: a table with two partitions and one  *)
(* with a single one.                                                      *)
(***************************************************************************)
EXTENDS ForcedPlan

CONSTANTS t1, t2

PartTables == [p \in Parts |-> IF p < 3 THEN t1 ELSE t2]
=============================================================================
