------------------------------ MODULE MCCycle ------------------------------
(***************************************************************************)
(* Instances of Cycle for TLC.                                             *)
(***************************************************************************)
EXTENDS Cycle

(* All partitions, or those of the first name only.                        *)
AllOrFirst == {{}, {1}}

(* The target lacks the table that is checked last.                        *)
LastMissing == {{1}}

(* Two partitions of the first table, one of the second.                   *)
ThreeParts == {<<1, 1>>, <<1, 2>>, <<2, 1>>}

(* One of them is yet to come.                                             *)
FirstTwo == {Parts \ {<<1, 2>>}}
=============================================================================
