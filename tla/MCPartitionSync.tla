-------------------------- MODULE MCPartitionSync --------------------------
(***************************************************************************)
(* Instances of PartitionSync for TLC: the option records of each run, and *)
(* the symmetry of generation names, which are random and only compared.   *)
(***************************************************************************)
EXTENDS PartitionSync, MCPartitionMatch, TLC

Symmetry == Permutations(Gens)

(* Forced and regular runs on tables with and without AUTO PARTITION whose *)
(* partitions agree with the source; an abandoned load has committed       *)
(* before its client goes on, or never does.                               *)
OnTimeOptions == [force : BOOLEAN, auto : BOOLEAN, compatible : {TRUE}, lateLoads : {FALSE}]

(* The same, and loads that may commit late.                               *)
SafetyOptions == [force : BOOLEAN, auto : BOOLEAN, compatible : {TRUE}, lateLoads : BOOLEAN]

(* Automatic partitions with other bounds than those of the source.        *)
IncompatibleOptions == [force : {FALSE}, auto : {TRUE}, compatible : {FALSE}, lateLoads : {FALSE}]
=============================================================================
