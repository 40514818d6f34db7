---------------------------- MODULE MCTimeWindow ----------------------------
(***************************************************************************)
(* Instances of TimeWindow for TLC.  Forced overwrite is for overwrite     *)
(* mode only.                                                              *)
(***************************************************************************)
EXTENDS TimeWindow

WindowOptions == [force : {FALSE}, auto : BOOLEAN, compatible : {TRUE}, lateLoads : {FALSE}]
=============================================================================
