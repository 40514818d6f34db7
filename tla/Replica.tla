------------------------------ MODULE Replica ------------------------------
(***************************************************************************)
(* What the synchroniser promises for one partition: the target partition  *)
(* is missing, or shows the rows of exactly one snapshot of the source     *)
(* partition, and the snapshot it shows only moves forward.  Nothing is    *)
(* said of backups, checkpoints or retries: PartitionSync implements this. *)
(*                                                                         *)
(* Snapshots are numbered in the order in which the source shows them.     *)
(* The rows of snapshot i are the set {i}, or {} when the source partition *)
(* had no rows then; number 0 stands for rows that came from elsewhere.    *)
(***************************************************************************)
EXTENDS Naturals, Sequences

VARIABLES source,     \* number of the snapshot the source partition shows now
          blank,      \* the snapshots without rows
          position,   \* the snapshot the target was last refreshed from, 0 at first
          shown       \* the loads the target's rows come from; <<>> if it is missing

vars == <<source, blank, position, shown>>

Rows(i) == {i} \ blank

Init == /\ source = 1
        /\ blank \in SUBSET {1}
        /\ position = 0
        /\ shown \in {<<>>, <<{}>>, <<{0}>>}

(***************************************************************************)
(* The source partition gets a new visible version (or a new partition id).*)
(***************************************************************************)
Write == /\ source' = source + 1
         /\ blank' \in {blank, blank \cup {source + 1}}
         /\ UNCHANGED <<position, shown>>

(***************************************************************************)
(* All rows of the target are replaced by those of one snapshot, no older  *)
(* than the one shown so far.                                              *)
(***************************************************************************)
Refresh == \E i \in position..source :
              /\ i > 0
              /\ position' = i
              /\ shown' = <<Rows(i)>>
              /\ UNCHANGED <<source, blank>>

(***************************************************************************)
(* Somebody drops the target partition.                                    *)
(***************************************************************************)
Lose == /\ shown' = <<>>
        /\ UNCHANGED <<source, blank, position>>

Next == Write \/ Refresh \/ Lose

Spec == Init /\ [][Next]_vars
=============================================================================
