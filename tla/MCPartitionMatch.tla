-------------------------- MODULE MCPartitionMatch --------------------------
(***************************************************************************)
(* matchTargetPartition over all short lists of partitions, evaluated by   *)
(* TLC before the runs of MCPartitionSync, whose synchroniser relies on    *)
(* it.  What PartitionMatchProofs shows for all lists is true of these.    *)
(***************************************************************************)
EXTENDS PartitionMatch

(* Two names, two bounds, up to three target and two source partitions.    *)
FewPartitions == Partitions({"p", "q"}, {"b", "c"})
ListsTo(n)    == UNION {[1..k -> FewPartitions] : k \in 0..n}

Sources == {list \in ListsTo(2) : Distinct(list) /\ AllOrNone(list)}
Targets == {list \in ListsTo(2) : Distinct(list)}

ASSUME MatchChecked ==
  /\ \A s \in FewPartitions, ts \in ListsTo(3) : BoundsRespected(s, ts) /\ OneMatch(s, ts)
  /\ \A ss \in Sources, ts \in Targets : MatchedApart(ss, ts)
  /\ \A s \in FewPartitions, ts \in Targets :
       \A f \in {g \in [DOMAIN ts -> DOMAIN ts] : \A i, j \in DOMAIN ts : g[i] = g[j] => i = j} :
         OrderIrrelevant(s, ts, f)
=============================================================================
