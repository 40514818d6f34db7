--------------------------- MODULE PartitionMatch ---------------------------
(***************************************************************************)
(* matchTargetPartition of database.go: which target partition a source    *)
(* partition is imported into.  PartitionSync and ForcedPlan rely on it to *)
(* give every source partition a target partition of its own.              *)
(*                                                                         *)
(* A partition is a record of its name and its bounds.  The bounds are a   *)
(* set: {b} if its range shows a lower and an upper one, {} if not, as for *)
(* LIST partitions and tables without partitions.                          *)
(*                                                                         *)
(* The definition with an underscore in its name is a slip one could make  *)
(* in the definition after it.                                             *)
(***************************************************************************)
EXTENDS Naturals, FiniteSets

(* Target partitions with the bounds of source, and those with its name.   *)
SameRange(source, targets) ==
  {i \in DOMAIN targets : source.bounds # {} /\ targets[i].bounds = source.bounds}

SameName(source, targets) == {i \in DOMAIN targets : targets[i].name = source.name}

Last(is) == CHOOSE i \in is : \A j \in is : j <= i

(* Two partitions have the bounds, or none has them and the one with the   *)
(* name has others.                                                        *)
MatchFails(source, targets) ==
  LET ranges == SameRange(source, targets)
      same   == SameName(source, targets)
  IN  \/ \E i, j \in ranges : i # j
      \/ /\ ranges = {} /\ same # {}
         /\ source.bounds # {} /\ targets[Last(same)].bounds \notin {{}, source.bounds}

(* The number of the match in the list, or nothing; bounds go before the   *)
(* name.                                                                   *)
matchTargetPartition_NameFirst(source, targets) ==
  IF MatchFails(source, targets) THEN {}
  ELSE IF SameName(source, targets) # {} THEN {Last(SameName(source, targets))}
  ELSE SameRange(source, targets)

matchTargetPartition(source, targets) ==
  IF MatchFails(source, targets) THEN {}
  ELSE IF SameRange(source, targets) # {} THEN SameRange(source, targets)
  ELSE IF SameName(source, targets) # {} THEN {Last(SameName(source, targets))}
  ELSE {}

-----------------------------------------------------------------------------
Partitions(Names, Bounds) == [name : Names, bounds : {{}} \cup {{b} : b \in Bounds}]

Distinct(list) ==
  \A i, j \in DOMAIN list : i # j => /\ list[i].name # list[j].name
                                     /\ list[i].bounds = {} \/ list[i].bounds # list[j].bounds

(* All partitions of a table show their bounds, or none does.              *)
AllOrNone(list) ==
  \/ \A i \in DOMAIN list : list[i].bounds # {}
  \/ \A i \in DOMAIN list : list[i].bounds = {}

(* A target partition is never replaced by the rows of a source partition  *)
(* with other bounds, whatever their names.                                *)
BoundsRespected(source, targets) ==
  \A i \in matchTargetPartition(source, targets) :
    targets[i].bounds = {} \/ source.bounds = {} \/ targets[i].bounds = source.bounds

(* Two partitions of a source table are never imported into the same       *)
(* target partition, where each would replace what the other had brought.  *)
MatchedApart(sources, targets) ==
  \A i, j \in DOMAIN sources :
    i # j => matchTargetPartition(sources[i], targets)
               \cap matchTargetPartition(sources[j], targets) = {}

(* There is at most one match, and a partition that has the bounds is it,  *)
(* under any name: AUTO PARTITION makes up names of its own.               *)
OneMatch(source, targets) ==
  /\ \A i, j \in matchTargetPartition(source, targets) : i = j
  /\ \A i \in SameRange(source, targets) :
       ~MatchFails(source, targets) => i \in matchTargetPartition(source, targets)

(* The match does not depend on the order of the list: a list that is      *)
(* shuffled gives the same partition.                                      *)
OrderIrrelevant(source, targets, f) ==
  LET shuffled == [i \in DOMAIN targets |-> targets[f[i]]] IN
  /\ MatchFails(source, shuffled) <=> MatchFails(source, targets)
  /\ \A i \in DOMAIN targets :
       i \in matchTargetPartition(source, shuffled)
         <=> f[i] \in matchTargetPartition(source, targets)
=============================================================================
