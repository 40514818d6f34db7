----------------------------- MODULE ForcedPlan -----------------------------
(***************************************************************************)
(* A forced overwrite of several tables: cycleOverwritePlan of             *)
(* overwrite_plan.go, which checks every table of the plan before it       *)
(* overwrites the first partition, and the parts of ensureTargetTable and  *)
(* syncTable (main.go) it goes through.  Tables and partitions may vanish  *)
(* at any time; a run that ended may be repeated.                          *)
(*                                                                         *)
(* A step is one listing, or the synchronisation of one partition, which   *)
(* PartitionSync models in detail: here it either ends without an error,   *)
(* for a partition that still has the version listed, or fails, before or  *)
(* after its load.  A partition stands for itself and its match in the     *)
(* target, and partitions are numbered by range.  The checks of columns    *)
(* and schemas, where they fail, are failing calls.                        *)
(*                                                                         *)
(* A definition with an underscore in its name is a slip one could make in *)
(* the definition after it; the properties tell the two apart.             *)
(***************************************************************************)
EXTENDS Naturals, Sequences, FiniteSets

CONSTANTS Tables,      \* tables of the plan
          Parts,       \* partitions, numbered by range
          TableOf,     \* the table each belongs to
          MaxVersion,  \* bound: identities a source partition goes through
          MaxFaults    \* bound: errors, crashes and drops

ASSUME ConstantsAssumption ==
  /\ IsFiniteSet(Tables) /\ Tables # {}
  /\ IsFiniteSet(Parts) /\ Parts \subseteq Nat
  /\ TableOf \in [Parts -> Tables]
  /\ MaxVersion \in Nat \ {0} /\ MaxFaults \in Nat

PartsOf(t) == {p \in Parts : TableOf[p] = t}

VARIABLES
  plan,         \* the tables in the order of the plan, fixed
  selected,     \* the partitions it names, fixed
  auto,         \* the target tables with AUTO PARTITION, fixed
  sourceTables, \* the source tables there are
  targetTables, \* the target tables there are
  version,      \* identity of each source partition, 0 if it is not there
  targetParts,  \* the partitions the target has
  shown,        \* identity each target partition was last loaded with
  pc,           \* next step of the run, "ended" between runs
  turn,         \* number of the table at hand
  listed,       \* identities the last listing showed, 0 once dealt with
  found,        \* history: selected partitions the preflight found
  absent,       \* history: selected partitions no longer listed afterwards
  touched,      \* history: partitions whose target the run may have changed
  asked,        \* history: version when the run began
  outcome,      \* how the last run ended
  faults

planVars   == <<plan, selected, auto>>
sourceVars == <<sourceTables, version>>
targetVars == <<targetTables, targetParts, shown>>
history    == <<found, absent, touched, asked>>
vars == <<planVars, sourceVars, targetVars, pc, turn, listed, history, outcome, faults>>

table == plan[turn]

NoParts == [p \in Parts |-> 0]

(* The plan names every table once, and partitions of each.                *)
Plans == {s \in [1..Cardinality(Tables) -> Tables] : \A t \in Tables : \E i \in DOMAIN s : s[i] = t}

Selections == {ps \in SUBSET Parts : \A t \in Tables : ps \cap PartsOf(t) # {}}

Init == /\ plan \in Plans
        /\ selected \in Selections
        /\ auto \in SUBSET Tables
        /\ sourceTables = Tables
        /\ targetTables \in SUBSET Tables
        /\ version \in [Parts -> {0, 1}]
        /\ targetParts \in SUBSET {p \in Parts : TableOf[p] \in targetTables}
        /\ shown = NoParts
        /\ pc = "ended"
        /\ turn = 1
        /\ listed = NoParts
        /\ found = {} /\ absent = {} /\ touched = {}
        /\ asked = version
        /\ outcome = "none"
        /\ faults = 0

-----------------------------------------------------------------------------
(* The surroundings.                                                       *)
runVars == <<pc, turn, listed, history, outcome>>

SourceChange ==
  \E p \in Parts :
    /\ version[p] \in 1..(MaxVersion - 1)
    /\ version' = [version EXCEPT ![p] = @ + 1]
    /\ UNCHANGED <<planVars, sourceTables, targetVars, runVars, faults>>

Dropped ==
  /\ faults < MaxFaults
  /\ faults' = faults + 1
  /\ \/ \E p \in Parts :
          /\ version[p] # 0
          /\ version' = [version EXCEPT ![p] = 0]
          /\ UNCHANGED <<sourceTables, targetVars>>
     \/ \E t \in sourceTables :
          /\ sourceTables' = sourceTables \ {t}
          /\ version' = [p \in Parts |-> IF TableOf[p] = t THEN 0 ELSE version[p]]
          /\ UNCHANGED targetVars
     \/ \E p \in targetParts :
          /\ targetParts' = targetParts \ {p}
          /\ UNCHANGED <<sourceVars, targetTables, shown>>
     \/ \E t \in targetTables :
          /\ targetTables' = targetTables \ {t}
          /\ targetParts' = targetParts \ PartsOf(t)
          /\ UNCHANGED <<sourceVars, shown>>
  /\ UNCHANGED <<planVars, runVars>>

-----------------------------------------------------------------------------
Begin ==
  /\ pc = "ended"
  /\ pc' = "sourceTable"
  /\ turn' = 1
  /\ listed' = NoParts
  /\ found' = {} /\ absent' = {} /\ touched' = {}
  /\ asked' = version
  /\ outcome' = "none"
  /\ UNCHANGED <<planVars, sourceVars, targetVars, faults>>

(* The next table is dealt with, or the run goes on to s after the last.   *)
NextTable(first, s) ==
  IF turn = Len(plan) THEN turn' = 1 /\ pc' = s ELSE turn' = turn + 1 /\ pc' = first

Ends(o) == pc' = "ended" /\ outcome' = o

(* An error stops the run.                                                 *)
Stops == Ends("failed") /\ UNCHANGED <<turn, listed, found, absent, asked>>

GoesOn(s) == pc' = s /\ UNCHANGED <<turn, listed, found, absent, asked, outcome>>

-----------------------------------------------------------------------------
(* The preflight of one table.                                             *)
CheckSourceTable ==
  /\ pc = "sourceTable"
  /\ IF table \in sourceTables THEN GoesOn("targetTable") ELSE Stops
  /\ UNCHANGED <<planVars, sourceVars, targetVars, touched, faults>>

(* A forced run does not create the table.                                 *)
CheckTargetTable ==
  /\ pc = "targetTable"
  /\ IF table \in targetTables THEN GoesOn("listSource") ELSE Stops
  /\ UNCHANGED <<planVars, sourceVars, targetVars, touched, faults>>

Listing_AllParts == [p \in Parts |-> IF p \in PartsOf(table) THEN version[p] ELSE 0]

Listing == [p \in Parts |-> IF p \in selected \cap PartsOf(table) THEN version[p] ELSE 0]

Listed == {p \in Parts : listed[p] # 0}

ListSource ==
  /\ pc = "listSource"
  /\ listed' = Listing
  /\ pc' = "matchTarget"
  /\ UNCHANGED <<planVars, sourceVars, targetVars, turn, history, outcome, faults>>

(* A partition the target lacks can be created in an automatic table only. *)
Matched(p) == table \in targetTables /\ (p \in targetParts \/ table \in auto)

MatchTarget_ListedOnly ==
  /\ pc = "matchTarget"
  /\ IF \A p \in Listed : Matched(p)
     THEN /\ found' = found \cup Listed
          /\ NextTable("sourceTable", "listParts")
          /\ UNCHANGED <<listed, absent, asked, outcome>>
     ELSE Stops
  /\ UNCHANGED <<planVars, sourceVars, targetVars, touched, faults>>

MatchTarget ==
  /\ pc = "matchTarget"
  /\ IF selected \cap PartsOf(table) \subseteq Listed /\ \A p \in Listed : Matched(p)
     THEN /\ found' = found \cup Listed
          /\ NextTable("sourceTable", "listParts")
          /\ UNCHANGED <<listed, absent, asked, outcome>>
     ELSE Stops
  /\ UNCHANGED <<planVars, sourceVars, targetVars, touched, faults>>

-----------------------------------------------------------------------------
(* syncTable: what the plan names is picked from a new listing, and a      *)
(* table of which nothing is left is done.                                 *)
TableDone ==
  /\ NextTable("listParts", "ended")
  /\ outcome' = IF turn = Len(plan) THEN "done" ELSE outcome

ListParts ==
  /\ pc = "listParts"
  /\ listed' = Listing
  /\ absent' = absent \cup {p \in selected \cap PartsOf(table) : version[p] = 0}
  /\ IF table \notin sourceTables \cap targetTables
     THEN Ends("failed") /\ UNCHANGED turn
     ELSE IF listed' = NoParts
     THEN TableDone
     ELSE pc' = "syncPart" /\ UNCHANGED <<turn, outcome>>
  /\ UNCHANGED <<planVars, sourceVars, targetVars, found, touched, asked, faults>>

(* Partitions run in the order of their ranges.                            *)
AtHand == CHOOSE p \in Listed : \A q \in Listed : p <= q

(* syncPartition has loaded the partition at hand; what it loaded is empty *)
(* if a missing partition is not created.                                  *)
Loaded(p) ==
  /\ touched' = touched \cup {p}
  /\ shown' = [shown EXCEPT ![p] = listed[p]]
  /\ targetParts' \in {targetParts, targetParts \cup {p}}

HandledNext ==
  /\ listed' = [listed EXCEPT ![AtHand] = 0]
  /\ IF Listed = {AtHand} THEN TableDone ELSE UNCHANGED <<pc, turn, outcome>>

SyncPart_SkipsKnown ==
  /\ pc = "syncPart"
  /\ version[AtHand] = listed[AtHand]
  /\ Matched(AtHand)
  /\ IF shown[AtHand] = listed[AtHand] THEN UNCHANGED <<touched, shown, targetParts>>
                                       ELSE Loaded(AtHand)
  /\ HandledNext
  /\ UNCHANGED <<planVars, sourceVars, targetTables, found, absent, asked, faults>>

SyncPart ==
  /\ pc = "syncPart"
  /\ version[AtHand] = listed[AtHand]
  /\ Matched(AtHand)
  /\ Loaded(AtHand)
  /\ HandledNext
  /\ UNCHANGED <<planVars, sourceVars, targetTables, found, absent, asked, faults>>

(* It fails, and the run with it, if the source has changed or the target  *)
(* has gone, which may have happened before its load or after it.          *)
Failure_GoesOn == HandledNext /\ UNCHANGED <<found, absent, asked>>

Failure == Stops

SyncPartFails ==
  /\ pc = "syncPart"
  /\ version[AtHand] # listed[AtHand] \/ ~Matched(AtHand)
  /\ \/ UNCHANGED <<touched, shown, targetParts>>
     \/ table \in targetTables /\ Loaded(AtHand)
  /\ Failure
  /\ UNCHANGED <<planVars, sourceVars, targetTables, faults>>

(* Any call may fail, and the process may end.                             *)
CallFails ==
  /\ faults < MaxFaults
  /\ faults' = faults + 1
  /\ pc # "ended"
  /\ \/ UNCHANGED <<touched, shown, targetParts>>
     \/ pc = "syncPart" /\ table \in targetTables /\ Loaded(AtHand)
  /\ Stops
  /\ UNCHANGED <<planVars, sourceVars, targetTables>>

-----------------------------------------------------------------------------
Run == \/ Begin \/ CheckSourceTable \/ CheckTargetTable \/ ListSource \/ MatchTarget
       \/ ListParts \/ SyncPart \/ SyncPartFails \/ CallFails

Next == SourceChange \/ Dropped \/ Run

Spec == Init /\ [][Next]_vars

-----------------------------------------------------------------------------
Identities == [Parts -> 0..MaxVersion]

(* The type invariant; only what the plan names is listed or touched, and  *)
(* a partition is being synchronised only while some are listed.           *)
TypeOK ==
  /\ plan \in Plans /\ selected \in Selections /\ auto \subseteq Tables
  /\ sourceTables \subseteq Tables /\ targetTables \subseteq Tables
  /\ targetParts \subseteq Parts
  /\ version \in Identities /\ shown \in Identities /\ asked \in Identities
  /\ listed \in Identities
  /\ pc \in {"sourceTable", "targetTable", "listSource", "matchTarget", "listParts",
             "syncPart", "ended"}
  /\ turn \in DOMAIN plan
  /\ Listed \cup found \cup absent \cup touched \subseteq selected
  /\ pc = "syncPart" => Listed # {} /\ Listed \subseteq PartsOf(table)
  /\ outcome \in {"none", "done", "failed"}
  /\ faults \in 0..MaxFaults

(* Nothing in the target is changed before every partition of the plan, in *)
(* whichever table, was found in the source (the preflight of              *)
(* cycleOverwritePlan comes before the first export).                      *)
CheckedFirst == touched # {} => found = selected

(* The partitions before p in the plan: of earlier tables, or of earlier   *)
(* ranges in the same table.                                               *)
Before(q, p) ==
  \E i, j \in DOMAIN plan :
    plan[i] = TableOf[q] /\ plan[j] = TableOf[p] /\ (i < j \/ (i = j /\ q < p))

(* An error stops the run before later partitions and tables: a partition  *)
(* is changed only if all before it were, but for those that were gone     *)
(* when their table's turn came.                                           *)
StoppedByError ==
  \A p \in touched, q \in selected : Before(q, p) => q \in touched \cup absent

(* A run that ends well has overwritten every partition that was there,    *)
(* with what it held when the run began or later, even if the target had   *)
(* that version already.                                                   *)
DoneComplete ==
  outcome = "done" =>
    \A p \in selected \ absent : p \in touched /\ shown[p] >= asked[p]
=============================================================================
