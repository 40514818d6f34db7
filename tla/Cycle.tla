------------------------------- MODULE Cycle -------------------------------
(***************************************************************************)
(* The service in overwrite mode over the tables of one database: cycle of *)
(* main.go, which first checks every table (ensureTargetTable) and then    *)
(* synchronises one table after another (syncTable), and the version scan  *)
(* (maybeScanCompleted), which cuts in before a partition when the last    *)
(* one is an interval ago, and goes over all tables by itself.             *)
(*                                                                         *)
(* A step is one call that reads what others change, with what follows     *)
(* from it.  syncPartition is three steps, backup, load and confirmation:  *)
(* PartitionSync has it call by call.  A table is one that the options     *)
(* allow and that is not a view, and stays where it is; target partitions  *)
(* are dropped by nobody.  Columns are numbered in the order the source    *)
(* goes through them, and so are the versions of a partition.              *)
(*                                                                         *)
(* A definition with an underscore in its name is a slip one could make in *)
(* the definition after it; the properties tell the two apart.             *)
(***************************************************************************)
EXTENDS Naturals, FiniteSets, Functions

CONSTANTS Tables,      \* tables, numbered by name
          Names,       \* partition names, numbered by range
          Parts,       \* partitions: pairs of a table and a name
          Selections,  \* sets of names the process may be told to keep to, {} for all
          Starts,      \* sets of partitions the source may start with
          Created,     \* sets of tables the target may start with
          MaxVersion,  \* bound: versions a partition goes through
          MaxColumns,  \* bound: columns a table goes through
          MaxChanges,  \* bound: changes of the source
          MaxFaults    \* bound: errors, crashes and restarts

ASSUME ConstantsAssumption ==
  /\ Tables \subseteq Nat /\ IsFiniteSet(Tables) /\ Tables # {}
  /\ Names \subseteq Nat /\ IsFiniteSet(Names) /\ Parts \subseteq Tables \X Names
  /\ Selections \subseteq SUBSET Names /\ Selections # {} /\ Starts \subseteq SUBSET Parts
  /\ Created \subseteq SUBSET Tables
  /\ MaxVersion \in Nat \ {0} /\ MaxColumns \in Nat \ {0}
  /\ MaxChanges \in Nat /\ MaxFaults \in Nat


PartsOf(t) == {p \in Parts : p[1] = t}

(* A partition that was dropped; 0 is the version of one not yet there.    *)
Gone == MaxVersion + 1

Versions == 1..MaxVersion
Layouts  == 1..MaxColumns

First(S) == CHOOSE x \in S : \A y \in S : x <= y

VARIABLES
  selection,     \* the partition names the process keeps to
  version,       \* source: version of each partition
  columns,       \* source: columns of each table
  targetColumns, \* target: columns of each table, 0 if it is missing
  shown,         \* target: version each partition was loaded from, 0 before any load
  hash,          \* state file: columns recorded for each table, 0 before
  inventory,     \* state file: number of partitions recorded for each table
  row,           \* state file: the row of each partition
  pc,            \* next step, "idle" between cycles
  left,          \* tables the cycle has still to check, or to synchronise
  ready,         \* tables that passed the check
  seen,          \* names of their partitions
  names,         \* columns syncTable has read
  listed,        \* versions of the partitions it has still to synchronise, 0 for others
  scanning,      \* whether the scan has cut in
  scanLeft,      \* tables it has still to deal with
  scanNames,     \* columns it has read
  candidates,    \* versions of the partitions it has still to synchronise
  failed,        \* whether a table or a partition of the cycle has failed
  owed,          \* history: partitions whose version at its start is not imported
  clean,         \* whether the last cycle ended without an error
  changes, faults

sourceVars == <<version, columns>>
targetVars == <<targetColumns, shown>>
stateVars  == <<hash, inventory, row>>
checkVars  == <<left, ready, seen>>
tableVars  == <<names, listed>>
scanVars   == <<scanning, scanLeft, scanNames, candidates>>
bounds     == <<changes, faults>>
vars == <<selection, sourceVars, targetVars, stateVars, pc, checkVars, tableVars,
          scanVars, failed, owed, clean, bounds>>

NoParts == [p \in Parts |-> 0]
NoRow   == [source |-> 0, imported |-> 0, backed |-> FALSE, importing |-> FALSE]

There(p) == version[p] \in Versions

Selected(p) == selection = {} \/ p[2] \in selection

Init == /\ selection \in Selections
        /\ \E ps \in Starts : version = [p \in Parts |-> IF p \in ps THEN 1 ELSE 0]
        /\ columns = [t \in Tables |-> 1]
        /\ \E ts \in Created : targetColumns = [t \in Tables |-> IF t \in ts THEN 1 ELSE 0]
        /\ shown = NoParts
        /\ hash = [t \in Tables |-> 0]
        /\ inventory = [t \in Tables |-> 0]
        /\ row = [p \in Parts |-> NoRow]
        /\ pc = "idle"
        /\ left = {} /\ ready = {} /\ seen = {}
        /\ names = 0
        /\ listed = NoParts
        /\ scanning = FALSE /\ scanLeft = {} /\ scanNames = 0 /\ candidates = NoParts
        /\ failed = FALSE
        /\ owed = {}
        /\ clean = FALSE
        /\ changes = 0 /\ faults = 0

-----------------------------------------------------------------------------
(***************************************************************************)
(* The surroundings.                                                       *)
(***************************************************************************)
processVars == <<pc, checkVars, tableVars, scanVars, failed, clean>>

SourceChange ==
  /\ changes < MaxChanges
  /\ changes' = changes + 1
  /\ \/ \E p \in Parts :
          /\ version[p] < MaxVersion
          /\ version' = [version EXCEPT ![p] = @ + 1]
          /\ UNCHANGED <<columns, owed>>
     \/ \E p \in Parts :
          /\ There(p)
          /\ version' = [version EXCEPT ![p] = Gone]
          /\ owed' = owed \ {p}
          /\ UNCHANGED columns
     \/ \E t \in Tables :
          /\ columns[t] < MaxColumns
          /\ columns' = [columns EXCEPT ![t] = @ + 1]
          /\ UNCHANGED <<version, owed>>
  /\ UNCHANGED <<selection, targetVars, stateVars, processVars, faults>>

(* The operator gives the target table the columns of the source.          *)
Migrate ==
  /\ \E t \in Tables :
       /\ targetColumns[t] \notin {0, columns[t]}
       /\ targetColumns' = [targetColumns EXCEPT ![t] = columns[t]]
  /\ UNCHANGED <<selection, sourceVars, shown, stateVars, processVars, owed, bounds>>

-----------------------------------------------------------------------------
(***************************************************************************)
(* cycle: every table is checked, and created if it is missing, before the *)
(* first partition is synchronised.                                        *)
(***************************************************************************)
Current(p) == row[p].imported = version[p] /\ row[p].backed /\ ~row[p].importing

Begin ==
  /\ pc = "idle"
  /\ pc' = "create"
  /\ left' = Tables
  /\ ready' = {}
  /\ seen' = {}
  /\ failed' = FALSE
  /\ clean' = FALSE
  /\ owed' = {p \in Parts : There(p) /\ Selected(p) /\ row[p].imported # version[p]}
  /\ UNCHANGED <<selection, sourceVars, targetVars, stateVars, tableVars, scanVars,
                 bounds>>

table == First(left)

CreateTable ==
  /\ pc = "create"
  /\ targetColumns' = [targetColumns EXCEPT ![table] = IF @ = 0 THEN columns[table] ELSE @]
  /\ pc' = "check"
  /\ UNCHANGED <<selection, sourceVars, shown, stateVars, checkVars, tableVars,
                 scanVars, failed, owed, clean, bounds>>

(* The table at hand is checked; tables that are not ready are left out.   *)
Checked_EachAtOnce ==
  /\ left' = left \ {table}
  /\ pc' = "select"

Checked ==
  /\ left' = left \ {table}
  /\ pc' = IF left' = {} THEN "select" ELSE "create"

CheckFails ==
  /\ Checked
  /\ failed' = TRUE
  /\ UNCHANGED <<ready, seen, inventory>>

(* The number of partitions replaces the one recorded before.              *)
Inventory_Once(t, n) == IF inventory[t] = 0 THEN n ELSE inventory[t]

Inventory(t, n) == n

CheckTable ==
  /\ pc = "check"
  /\ IF targetColumns[table] # columns[table]
     THEN CheckFails
     ELSE LET parts == {p \in PartsOf(table) : There(p)} IN
          /\ Checked
          /\ ready' = ready \cup {table}
          /\ seen' = seen \cup {p[2] : p \in parts}
          /\ inventory' = [inventory EXCEPT ![table] = Inventory(table, Cardinality(parts))]
          /\ UNCHANGED failed
  /\ UNCHANGED <<selection, sourceVars, targetVars, hash, row, tableVars, scanVars,
                 owed, clean, bounds>>

CycleEnds(ok) == pc' = "idle" /\ clean' = ok /\ ready' = {}

(* Names that no table has end the cycle.                                  *)
SelectTables ==
  /\ pc = "select"
  /\ IF selection \subseteq seen /\ ready # {}
     THEN left' = ready /\ pc' = "columns" /\ UNCHANGED <<ready, clean>>
     ELSE CycleEnds(selection \subseteq seen /\ ~failed) /\ UNCHANGED left
  /\ seen' = {}
  /\ UNCHANGED <<selection, sourceVars, targetVars, stateVars, tableVars, scanVars, failed,
                 owed, bounds>>

-----------------------------------------------------------------------------
(***************************************************************************)
(* syncTable: the columns and the partitions are listed once, then the     *)
(* partitions are taken by range.  An error leaves the rest of the table,  *)
(* or of one partition, to the next cycle.                                 *)
(***************************************************************************)
TableDone_LastError(error) ==
  /\ left' = left \ {table}
  /\ failed' = error
  /\ names' = 0
  /\ listed' = NoParts
  /\ IF left' = {} THEN CycleEnds(~failed') ELSE pc' = "columns" /\ UNCHANGED <<ready, clean>>

TableDone_EndsCycle(error) ==
  /\ left' = left \ {table}
  /\ failed' = (failed \/ error)
  /\ names' = 0
  /\ listed' = NoParts
  /\ IF left' = {} \/ error
     THEN CycleEnds(~failed')
     ELSE pc' = "columns" /\ UNCHANGED <<ready, clean>>

TableDone(error) ==
  /\ left' = left \ {table}
  /\ failed' = (failed \/ error)
  /\ names' = 0
  /\ listed' = NoParts
  /\ IF left' = {} THEN CycleEnds(~failed') ELSE pc' = "columns" /\ UNCHANGED <<ready, clean>>

ReadColumns ==
  /\ pc = "columns"
  /\ names' = columns[table]
  /\ pc' = "list"
  /\ UNCHANGED <<selection, sourceVars, targetVars, stateVars, checkVars, listed, scanVars,
                 failed, owed, clean, bounds>>

Listing_All(ps) == [p \in Parts |-> IF p \in ps /\ There(p) THEN version[p] ELSE 0]

Listing(ps) == [p \in Parts |-> IF p \in ps /\ There(p) /\ Selected(p) THEN version[p] ELSE 0]

ListParts ==
  /\ pc = "list"
  /\ listed' = Listing(PartsOf(table))
  /\ pc' = "compare"
  /\ UNCHANGED <<selection, sourceVars, targetVars, stateVars, checkVars, names, scanVars,
                 failed, owed, clean, bounds>>

(* The columns recorded are never replaced by others.                      *)
Compatible_NotRecorded == targetColumns[table] = names

Compatible == hash[table] \in {0, names} /\ targetColumns[table] = names

(* A table without partitions is done.                                     *)
Empty_Never == FALSE

Empty == listed = NoParts

CompareColumns ==
  /\ pc = "compare"
  /\ IF Compatible
     THEN /\ hash' = [hash EXCEPT ![table] = names]
          /\ IF Empty
             THEN TableDone(FALSE)
             ELSE pc' = "next" /\ UNCHANGED <<left, ready, failed, tableVars, clean>>
     ELSE TableDone(TRUE) /\ UNCHANGED hash
  /\ UNCHANGED <<selection, sourceVars, targetVars, inventory, row, seen, scanVars, owed,
                 bounds>>

(* Before each partition: the scan, if an interval has gone by since the   *)
(* last one, which is left open here.                                      *)
NextPart ==
  /\ pc = "next"
  /\ \/ pc' = "sync" /\ UNCHANGED <<scanning, scanLeft>>
     \/ /\ scanning' = TRUE
        /\ scanLeft' = {t \in Tables :
                          \E p \in PartsOf(t) : row[p].imported # 0 /\ Selected(p)}
        /\ pc' = IF scanLeft' = {} THEN "relist" ELSE "scanList"
  /\ UNCHANGED <<selection, sourceVars, targetVars, stateVars, checkVars, tableVars, scanNames,
                 candidates, failed, owed, clean, bounds>>

-----------------------------------------------------------------------------
(***************************************************************************)
(* maybeScanCompleted: every partition imported once whose version is      *)
(* another now, or whose import was cut short, is synchronised with the    *)
(* columns its table has now.  The columns recorded are not looked at.     *)
(***************************************************************************)
scanTable == First(scanLeft)

ScannedTable ==
  /\ scanLeft' = scanLeft \ {scanTable}
  /\ candidates' = NoParts
  /\ pc' = IF scanLeft' = {} THEN "relist" ELSE "scanList"

Picked(p) == row[p].imported # 0 /\ (row[p].imported # version[p] \/ row[p].importing)

ScanList ==
  /\ pc = "scanList"
  /\ IF \E p \in PartsOf(scanTable) : Picked(p) /\ There(p) /\ Selected(p)
     THEN /\ candidates' = Listing({p \in PartsOf(scanTable) : Picked(p)})
          /\ pc' = "scanColumns"
          /\ UNCHANGED scanLeft
     ELSE ScannedTable
  /\ UNCHANGED <<selection, sourceVars, targetVars, stateVars, checkVars, tableVars,
                 scanning, scanNames, failed, owed, clean, bounds>>

ScanColumns ==
  /\ pc = "scanColumns"
  /\ scanNames' = columns[scanTable]
  /\ pc' = "sync"
  /\ UNCHANGED <<selection, sourceVars, targetVars, stateVars, checkVars, tableVars,
                 scanning, scanLeft, candidates, failed, owed, clean, bounds>>

(* Partitions are taken by range.                                          *)
NextOf(queue) == CHOOSE p \in Parts : /\ queue[p] # 0
                                      /\ \A q \in Parts : queue[q] # 0 => p[2] <= q[2]

(* The loop goes on to its partition, as the source shows it now; it gives *)
(* the table up if that has gone.                                          *)
Relist ==
  /\ pc = "relist"
  /\ scanning' = FALSE
  /\ scanNames' = 0
  /\ LET p == NextOf(listed) IN
     IF There(p)
     THEN /\ listed' = [listed EXCEPT ![p] = version[p]]
          /\ pc' = "sync"
          /\ UNCHANGED <<left, ready, failed, names, clean>>
     ELSE TableDone(TRUE)
  /\ UNCHANGED <<selection, sourceVars, targetVars, stateVars, seen, scanLeft, candidates,
                 owed, bounds>>

-----------------------------------------------------------------------------
(***************************************************************************)
(* syncPartition, called by the loop or by the scan for the partition at   *)
(* hand, with the version listed and the columns read by its caller.       *)
(***************************************************************************)
Queue == IF scanning THEN candidates ELSE listed

AtHand == NextOf(Queue)

InUse == IF scanning THEN scanNames ELSE names

(* An error of a partition is logged, and the next one taken; one of the   *)
(* scan's does not count for the cycle.                                    *)
PartDone(error) ==
  LET rest == [Queue EXCEPT ![AtHand] = 0] IN
  IF scanning
  THEN /\ IF rest = NoParts
          THEN ScannedTable
          ELSE candidates' = rest /\ pc' = "sync" /\ UNCHANGED scanLeft
       /\ UNCHANGED <<left, ready, failed, tableVars, clean>>
  ELSE /\ IF rest = NoParts
          THEN TableDone(error)
          ELSE /\ listed' = rest /\ pc' = "next" /\ failed' = (failed \/ error)
               /\ UNCHANGED <<left, ready, names, clean>>
       /\ UNCHANGED <<scanLeft, candidates>>

Known(p) == row[p].imported = Queue[p] /\ row[p].backed /\ ~row[p].importing

SkipPart ==
  /\ pc = "sync"
  /\ Known(AtHand)
  /\ PartDone(FALSE)
  /\ UNCHANGED <<selection, sourceVars, targetVars, stateVars, seen, scanning, scanNames,
                 owed, bounds>>

(* A backup of the version listed, unless the row has one.                 *)
HasBackup_AnyVersion(p) == row[p].backed

HasBackup(p) == row[p].source = Queue[p] /\ row[p].backed

BackupPart ==
  /\ pc = "sync"
  /\ ~Known(AtHand)
  /\ version[AtHand] = Queue[AtHand]
  /\ row' = IF HasBackup(AtHand)
            THEN row
            ELSE [row EXCEPT ![AtHand] = [source |-> Queue[AtHand], imported |-> @.imported,
                                          backed |-> TRUE, importing |-> FALSE]]
  /\ pc' = "load"
  /\ UNCHANGED <<selection, sourceVars, targetVars, hash, inventory, checkVars, tableVars,
                 scanVars, failed, owed, clean, bounds>>

(* What is loaded is the backup of the row.                                *)
LoadPart ==
  /\ pc = "load"
  /\ version[AtHand] = Queue[AtHand]
  /\ row' = [row EXCEPT ![AtHand].importing = TRUE]
  /\ shown' = [shown EXCEPT ![AtHand] = row[AtHand].source]
  /\ pc' = "confirm"
  /\ UNCHANGED <<selection, sourceVars, targetColumns, hash, inventory, checkVars, tableVars,
                 scanVars, failed, owed, clean, bounds>>

Working == pc = "load" \/ (pc = "sync" /\ ~Known(AtHand))

(* A call that fails before its load leaves the row as it was, or with a   *)
(* new backup begun, or with the load begun.                               *)
Attempts ==
  LET r == row[AtHand]
      v == Queue[AtHand]
      begun == [source |-> v, imported |-> r.imported, backed |-> FALSE, importing |-> FALSE]
  IN  CASE pc = "load" -> {r, [r EXCEPT !.importing = TRUE]}
        [] pc # "load" /\ HasBackup(AtHand) -> {r}
        [] OTHER -> {r, begun}

AttemptFails ==
  /\ \E r \in Attempts : row' = [row EXCEPT ![AtHand] = r]
  /\ PartDone(TRUE)

(* The source has changed since the listing, or the target table does not  *)
(* take the columns.                                                       *)
PartFails ==
  /\ \/ pc = "sync" /\ ~Known(AtHand) /\ version[AtHand] # Queue[AtHand]
     \/ pc = "load" /\ (version[AtHand] # Queue[AtHand] \/ targetColumns[AtHand[1]] # InUse)
  /\ AttemptFails
  /\ UNCHANGED <<selection, sourceVars, targetVars, hash, inventory, seen, scanning, scanNames,
                 owed, bounds>>

ConfirmPart ==
  /\ pc = "confirm"
  /\ IF version[AtHand] = Queue[AtHand]
     THEN /\ row' = [row EXCEPT ![AtHand].imported = Queue[AtHand], ![AtHand].importing = FALSE]
          /\ owed' = owed \ {AtHand}
          /\ PartDone(FALSE)
     ELSE PartDone(TRUE) /\ UNCHANGED <<row, owed>>
  /\ UNCHANGED <<selection, sourceVars, targetVars, hash, inventory, seen, scanning, scanNames,
                 bounds>>

-----------------------------------------------------------------------------
(***************************************************************************)
(* Any call may fail, and the process may end, of itself or because its    *)
(* state file cannot be written, and be started again with other options.  *)
(***************************************************************************)
Fault == faults < MaxFaults /\ faults' = faults + 1 /\ UNCHANGED changes

CallFails ==
  /\ Fault
  /\ \/ /\ pc \in {"create", "check"}
        /\ CheckFails
        /\ UNCHANGED <<hash, row, tableVars, scanVars, owed, clean>>
     \/ /\ pc \in {"columns", "list", "compare", "relist"}
        /\ TableDone(TRUE)
        /\ scanning' = FALSE /\ scanNames' = 0
        /\ UNCHANGED <<stateVars, seen, scanLeft, candidates, owed>>
     \/ /\ pc \in {"scanList", "scanColumns"}
        /\ ScannedTable
        /\ UNCHANGED <<stateVars, checkVars, tableVars, scanning, scanNames, failed, owed,
                       clean>>
     \/ /\ Working
        /\ AttemptFails
        /\ UNCHANGED <<hash, inventory, seen, scanning, scanNames, owed>>
     \/ /\ pc = "confirm"
        /\ PartDone(TRUE)
        /\ UNCHANGED <<stateVars, seen, scanning, scanNames, owed>>
  /\ UNCHANGED <<selection, sourceVars, targetVars>>

Restart ==
  /\ Fault
  /\ selection' \in Selections
  /\ IF Working
     THEN \E r \in Attempts : row' = [row EXCEPT ![AtHand] = r]
     ELSE UNCHANGED row
  /\ pc' = "idle"
  /\ left' = {} /\ ready' = {} /\ seen' = {}
  /\ names' = 0 /\ listed' = NoParts
  /\ scanning' = FALSE /\ scanLeft' = {} /\ scanNames' = 0 /\ candidates' = NoParts
  /\ failed' = FALSE
  /\ owed' = {}
  /\ clean' = FALSE
  /\ UNCHANGED <<sourceVars, targetVars, hash, inventory>>

-----------------------------------------------------------------------------
Run == \/ Begin \/ CreateTable \/ CheckTable \/ SelectTables
       \/ ReadColumns \/ ListParts \/ CompareColumns \/ NextPart
       \/ ScanList \/ ScanColumns \/ Relist
       \/ SkipPart \/ BackupPart \/ LoadPart \/ PartFails \/ ConfirmPart

Next == SourceChange \/ Migrate \/ Run \/ CallFails \/ Restart

Spec == Init /\ [][Next]_vars

(* The service runs one cycle after another.                               *)
FairSpec == Spec /\ WF_vars(Run)

-----------------------------------------------------------------------------
Rows == [source : 0..MaxVersion, imported : 0..MaxVersion, backed : BOOLEAN, importing : BOOLEAN]

Steps == {"idle", "create", "check", "select", "columns", "list", "compare", "next",
          "scanList", "scanColumns", "relist", "sync", "load", "confirm"}

(* The type invariant; a cycle in the middle of something has a table, a   *)
(* partition or a table of the scan at hand, and a table with recorded     *)
(* columns is there in the target.                                         *)
TypeOK ==
  /\ selection \in Selections
  /\ version \in [Parts -> 0..Gone] /\ columns \in [Tables -> Layouts]
  /\ targetColumns \in [Tables -> 0..MaxColumns]
  /\ shown \in [Parts -> 0..MaxVersion]
  /\ hash \in [Tables -> 0..MaxColumns] /\ inventory \in [Tables -> 0..Cardinality(Names)]
  /\ row \in [Parts -> Rows]
  /\ failed \in BOOLEAN /\ scanning \in BOOLEAN
  /\ pc \in Steps
  /\ left \subseteq Tables /\ ready \subseteq Tables /\ scanLeft \subseteq Tables
  /\ seen \subseteq Names
  /\ names \in 0..MaxColumns /\ scanNames \in 0..MaxColumns
  /\ listed \in [Parts -> 0..MaxVersion] /\ candidates \in [Parts -> 0..MaxVersion]
  /\ owed \subseteq Parts
  /\ clean \in BOOLEAN
  /\ pc \notin {"idle", "select"} => left # {}
  /\ pc \in {"next", "relist", "sync", "load", "confirm"} \/ scanning =>
       \E p \in PartsOf(table) : listed[p] # 0
  /\ scanning /\ pc # "relist" => scanLeft # {}
  /\ scanning /\ pc \in {"scanColumns", "sync", "load", "confirm"} =>
       \E p \in PartsOf(scanTable) : candidates[p] # 0
  /\ changes \in 0..MaxChanges /\ faults \in 0..MaxFaults

(* What the loop loads, it loads with the columns recorded for the table,  *)
(* and those are never replaced: all that it ever loads into a table has   *)
(* the same columns, however often those of source and target change       *)
(* before, between and after its calls.                                    *)
LoopAsRecorded ==
  [][/\ \A p \in Parts : shown'[p] # shown[p] /\ ~scanning => InUse = hash[p[1]]
     /\ \A t \in Tables : hash[t] \in {0, hash'[t]}]_vars

(* All missing target tables are created before any partition is copied,   *)
(* but for tables that failed their check.                                 *)
CreatedFirst ==
  pc \in Steps \ {"idle", "create", "check", "select"} =>
    \A t \in Tables : IF t \in ready THEN targetColumns[t] # 0 ELSE failed

(* A cycle that reports no error has imported every selected partition in  *)
(* the version it had when the cycle began or a later one, although scans  *)
(* have cut in and lists have gone stale: this is what the exit status of  *)
(* a run with --once says.                                                 *)
CleanCycle == clean => owed = {}

(* A partition the state file calls up to date, which the loop and the     *)
(* scan then leave alone, shows the version the source has now: whichever  *)
(* of the two loaded it last, and whatever was cut short or went stale.    *)
RecordedShown == \A p \in Parts : There(p) /\ Current(p) => shown[p] = version[p]

(* Only partitions of the selection are loaded, by the scan too, whose     *)
(* rows may be those of an earlier process with another selection.         *)
OnlySelected == [][\A p \in Parts : UNCHANGED shown[p] \/ Selected(p)]_vars

(* Up to date in the state file and in the target.                         *)
Synced(t) ==
  \A p \in PartsOf(t) : There(p) /\ Selected(p) => Current(p) /\ shown[p] = version[p]

(* Names selected that only a table without fitting columns has end every  *)
(* cycle before its first partition.                                       *)
Fits(t)   == columns[t] = targetColumns[t]
AllNamed == selection \subseteq {p[2] : p \in {q \in Parts : There(q) /\ Fits(q[1])}}

(* A table whose columns fit the target and the record is synchronised for *)
(* good once changes and errors end, whatever is wrong with other tables   *)
(* and however often the scan cuts in.                                     *)
EventuallySynced ==
  \A t \in Tables : <>[](Fits(t) /\ hash[t] \in {0, columns[t]} /\ AllNamed) => <>[]Synced(t)

(* The counts of a status report.                                          *)
CurrentPartitions ==
  Cardinality({p \in Parts : /\ row[p].imported # 0 /\ row[p].imported = row[p].source
                             /\ ~row[p].importing})

KnownTotalPartitions == FoldFunction(+, 0, inventory)

(* The progress a status report shows comes to exactly 100 percent, as     *)
(* long as nothing was dropped and nothing left out.                       *)
ProgressCompletes ==
  <>[](/\ \A t \in Tables : Fits(t) /\ hash[t] \in {0, columns[t]}
       /\ selection = {} /\ \A p \in Parts : version[p] # Gone)
    => <>[](CurrentPartitions = KnownTotalPartitions)

(* After a migration of the target table the next syncs go on with the     *)
(* table: README.md asks for nothing else, and neither does the message of *)
(* syncTable.                                                              *)
MigratedResumes ==
  \A t \in Tables : <>[](Fits(t) /\ AllNamed) => <>[]Synced(t)
=============================================================================
