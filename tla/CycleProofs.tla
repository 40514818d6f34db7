---------------------------- MODULE CycleProofs ----------------------------
(***************************************************************************)
(* Proofs about Cycle, for any tables, partitions and selections, and any  *)
(* number of changes, errors and restarts.                                 *)
(***************************************************************************)
EXTENDS Cycle, FiniteSetTheorems, FunctionTheorems, WellFoundedInduction, TLAPS

(***************************************************************************)
(* The inductive invariant.  The parts of the type invariant first.        *)
(***************************************************************************)
SourceOK ==
  /\ selection \in Selections
  /\ version \in [Parts -> 0..Gone] /\ columns \in [Tables -> Layouts]
  /\ owed \subseteq Parts

TargetOK ==
  /\ targetColumns \in [Tables -> 0..MaxColumns]
  /\ shown \in [Parts -> 0..MaxVersion]

StateOK ==
  /\ hash \in [Tables -> 0..MaxColumns] /\ inventory \in [Tables -> 0..Cardinality(Names)]
  /\ row \in [Parts -> Rows]

CheckOK == left \subseteq Tables /\ ready \subseteq Tables /\ seen \subseteq Names

QueueOK ==
  /\ scanLeft \subseteq Tables
  /\ names \in 0..MaxColumns /\ scanNames \in 0..MaxColumns
  /\ listed \in [Parts -> 0..MaxVersion] /\ candidates \in [Parts -> 0..MaxVersion]

StepOK ==
  /\ failed \in BOOLEAN /\ scanning \in BOOLEAN /\ clean \in BOOLEAN
  /\ pc \in Steps
  /\ changes \in 0..MaxChanges /\ faults \in 0..MaxFaults

HandOK ==
  /\ pc \notin {"idle", "select"} => left # {}
  /\ pc \in {"next", "relist", "sync", "load", "confirm"} \/ scanning =>
       \E p \in PartsOf(table) : listed[p] # 0
  /\ scanning /\ pc # "relist" => scanLeft # {}
  /\ scanning /\ pc \in {"scanColumns", "sync", "load", "confirm"} =>
       \E p \in PartsOf(scanTable) : candidates[p] # 0

(* Only selected partitions of the table at hand are in a queue, and the   *)
(* queue of the scan is used only while it runs.                           *)
QueueInv ==
  /\ \A p \in Parts : listed[p] # 0 => p[1] = table /\ Selected(p)
  /\ \A p \in Parts : candidates[p] # 0 => p[1] = scanTable /\ Selected(p)
  /\ pc \in {"idle", "create", "check", "select", "columns", "list"} => listed = NoParts
  /\ pc \notin {"scanColumns", "sync", "load", "confirm"} \/ ~scanning => candidates = NoParts
  /\ scanning => pc \in {"scanList", "scanColumns", "relist", "sync", "load", "confirm"}
  /\ pc \in {"scanList", "scanColumns", "relist"} => scanning

(* The loop goes on with the columns recorded.                             *)
RecordInv ==
  pc \in {"next", "scanList", "scanColumns", "relist", "sync", "load", "confirm"} =>
    hash[table] = names

Checking == {"idle", "create", "check", "select"}

(* A table that is ready is there, and one that is not has failed, once    *)
(* its check is over.                                                      *)
ReadyInv ==
  /\ \A t \in ready : targetColumns[t] # 0
  /\ pc = "check" => targetColumns[table] # 0
  /\ pc = "select" => left = {}
  /\ pc \in {"create", "check", "select"} => failed \/ Tables \ left \subseteq ready
  /\ pc \notin Checking => failed \/ ready = Tables

(* A row holds no newer version than the source, and an older one while    *)
(* its partition is owed.  That is then still in the cycle's lists, unless *)
(* something failed.                                                       *)
OwedInv ==
  /\ \A p \in Parts : row[p].imported <= version[p]
  /\ \A p \in owed : /\ There(p) /\ Selected(p)
                     /\ row[p].imported < version[p]
                     /\ listed[p] = 0 \/ row[p].imported < listed[p]
  /\ pc \notin Checking /\ ~failed =>
       \A p \in owed : p[1] \in left
  /\ pc \notin Checking \cup {"columns", "list"} /\ ~failed =>
       \A p \in owed : p[1] = table => listed[p] # 0

(* The target never shows a newer version than the source has, and never   *)
(* an older one than the row has: a load takes the backup of the version   *)
(* listed, and only then is that version recorded.                         *)
ShownInv ==
  /\ \A p \in Parts : row[p].imported <= shown[p] /\ shown[p] <= version[p]
  /\ pc \in {"load", "confirm"} => row[AtHand].source = Queue[AtHand]
  /\ pc = "confirm" => shown[AtHand] = Queue[AtHand]

IInv == TypeOK /\ QueueInv /\ RecordInv /\ ReadyInv /\ OwedInv /\ CleanCycle /\ ShownInv
-----------------------------------------------------------------------------
(* A set of numbers has a least element.                                   *)
Less == {p \in Nat \X Nat : p[1] < p[2]}

LEMMA LeastNumber ==
  ASSUME NEW S \in SUBSET Nat, S # {}
  PROVE  \E m \in S : \A k \in S : m <= k
<1>1. IsWellFoundedOn(Less, Nat)
  BY NatLessThanWellFounded DEF OpToRel, Less
<1>2. \A a, b \in Nat : a < b => <<a, b>> \in Less
  BY DEF Less
<1>3. PICK m \in S : \A k \in S : ~(<<k, m>> \in Less)
  BY <1>1, WFMin
<1>4. \A k \in S : ~(k < m)
  BY <1>2, <1>3
<1>. QED
  BY <1>4

LEMMA FirstTable ==
  ASSUME NEW S \in SUBSET Tables, S # {}
  PROVE  First(S) \in S
<1>1. \E m \in S : \A k \in S : m <= k
  BY ConstantsAssumption, LeastNumber
<1>. QED
  BY <1>1 DEF First

LEMMA NextInQueue ==
  ASSUME NEW q, NEW p \in Parts, q[p] # 0
  PROVE  NextOf(q) \in Parts /\ q[NextOf(q)] # 0
<1>. DEFINE S == {r[2] : r \in {r \in Parts : q[r] # 0}}
<1>1. \A r \in Parts : r[2] \in Nat
  BY ConstantsAssumption
<1>2. S \in SUBSET Nat /\ S # {}
  BY <1>1
<1>. HIDE DEF S
<1>3. PICK m \in S : \A k \in S : m <= k
  BY <1>2, LeastNumber
<1>4. PICK r \in Parts : q[r] # 0 /\ r[2] = m
  BY DEF S
<1>5. \A s \in Parts : q[s] # 0 => r[2] <= s[2]
  BY <1>3, <1>4 DEF S
<1>. QED
  BY <1>4, <1>5 DEF NextOf

LEMMA Parted ==
  TypeOK <=> /\ SourceOK /\ TargetOK /\ StateOK /\ CheckOK /\ QueueOK /\ StepOK /\ HandOK
<1>1. TypeOK => SourceOK /\ TargetOK /\ StateOK /\ CheckOK
  BY DEF TypeOK, SourceOK, TargetOK, StateOK, CheckOK
<1>2. TypeOK => QueueOK
  BY DEF TypeOK, QueueOK
<1>3. TypeOK => StepOK
  BY Zenon DEF TypeOK, StepOK
<1>4. TypeOK => HandOK
  BY Zenon DEF TypeOK, HandOK
<1>5. SourceOK /\ TargetOK /\ StateOK /\ CheckOK /\ QueueOK /\ StepOK /\ HandOK => TypeOK
  BY Zenon DEF TypeOK, SourceOK, TargetOK, StateOK, CheckOK, QueueOK, StepOK, HandOK
<1>. QED
  BY <1>1, <1>2, <1>3, <1>4, <1>5

Lists == CheckOK /\ QueueOK /\ HandOK /\ QueueInv

LEMMA TableAtHand ==
  ASSUME Lists, pc \notin {"idle", "select"}
  PROVE  table \in left /\ table \in Tables
  BY FirstTable DEF Lists, HandOK, CheckOK, table

LEMMA ScanTableAtHand ==
  ASSUME Lists, scanning, pc # "relist"
  PROVE  scanTable \in scanLeft /\ scanTable \in Tables
  BY FirstTable DEF Lists, HandOK, QueueOK, scanTable

(* The partition being synchronised.                                       *)
AtWork == pc \in {"sync", "load", "confirm"}

LEMMA PartAtHand ==
  ASSUME Lists, AtWork
  PROVE  /\ AtHand \in Parts /\ Selected(AtHand)
         /\ Queue \in [Parts -> 0..MaxVersion]
         /\ Queue[AtHand] \in 1..MaxVersion
         /\ AtHand[1] = IF scanning THEN scanTable ELSE table
<1>1. CASE scanning
  <2>1. PICK p \in Parts : candidates[p] # 0
    BY <1>1 DEF Lists, HandOK, AtWork, PartsOf
  <2>2. Queue = candidates
    BY <1>1 DEF Queue
  <2>3. AtHand \in Parts /\ candidates[AtHand] # 0
    BY <2>1, <2>2, NextInQueue DEF AtHand
  <2>. QED
    BY <1>1, <2>2, <2>3, ConstantsAssumption DEF Lists, QueueInv, QueueOK
<1>2. CASE ~scanning
  <2>1. PICK p \in Parts : listed[p] # 0
    BY <1>2 DEF Lists, HandOK, AtWork, PartsOf
  <2>2. Queue = listed
    BY <1>2 DEF Queue
  <2>3. AtHand \in Parts /\ listed[AtHand] # 0
    BY <2>1, <2>2, NextInQueue DEF AtHand
  <2>. QED
    BY <1>2, <2>2, <2>3, ConstantsAssumption DEF Lists, QueueInv, QueueOK
<1>. QED
  BY <1>1, <1>2

-----------------------------------------------------------------------------
(***************************************************************************)
(* What the ends of a table, of a table of the scan and of a partition do  *)
(* to the lists.                                                           *)
(***************************************************************************)
LEMMA TableDoneLists ==
  ASSUME Lists, NEW e, TableDone(e), UNCHANGED <<seen, scanLeft, candidates, selection>>,
         candidates = NoParts, ~scanning', scanNames' \in 0..MaxColumns
  PROVE  Lists'
<1>1. CheckOK'
  BY DEF TableDone, CycleEnds, CheckOK, Lists
<1>2. QueueOK'
  BY ConstantsAssumption DEF TableDone, QueueOK, Lists, NoParts
<1>3. HandOK'
  BY DEF TableDone, CycleEnds, HandOK
<1>4. QueueInv'
  BY DEF TableDone, CycleEnds, QueueInv, NoParts
<1>. QED
  BY <1>1, <1>2, <1>3, <1>4 DEF Lists

LEMMA ScannedTableLists ==
  ASSUME Lists, ScannedTable, scanning, pc \notin {"idle", "select", "relist"},
         UNCHANGED <<checkVars, tableVars, scanning, scanNames, selection>>
  PROVE  Lists'
<1>1. CheckOK'
  BY DEF checkVars, CheckOK, Lists
<1>2. QueueOK'
  <2>1. NoParts \in [Parts -> 0..MaxVersion]
    BY ConstantsAssumption DEF NoParts
  <2>2. UNCHANGED <<names, listed, scanNames>>
    BY DEF tableVars
  <2>. QED
    BY <2>1, <2>2 DEF ScannedTable, QueueOK, Lists
<1>3. table' = table
  BY DEF table, checkVars
<1>4. HandOK'
  BY <1>3 DEF ScannedTable, HandOK, Lists, checkVars, tableVars, PartsOf
<1>5. QueueInv'
  BY <1>3 DEF ScannedTable, QueueInv, Lists, NoParts, tableVars, Selected
<1>. QED
  BY <1>1, <1>2, <1>4, <1>5 DEF Lists

LEMMA PartDoneLists ==
  ASSUME Lists, AtWork, NEW e, PartDone(e), UNCHANGED <<selection, seen, scanning, scanNames>>
  PROVE  Lists'
<1>. DEFINE rest == [Queue EXCEPT ![AtHand] = 0]
<1>1. /\ rest \in [Parts -> 0..MaxVersion]
      /\ \A p \in Parts : rest[p] # 0 => Queue[p] # 0
      /\ rest # NoParts => \E p \in Parts : rest[p] # 0
  <2>1. Queue \in [Parts -> 0..MaxVersion] /\ 0 \in 0..MaxVersion
    BY PartAtHand, ConstantsAssumption
  <2>2. rest \in [Parts -> 0..MaxVersion]
    BY <2>1
  <2>3. \A p \in Parts : rest[p] # 0 => Queue[p] # 0
    BY <2>1
  <2>4. (\A p \in Parts : rest[p] = 0) => rest = NoParts
    BY <2>2 DEF NoParts
  <2>. QED
    BY <2>2, <2>3, <2>4
<1>2. CASE scanning /\ rest = NoParts
  <2>1. ScannedTable /\ UNCHANGED <<checkVars, tableVars>>
    BY <1>2 DEF PartDone, checkVars
  <2>. QED
    BY <1>2, <2>1, ScannedTableLists DEF AtWork
<1>3. CASE scanning /\ rest # NoParts
  <2>1. /\ candidates' = rest /\ pc' = "sync"
        /\ UNCHANGED <<scanLeft, left, ready, names, listed>>
    BY <1>3 DEF PartDone, tableVars
  <2>2. Queue = candidates /\ table' = table /\ scanTable' = scanTable
    BY <1>3, <2>1 DEF Queue, table, scanTable
  <2>. HIDE DEF rest
  <2>3. CheckOK' /\ QueueOK'
    BY <1>1, <2>1 DEF Lists, CheckOK, QueueOK
  <2>4. HandOK'
    BY <1>1, <1>3, <2>1, <2>2 DEF Lists, HandOK, QueueInv, PartsOf, AtWork
  <2>5. QueueInv'
    BY <1>1, <1>3, <2>1, <2>2 DEF Lists, QueueInv, Selected, AtWork
  <2>. QED
    BY <2>3, <2>4, <2>5 DEF Lists
<1>4. CASE ~scanning /\ rest = NoParts
  <2>1. TableDone(e) /\ UNCHANGED <<scanLeft, candidates>> /\ ~scanning'
    BY <1>4 DEF PartDone
  <2>2. candidates = NoParts /\ scanNames' \in 0..MaxColumns
    BY <1>4 DEF Lists, QueueInv, QueueOK
  <2>. QED
    BY <2>1, <2>2, TableDoneLists
<1>5. CASE ~scanning /\ rest # NoParts
  <2>1. /\ listed' = rest /\ pc' = "next"
        /\ UNCHANGED <<scanLeft, candidates, left, ready, names>>
    BY <1>5 DEF PartDone
  <2>2. Queue = listed /\ table' = table /\ scanTable' = scanTable
    BY <1>5, <2>1 DEF Queue, table, scanTable
  <2>. HIDE DEF rest
  <2>3. CheckOK' /\ QueueOK'
    BY <1>1, <2>1 DEF Lists, CheckOK, QueueOK
  <2>4. HandOK'
    BY <1>1, <1>5, <2>1, <2>2 DEF Lists, HandOK, QueueInv, PartsOf, AtWork
  <2>5. QueueInv'
    BY <1>1, <1>5, <2>1, <2>2 DEF Lists, QueueInv, Selected, AtWork
  <2>. QED
    BY <2>3, <2>4, <2>5 DEF Lists
<1>. QED
  BY <1>2, <1>3, <1>4, <1>5

-----------------------------------------------------------------------------
(***************************************************************************)
(* The lists through every step.                                           *)
(***************************************************************************)
LEMMA CheckFailsLists ==
  ASSUME Lists, Checked, pc \in {"create", "check"}, ready' = ready \/ ready' = ready \cup {table},
         seen' \subseteq Names, UNCHANGED <<tableVars, scanVars, selection>>
  PROVE  Lists'
<1>1. table \in Tables /\ listed = NoParts /\ candidates = NoParts /\ ~scanning
  BY TableAtHand DEF Lists, QueueInv
<1>2. CheckOK'
  BY <1>1 DEF Checked, CheckOK, Lists
<1>3. QueueOK'
  BY DEF QueueOK, Lists, tableVars, scanVars
<1>4. HandOK'
  BY <1>1 DEF Checked, HandOK, scanVars
<1>5. QueueInv'
  BY <1>1 DEF Checked, QueueInv, tableVars, scanVars, NoParts
<1>. QED
  BY <1>2, <1>3, <1>4, <1>5 DEF Lists

(* The queue a listing begins.                                             *)
LEMMA ListingBegins ==
  ASSUME SourceOK, NEW ps
  PROVE  /\ Listing(ps) \in [Parts -> 0..MaxVersion]
         /\ \A p \in Parts : Listing(ps)[p] # 0 <=> p \in ps /\ There(p) /\ Selected(p)
         /\ \A p \in Parts : Listing(ps)[p] # 0 => Listing(ps)[p] = version[p]
         /\ Listing(ps) # NoParts => \E p \in Parts : Listing(ps)[p] # 0
<1>1. \A p \in Parts : There(p) => version[p] \in 0..MaxVersion /\ version[p] # 0
  BY ConstantsAssumption DEF SourceOK, There, Versions
<1>2. 0 \in 0..MaxVersion
  BY ConstantsAssumption
<1>3. (\A p \in Parts : Listing(ps)[p] = 0) => Listing(ps) = NoParts
  BY DEF Listing, NoParts
<1>. QED
  BY <1>1, <1>2, <1>3 DEF Listing

LEMMA ColumnsType ==
  ASSUME SourceOK, NEW t \in Tables
  PROVE  columns[t] \in 1..MaxColumns /\ columns[t] \in 0..MaxColumns
  BY ConstantsAssumption DEF SourceOK, Layouts

LEMMA Zero == 0 \in 0..MaxColumns /\ 0 \in 0..MaxVersion
  BY ConstantsAssumption

LEMMA ListsStep == IInv /\ [Next]_vars => Lists'
<1>. SUFFICES ASSUME IInv, [Next]_vars PROVE Lists'
  OBVIOUS
<1>0. Lists /\ SourceOK /\ pc \in Steps
  BY Parted DEF IInv, Lists, StepOK
<1>. USE <1>0
<1>1. CASE SourceChange \/ Migrate \/ UNCHANGED vars
  <2>1. UNCHANGED <<pc, left, ready, seen, names, listed, scanning, scanLeft, scanNames,
                    candidates, selection>>
    BY <1>1 DEF SourceChange, Migrate, vars, processVars, checkVars, tableVars, scanVars
  <2>. QED
    BY <2>1 DEF Lists, CheckOK, QueueOK, HandOK, QueueInv, table, scanTable, Selected
<1>2. CASE Begin
  <2>1. CheckOK' /\ QueueOK'
    BY <1>2 DEF Begin, tableVars, scanVars, Lists, CheckOK, QueueOK
  <2>2. listed' = NoParts /\ candidates' = NoParts /\ ~scanning' /\ pc' = "create"
    BY <1>2 DEF Begin, tableVars, scanVars, Lists, QueueInv
  <2>3. HandOK'
    BY <1>2, <2>2, ConstantsAssumption DEF Begin, HandOK
  <2>4. QueueInv'
    BY <2>2 DEF QueueInv, NoParts
  <2>. QED
    BY <2>1, <2>3, <2>4 DEF Lists
<1>3. CASE CreateTable
  <2>1. /\ pc = "create" /\ pc' = "check"
        /\ UNCHANGED <<left, ready, seen, names, listed, scanning, scanLeft, scanNames,
                       candidates, selection>>
    BY <1>3 DEF CreateTable, checkVars, tableVars, scanVars
  <2>. QED
    BY <2>1 DEF Lists, CheckOK, QueueOK, HandOK, QueueInv, table, scanTable, Selected
<1>4. CASE CheckTable
  <2>1. \A p \in Parts : p[2] \in Names
    BY ConstantsAssumption
  <2>2. seen \subseteq Names
    BY DEF Lists, CheckOK
  <2>3. seen' \subseteq Names /\ ready' \in {ready, ready \cup {table}} /\ Checked
    BY <1>4, <2>1, <2>2 DEF CheckTable, CheckFails, PartsOf
  <2>. QED
    BY <1>4, <2>3, CheckFailsLists DEF CheckTable
<1>5. CASE SelectTables
  <2>1. /\ pc' \in {"columns", "idle"} /\ pc = "select"
        /\ UNCHANGED <<names, listed, scanning, scanLeft, scanNames, candidates, selection>>
    BY <1>5 DEF SelectTables, CycleEnds, tableVars, scanVars
  <2>2. listed = NoParts /\ candidates = NoParts /\ ~scanning
    BY <2>1 DEF Lists, QueueInv
  <2>3. pc' = "columns" => left' # {}
    BY <1>5 DEF SelectTables, CycleEnds
  <2>4. left' \subseteq Tables /\ ready' \subseteq Tables /\ seen' = {}
    BY <1>5 DEF SelectTables, CycleEnds, Lists, CheckOK
  <2>5. CheckOK' /\ QueueOK'
    BY <2>1, <2>4 DEF Lists, CheckOK, QueueOK
  <2>6. HandOK'
    BY <2>1, <2>2, <2>3 DEF HandOK
  <2>7. QueueInv'
    BY <2>1, <2>2 DEF QueueInv, NoParts
  <2>. QED
    BY <2>5, <2>6, <2>7 DEF Lists
<1>6. CASE ReadColumns
  <2>1. /\ pc = "columns" /\ pc' = "list"
        /\ UNCHANGED <<left, ready, seen, listed, scanning, scanLeft, scanNames,
                       candidates, selection>>
    BY <1>6 DEF ReadColumns, checkVars, scanVars
  <2>2. columns[table] \in 0..MaxColumns
    BY <2>1, TableAtHand, ColumnsType
  <2>3. names' \in 0..MaxColumns
    BY <1>6, <2>2 DEF ReadColumns
  <2>. QED
    BY <2>1, <2>3 DEF Lists, CheckOK, QueueOK, HandOK, QueueInv, table, scanTable, Selected
<1>7. CASE ListParts
  <2>1. /\ pc = "list" /\ pc' = "compare"
        /\ UNCHANGED <<left, ready, seen, names, scanning, scanLeft, scanNames, candidates,
                       selection>>
        /\ listed' = Listing(PartsOf(table))
    BY <1>7 DEF ListParts, checkVars, scanVars
  <2>2. ~scanning /\ candidates = NoParts /\ table' = table
    BY <2>1 DEF Lists, QueueInv, table
  <2>3. CheckOK' /\ QueueOK'
    BY <2>1, ListingBegins DEF Lists, CheckOK, QueueOK
  <2>4. HandOK'
    BY <2>1, <2>2 DEF Lists, HandOK
  <2>5. \A p \in Parts : listed'[p] # 0 => p[1] = table' /\ Selected(p)'
    BY <2>1, <2>2, ListingBegins DEF PartsOf, Selected
  <2>6. QueueInv'
    BY <2>1, <2>2, <2>5 DEF QueueInv, NoParts
  <2>. QED
    BY <2>3, <2>4, <2>6 DEF Lists
<1>8. CASE CompareColumns
  <2>1. pc = "compare" /\ ~scanning /\ candidates = NoParts /\ scanNames \in 0..MaxColumns
    BY <1>8 DEF CompareColumns, Lists, QueueInv, QueueOK
  <2>2. UNCHANGED <<seen, scanning, scanLeft, scanNames, candidates, selection>>
    BY <1>8 DEF CompareColumns, scanVars
  <2>3. CASE TableDone(TRUE) \/ TableDone(FALSE)
    BY <2>1, <2>2, <2>3, TableDoneLists
  <2>4. CASE pc' = "next" /\ ~Empty /\ UNCHANGED <<left, ready, tableVars>>
    <3>1. UNCHANGED <<left, ready, names, listed, table, scanTable>>
      BY <2>2, <2>4 DEF tableVars, table, scanTable
    <3>2. \E p \in Parts : listed[p] # 0
      BY <2>4 DEF Lists, QueueOK, Empty, NoParts
    <3>3. CheckOK' /\ QueueOK'
      BY <2>2, <3>1 DEF Lists, CheckOK, QueueOK
    <3>4. HandOK'
      BY <2>1, <2>2, <2>4, <3>1, <3>2 DEF Lists, HandOK, QueueInv, PartsOf
    <3>5. QueueInv'
      BY <2>1, <2>2, <2>4, <3>1 DEF Lists, QueueInv, Selected
    <3>. QED
      BY <3>3, <3>4, <3>5 DEF Lists
  <2>. QED
    BY <1>8, <2>3, <2>4 DEF CompareColumns
<1>9. CASE NextPart
  <2>1. /\ pc = "next"
        /\ UNCHANGED <<left, ready, seen, names, listed, scanNames, candidates, selection>>
    BY <1>9 DEF NextPart, checkVars, tableVars
  <2>2. ~scanning /\ candidates = NoParts /\ table' = table
    BY <2>1 DEF Lists, QueueInv, table
  <2>3. /\ scanLeft' \subseteq Tables
        /\ \/ pc' = "sync" /\ ~scanning'
           \/ pc' = "scanList" /\ scanning' /\ scanLeft' # {}
           \/ pc' = "relist" /\ scanning'
    BY <1>9, <2>2 DEF NextPart, Lists, QueueOK
  <2>4. CheckOK' /\ QueueOK'
    BY <2>1, <2>3 DEF Lists, CheckOK, QueueOK
  <2>5. HandOK'
    BY <2>1, <2>2, <2>3 DEF Lists, HandOK
  <2>6. QueueInv'
    BY <2>1, <2>2, <2>3 DEF Lists, QueueInv, Selected, NoParts
  <2>. QED
    BY <2>4, <2>5, <2>6 DEF Lists
<1>10. CASE ScanList
  <2>1. /\ pc = "scanList" /\ scanning /\ scanning'
        /\ UNCHANGED <<left, ready, seen, names, listed, scanNames, selection, table>>
    BY <1>10 DEF ScanList, checkVars, tableVars, Lists, QueueInv, table
  <2>2. CASE ScannedTable
    BY <1>10, <2>1, <2>2, ScannedTableLists DEF ScanList
  <2>3. CASE ~ScannedTable
    <3>. DEFINE ps == {p \in PartsOf(scanTable) : Picked(p)}
    <3>1. /\ \E p \in ps : There(p) /\ Selected(p)
          /\ candidates' = Listing(ps) /\ pc' = "scanColumns"
          /\ UNCHANGED <<scanLeft, scanTable>>
      BY <1>10, <2>3 DEF ScanList, scanTable
    <3>2. \A p \in ps : p \in Parts /\ p[1] = scanTable
      BY DEF PartsOf
    <3>. HIDE DEF ps
    <3>3. CheckOK' /\ QueueOK'
      BY <2>1, <3>1, ListingBegins DEF Lists, CheckOK, QueueOK
    <3>4. HandOK'
      BY <2>1, <3>1, <3>2, ListingBegins DEF Lists, HandOK, PartsOf
    <3>5. QueueInv'
      BY <2>1, <3>1, <3>2, ListingBegins DEF Lists, QueueInv, Selected
    <3>. QED
      BY <3>3, <3>4, <3>5 DEF Lists
  <2>. QED
    BY <2>2, <2>3
<1>11. CASE ScanColumns
  <2>1. /\ pc = "scanColumns" /\ pc' = "sync" /\ scanning
        /\ UNCHANGED <<left, ready, seen, names, listed, scanning, scanLeft, candidates,
                       selection, table, scanTable>>
    BY <1>11 DEF ScanColumns, checkVars, tableVars, Lists, QueueInv, table, scanTable
  <2>2. columns[scanTable] \in 0..MaxColumns
    BY <2>1, ScanTableAtHand, ColumnsType
  <2>3. scanNames' \in 0..MaxColumns
    BY <1>11, <2>2 DEF ScanColumns
  <2>. QED
    BY <2>1, <2>3 DEF Lists, CheckOK, QueueOK, HandOK, QueueInv, Selected, PartsOf
<1>12. CASE Relist
  <2>1. /\ pc = "relist" /\ scanning /\ ~scanning' /\ scanNames' = 0 /\ candidates = NoParts
        /\ UNCHANGED <<seen, scanLeft, candidates, selection>>
    BY <1>12 DEF Relist, Lists, QueueInv
  <2>2. CASE TableDone(TRUE)
    BY <2>1, <2>2, TableDoneLists, Zero
  <2>3. CASE ~TableDone(TRUE)
    <3>. DEFINE p == NextOf(listed)
    <3>1. p \in Parts /\ listed[p] # 0
      BY <2>1, NextInQueue DEF Lists, HandOK, PartsOf
    <3>2. /\ There(p) /\ listed' = [listed EXCEPT ![p] = version[p]] /\ pc' = "sync"
          /\ UNCHANGED <<left, ready, names, table, scanTable>>
      BY <1>12, <2>1, <2>3 DEF Relist, table, scanTable
    <3>. HIDE DEF p
    <3>3. version[p] \in 1..MaxVersion
      BY <3>2 DEF There, Versions
    <3>4. /\ listed' \in [Parts -> 0..MaxVersion] /\ listed'[p] # 0
          /\ \A q \in Parts : listed'[q] # 0 => listed[q] # 0
      BY <3>1, <3>2, <3>3 DEF Lists, QueueOK
    <3>5. CheckOK' /\ QueueOK'
      BY <2>1, <3>2, <3>4, ConstantsAssumption DEF Lists, CheckOK, QueueOK
    <3>6. p[1] = table
      BY <3>1 DEF Lists, QueueInv
    <3>7. HandOK'
      BY <2>1, <3>1, <3>2, <3>4, <3>6 DEF Lists, HandOK, PartsOf
    <3>8. QueueInv'
      BY <2>1, <3>2, <3>4 DEF Lists, QueueInv, Selected, NoParts
    <3>. QED
      BY <3>5, <3>7, <3>8 DEF Lists
  <2>. QED
    BY <2>2, <2>3
<1>13. CASE SkipPart \/ PartFails \/ ConfirmPart
  <2>1. AtWork /\ (PartDone(TRUE) \/ PartDone(FALSE))
        /\ UNCHANGED <<selection, seen, scanning, scanNames>>
    BY <1>13 DEF SkipPart, PartFails, ConfirmPart, AttemptFails, AtWork
  <2>. QED
    BY <2>1, PartDoneLists
<1>14. CASE BackupPart \/ LoadPart
  <2>1. /\ AtWork /\ AtWork'
        /\ UNCHANGED <<left, ready, seen, names, listed, scanning, scanLeft, scanNames,
                       candidates, selection, table, scanTable>>
    BY <1>14 DEF BackupPart, LoadPart, AtWork, checkVars, tableVars, scanVars, table, scanTable
  <2>. QED
    BY <2>1 DEF Lists, CheckOK, QueueOK, HandOK, QueueInv, Selected, AtWork, PartsOf
<1>15. CASE CallFails
  <2>1. CASE pc \in {"create", "check"} /\ CheckFails /\ UNCHANGED <<tableVars, scanVars>>
    BY <1>15, <2>1, CheckFailsLists DEF CallFails, CheckFails, Lists, CheckOK
  <2>2. CASE /\ pc \in {"columns", "list", "compare", "relist"} /\ TableDone(TRUE)
             /\ scanning' = FALSE /\ scanNames' = 0 /\ UNCHANGED <<seen, scanLeft, candidates>>
    <3>1. candidates = NoParts
      BY <2>2 DEF Lists, QueueInv
    <3>. QED
      BY <1>15, <2>2, <3>1, TableDoneLists, Zero DEF CallFails
  <2>3. CASE /\ pc \in {"scanList", "scanColumns"} /\ ScannedTable
             /\ UNCHANGED <<checkVars, tableVars, scanning, scanNames>>
    <3>1. scanning
      BY <2>3 DEF Lists, QueueInv
    <3>. QED
      BY <1>15, <2>3, <3>1, ScannedTableLists DEF CallFails
  <2>4. CASE AtWork /\ PartDone(TRUE) /\ UNCHANGED <<seen, scanning, scanNames>>
    BY <1>15, <2>4, PartDoneLists DEF CallFails
  <2>. QED
    BY <1>15, <2>1, <2>2, <2>3, <2>4 DEF CallFails, Working, AttemptFails, AtWork
<1>16. CASE Restart
  <2>1. /\ pc' = "idle" /\ left' = {} /\ ready' = {} /\ seen' = {} /\ names' = 0
        /\ listed' = NoParts /\ scanning' = FALSE /\ scanLeft' = {} /\ scanNames' = 0
        /\ candidates' = NoParts
    BY <1>16 DEF Restart
  <2>2. NoParts \in [Parts -> 0..MaxVersion] /\ 0 \in 0..MaxColumns
    BY ConstantsAssumption DEF NoParts
  <2>3. CheckOK' /\ QueueOK'
    BY <2>1, <2>2 DEF CheckOK, QueueOK
  <2>4. HandOK' /\ QueueInv'
    BY <2>1 DEF HandOK, QueueInv, NoParts
  <2>. QED
    BY <2>3, <2>4 DEF Lists
<1>. QED
  BY <1>1, <1>2, <1>3, <1>4, <1>5, <1>6, <1>7, <1>8, <1>9, <1>10, <1>11, <1>12, <1>13, <1>14,
     <1>15, <1>16 DEF Next, Run

-----------------------------------------------------------------------------
(***************************************************************************)
(* The other parts of the type invariant.                                  *)
(***************************************************************************)
Facts == Lists /\ SourceOK /\ TargetOK /\ StateOK /\ StepOK

LEMMA AllFacts == IInv => Facts
  BY Parted DEF IInv, Facts, Lists

(* What a failed call leaves in the row.                                   *)
LEMMA AttemptsType ==
  ASSUME Facts, AtWork, NEW r \in Attempts
  PROVE  AtHand \in Parts /\ r \in Rows /\ r.imported = row[AtHand].imported
<1>1. AtHand \in Parts /\ Queue[AtHand] \in 0..MaxVersion
  BY PartAtHand DEF Facts
<1>2. row[AtHand] \in Rows
  BY <1>1 DEF Facts, StateOK
<1>. HIDE DEF Queue, AtHand
<1>3. r \in {row[AtHand], [row[AtHand] EXCEPT !.importing = TRUE],
             [source |-> Queue[AtHand], imported |-> row[AtHand].imported, backed |-> FALSE,
              importing |-> FALSE]}
  BY DEF Attempts
<1>4. CASE r = [row[AtHand] EXCEPT !.importing = TRUE]
  BY <1>1, <1>2, <1>4 DEF Rows
<1>5. CASE r = [source |-> Queue[AtHand], imported |-> row[AtHand].imported, backed |-> FALSE,
                importing |-> FALSE]
  BY <1>1, <1>2, <1>5 DEF Rows
<1>. QED
  BY <1>1, <1>2, <1>3, <1>4, <1>5

LEMMA SourceStep == IInv /\ [Next]_vars => SourceOK'
<1>. SUFFICES ASSUME Facts, [Next]_vars PROVE SourceOK'
  BY AllFacts
<1>1. CASE SourceChange
  <2>1. version' \in [Parts -> 0..Gone]
    BY <1>1, ConstantsAssumption DEF SourceChange, Facts, SourceOK, Gone
  <2>2. columns' \in [Tables -> Layouts]
    BY <1>1, ConstantsAssumption DEF SourceChange, Facts, SourceOK, Layouts
  <2>. QED
    BY <1>1, <2>1, <2>2 DEF SourceChange, Facts, SourceOK
<1>2. CASE Begin
  BY <1>2 DEF Begin, Facts, SourceOK, sourceVars
<1>3. CASE ConfirmPart
  BY <1>3 DEF ConfirmPart, Facts, SourceOK, sourceVars
<1>4. CASE Restart
  BY <1>4 DEF Restart, Facts, SourceOK, sourceVars
<1>5. CASE \/ Migrate \/ CreateTable \/ CheckTable \/ SelectTables \/ ReadColumns \/ ListParts
           \/ CompareColumns \/ NextPart \/ ScanList \/ ScanColumns \/ Relist
           \/ SkipPart \/ BackupPart \/ LoadPart \/ PartFails \/ CallFails \/ UNCHANGED vars
  <2>1. UNCHANGED <<selection, version, columns, owed>>
    BY <1>5 DEF Migrate, CreateTable, CheckTable, SelectTables, ReadColumns, ListParts,
       CompareColumns, NextPart, ScanList, ScanColumns, Relist, SkipPart, BackupPart, LoadPart,
       PartFails, CallFails, vars, sourceVars
  <2>. QED
    BY <2>1 DEF Facts, SourceOK
<1>. QED
  BY <1>1, <1>2, <1>3, <1>4, <1>5 DEF Next, Run

LEMMA TargetStep == IInv /\ [Next]_vars => TargetOK'
<1>. SUFFICES ASSUME Facts, [Next]_vars PROVE TargetOK'
  BY AllFacts
<1>1. CASE Migrate
  <2>1. \A t \in Tables : columns[t] \in 0..MaxColumns
    BY ColumnsType DEF Facts
  <2>. QED
    BY <1>1, <2>1 DEF Migrate, Facts, TargetOK
<1>2. CASE CreateTable
  <2>1. columns[table] \in 0..MaxColumns
    BY <1>2, TableAtHand, ColumnsType DEF CreateTable, Facts
  <2>. QED
    BY <1>2, <2>1 DEF CreateTable, Facts, TargetOK
<1>3. CASE LoadPart
  <2>1. row[AtHand].source \in 0..MaxVersion
    BY <1>3, PartAtHand DEF LoadPart, Facts, AtWork, StateOK, Rows
  <2>. QED
    BY <1>3, <2>1 DEF LoadPart, Facts, TargetOK
<1>4. CASE \/ SourceChange \/ Begin \/ CheckTable \/ SelectTables \/ ReadColumns \/ ListParts
           \/ CompareColumns \/ NextPart \/ ScanList \/ ScanColumns \/ Relist
           \/ SkipPart \/ BackupPart \/ PartFails \/ ConfirmPart \/ CallFails \/ Restart
           \/ UNCHANGED vars
  <2>1. UNCHANGED targetVars
    BY <1>4 DEF SourceChange, Begin, CheckTable, SelectTables, ReadColumns, ListParts,
       CompareColumns, NextPart, ScanList, ScanColumns, Relist, SkipPart, BackupPart,
       PartFails, ConfirmPart, CallFails, Restart, vars
  <2>. QED
    BY <2>1 DEF Facts, TargetOK, targetVars
<1>. QED
  BY <1>1, <1>2, <1>3, <1>4 DEF Next, Run

(* A table has no more partitions than there are names.                    *)
LEMMA PartsCounted ==
  ASSUME NEW t, NEW S \in SUBSET PartsOf(t)
  PROVE  Cardinality(S) \in 0..Cardinality(Names)
<1>. DEFINE f == [p \in S |-> p[2]]
<1>1. \A p \in S : p[1] = t /\ p[2] \in Names /\ p = <<p[1], p[2]>>
  BY ConstantsAssumption DEF PartsOf
<1>2. f \in Injection(S, Names)
  BY <1>1 DEF Injection, IsInjective
<1>3. IsFiniteSet(Names)
  BY ConstantsAssumption
<1>4. IsFiniteSet(S) /\ Cardinality(S) <= Cardinality(Names)
  BY <1>2, <1>3, FS_Injection
<1>. QED
  BY <1>3, <1>4, FS_CardinalityType

LEMMA StateStep == IInv /\ [Next]_vars => StateOK'
<1>. SUFFICES ASSUME Facts, [Next]_vars PROVE StateOK'
  BY AllFacts
<1>1. CASE CheckTable
  <2>1. Cardinality({p \in PartsOf(table) : There(p)}) \in 0..Cardinality(Names)
    BY PartsCounted
  <2>. QED
    BY <1>1, <2>1 DEF CheckTable, CheckFails, Inventory, Facts, StateOK
<1>2. CASE CompareColumns
  <2>1. names \in 0..MaxColumns
    BY DEF Facts, Lists, QueueOK
  <2>. QED
    BY <1>2, <2>1 DEF CompareColumns, Facts, StateOK
<1>3. CASE BackupPart
  <2>1. Queue[AtHand] \in 0..MaxVersion
    BY <1>3, PartAtHand DEF BackupPart, Facts, AtWork
  <2>. QED
    BY <1>3, <2>1 DEF BackupPart, Facts, StateOK, Rows
<1>4. CASE LoadPart
  BY <1>4 DEF LoadPart, Facts, StateOK, Rows, stateVars
<1>5. CASE ConfirmPart
  <2>1. Queue[AtHand] \in 0..MaxVersion
    BY <1>5, PartAtHand DEF ConfirmPart, Facts, AtWork
  <2>. HIDE DEF Queue, AtHand
  <2>2. [row EXCEPT ![AtHand].imported = Queue[AtHand], ![AtHand].importing = FALSE]
          \in [Parts -> Rows]
    BY <2>1 DEF Facts, StateOK, Rows
  <2>3. row' \in [Parts -> Rows] /\ UNCHANGED <<hash, inventory>>
    BY <1>5, <2>2 DEF ConfirmPart, Facts, StateOK
  <2>. QED
    BY <2>3 DEF Facts, StateOK
<1>6. CASE PartFails \/ CallFails \/ Restart
  <2>1. UNCHANGED hash /\ inventory' = inventory
    BY <1>6 DEF PartFails, CallFails, Restart, CheckFails, stateVars
  <2>2. \/ UNCHANGED row
        \/ AtWork /\ \E r \in Attempts : row' = [row EXCEPT ![AtHand] = r]
    BY <1>6 DEF PartFails, CallFails, Restart, AttemptFails, Working, AtWork, stateVars
  <2>3. row' \in [Parts -> Rows]
    BY <2>2, AttemptsType DEF Facts, StateOK
  <2>. QED
    BY <2>1, <2>3 DEF Facts, StateOK
<1>7. CASE \/ SourceChange \/ Migrate \/ Begin \/ CreateTable \/ SelectTables \/ ReadColumns
           \/ ListParts \/ NextPart \/ ScanList \/ ScanColumns \/ Relist \/ SkipPart
           \/ UNCHANGED vars
  <2>1. UNCHANGED stateVars
    BY <1>7 DEF SourceChange, Migrate, Begin, CreateTable, SelectTables, ReadColumns, ListParts,
       NextPart, ScanList, ScanColumns, Relist, SkipPart, vars
  <2>. QED
    BY <2>1 DEF Facts, StateOK, stateVars
<1>. QED
  BY <1>1, <1>2, <1>3, <1>4, <1>5, <1>6, <1>7 DEF Next, Run

(* How a table, and a partition, ends.                                     *)
LEMMA TableDoneType ==
  ASSUME StepOK, NEW e \in BOOLEAN, TableDone(e)
  PROVE  failed' \in BOOLEAN /\ clean' \in BOOLEAN /\ pc' \in Steps
<1>1. failed' \in BOOLEAN
  BY Zenon DEF TableDone
<1>2. clean' \in BOOLEAN
  BY <1>1, Zenon DEF TableDone, CycleEnds, StepOK
<1>. QED
  BY <1>1, <1>2 DEF TableDone, CycleEnds, Steps

LEMMA PartDoneType ==
  ASSUME StepOK, NEW e \in BOOLEAN, PartDone(e)
  PROVE  failed' \in BOOLEAN /\ clean' \in BOOLEAN /\ pc' \in Steps
<1>1. CASE TableDone(e)
  BY <1>1, TableDoneType
<1>2. CASE ~TableDone(e)
  <2>1. clean' = clean /\ pc' \in {"sync", "next", "relist", "scanList"}
    BY <1>2 DEF PartDone, ScannedTable
  <2>2. failed' = failed \/ failed' = (failed \/ e)
    BY <1>2, Zenon DEF PartDone
  <2>3. failed' \in BOOLEAN
    BY <2>2, Zenon DEF StepOK
  <2>. QED
    BY <2>1, <2>3 DEF StepOK, Steps
<1>. QED
  BY <1>1, <1>2

LEMMA StepStep == IInv /\ [Next]_vars => StepOK'
<1>. SUFFICES ASSUME Facts, [Next]_vars PROVE StepOK'
  BY AllFacts
<1>. USE DEF Facts
<1>1. scanning' \in BOOLEAN
  BY DEF Next, Run, SourceChange, Migrate, Begin, CreateTable, CheckTable, SelectTables, ReadColumns,
     ListParts, CompareColumns, NextPart, ScanList, ScanColumns, Relist, SkipPart, BackupPart,
     LoadPart, PartFails, ConfirmPart, CallFails, Restart, vars, processVars, scanVars, StepOK
<1>2. changes' \in 0..MaxChanges /\ faults' \in 0..MaxFaults
  <2>1. CASE SourceChange
    BY <2>1, ConstantsAssumption DEF SourceChange, StepOK
  <2>2. CASE CallFails \/ Restart
    <3>1. Fault
      BY <2>2 DEF CallFails, Restart
    <3>. QED
      BY <3>1, ConstantsAssumption DEF Fault, StepOK
  <2>3. CASE ~SourceChange /\ ~CallFails /\ ~Restart
    <3>1. UNCHANGED bounds
      BY <2>3 DEF Next, Run, Migrate, Begin, CreateTable, CheckTable, SelectTables, ReadColumns,
         ListParts, CompareColumns, NextPart, ScanList, ScanColumns, Relist, SkipPart,
         BackupPart, LoadPart, PartFails, ConfirmPart, vars
    <3>. QED
      BY <3>1 DEF bounds, StepOK
  <2>. QED
    BY <2>1, <2>2, <2>3
<1>3. failed' \in BOOLEAN /\ clean' \in BOOLEAN /\ pc' \in Steps
  <2>1. CASE SourceChange \/ Migrate \/ UNCHANGED vars
    BY <2>1 DEF SourceChange, Migrate, vars, processVars, StepOK
  <2>2. CASE \/ Begin \/ CreateTable \/ ReadColumns \/ ListParts \/ NextPart
             \/ ScanColumns \/ ScanList \/ BackupPart \/ LoadPart \/ Restart
    <3>1. (failed' = failed \/ failed' = FALSE) /\ (clean' = clean \/ clean' = FALSE)
      BY <2>2 DEF Begin, CreateTable, ReadColumns, ListParts, NextPart, ScanColumns, ScanList,
         BackupPart, LoadPart, Restart
    <3>2. pc' \in Steps
      BY <2>2 DEF Begin, CreateTable, ReadColumns, ListParts, NextPart, ScanColumns, ScanList,
         ScannedTable, BackupPart, LoadPart, Restart, Steps
    <3>. QED
      BY <3>1, <3>2, Zenon DEF StepOK
  <2>3. CASE CheckTable
    BY <2>3, Zenon DEF CheckTable, CheckFails, Checked, StepOK, Steps
  <2>4. CASE SelectTables
    BY <2>4, Zenon DEF SelectTables, CycleEnds, StepOK, Steps
  <2>5. CASE CompareColumns \/ Relist
    <3>1. CASE TableDone(TRUE) \/ TableDone(FALSE)
      BY <3>1, TableDoneType
    <3>2. CASE ~TableDone(TRUE) /\ ~TableDone(FALSE)
      BY <2>5, <3>2 DEF CompareColumns, Relist, StepOK, Steps
    <3>. QED
      BY <3>1, <3>2
  <2>6. CASE SkipPart \/ PartFails \/ ConfirmPart
    <3>1. PartDone(TRUE) \/ PartDone(FALSE)
      BY <2>6 DEF SkipPart, PartFails, AttemptFails, ConfirmPart
    <3>. QED
      BY <3>1, PartDoneType
  <2>7. CASE CallFails
    <3>1. CASE TableDone(TRUE) \/ PartDone(TRUE)
      BY <3>1, TableDoneType, PartDoneType
    <3>2. CASE ~TableDone(TRUE) /\ ~PartDone(TRUE)
      <4>1. (failed' = failed \/ failed' = TRUE) /\ clean' = clean
        BY <2>7, <3>2 DEF CallFails, CheckFails, AttemptFails
      <4>2. pc' \in Steps
        BY <2>7, <3>2 DEF CallFails, CheckFails, Checked, AttemptFails, ScannedTable, Steps
      <4>. QED
        BY <4>1, <4>2, Zenon DEF StepOK
    <3>. QED
      BY <3>1, <3>2
  <2>. QED
    BY <2>1, <2>2, <2>3, <2>4, <2>5, <2>6, <2>7 DEF Next, Run
<1>. QED
  BY <1>1, <1>2, <1>3 DEF StepOK

LEMMA TypeStep == IInv /\ [Next]_vars => TypeOK'
<1>. SUFFICES ASSUME IInv, [Next]_vars PROVE TypeOK'
  OBVIOUS
<1>1. SourceOK' /\ TargetOK' /\ StateOK' /\ StepOK'
  BY SourceStep, TargetStep, StateStep, StepStep
<1>2. CheckOK' /\ QueueOK' /\ HandOK'
  BY ListsStep DEF Lists
<1>. QED
  BY <1>1, <1>2, Zenon DEF TypeOK, SourceOK, TargetOK, StateOK, CheckOK, QueueOK, StepOK, HandOK

-----------------------------------------------------------------------------
(***************************************************************************)
(* The columns recorded, and the tables that are ready.                    *)
(***************************************************************************)
Loop == {"next", "scanList", "scanColumns", "relist", "sync", "load", "confirm"}

LEMMA RecordStep == IInv /\ [Next]_vars => RecordInv'
<1>. SUFFICES ASSUME Facts, RecordInv, [Next]_vars PROVE RecordInv'
  BY AllFacts DEF IInv
<1>1. CASE CompareColumns
  <2>1. CASE TableDone(TRUE) \/ TableDone(FALSE)
    BY <2>1 DEF TableDone, CycleEnds, RecordInv
  <2>2. CASE ~TableDone(TRUE) /\ ~TableDone(FALSE)
    <3>1. hash' = [hash EXCEPT ![table] = names] /\ UNCHANGED <<left, names>>
      BY <1>1, <2>2 DEF CompareColumns, tableVars
    <3>2. table \in Tables /\ table' = table
      BY <1>1, <3>1, TableAtHand DEF CompareColumns, Facts, table
    <3>. QED
      BY <3>1, <3>2 DEF RecordInv, Facts, StateOK
  <2>. QED
    BY <2>1, <2>2
<1>2. CASE ~CompareColumns
  <2>1. \/ pc' \notin Loop
        \/ pc \in Loop /\ UNCHANGED <<hash, left, names>>
    <3>1. CASE \/ SourceChange \/ Migrate \/ UNCHANGED vars \/ NextPart \/ ScanList \/ ScanColumns
               \/ BackupPart \/ LoadPart
      BY <3>1 DEF SourceChange, Migrate, NextPart, ScanList, ScanColumns, BackupPart, LoadPart,
         vars, processVars, stateVars, checkVars, tableVars, Loop
    <3>2. CASE Begin \/ CreateTable \/ CheckTable \/ SelectTables \/ ReadColumns \/ ListParts \/ Restart
      BY <3>2 DEF Begin, CreateTable, CheckTable, CheckFails, Checked, SelectTables, CycleEnds,
         ReadColumns, ListParts, Restart, Loop
    <3>3. CASE Relist \/ SkipPart \/ PartFails \/ ConfirmPart
      BY <3>3 DEF Relist, SkipPart, PartFails, ConfirmPart, AttemptFails, PartDone, TableDone,
         CycleEnds, stateVars, tableVars, Loop
    <3>4. CASE CallFails
      BY <3>4 DEF CallFails, CheckFails, Checked, AttemptFails, Working, PartDone, TableDone,
         CycleEnds, stateVars, checkVars, tableVars, Loop
    <3>. QED
      BY <1>2, <3>1, <3>2, <3>3, <3>4 DEF Next, Run
  <2>2. left' = left => table' = table
    BY DEF table
  <2>. QED
    BY <2>1, <2>2 DEF RecordInv, Loop
<1>. QED
  BY <1>1, <1>2

(* No target table goes away.                                              *)
LEMMA TargetGrows ==
  ASSUME Facts, [Next]_vars, NEW t \in Tables, targetColumns[t] # 0
  PROVE  targetColumns'[t] # 0
<1>1. CASE Migrate
  BY <1>1, ColumnsType DEF Migrate, Facts, TargetOK
<1>2. CASE CreateTable
  BY <1>2 DEF CreateTable, Facts, TargetOK
<1>3. CASE ~Migrate /\ ~CreateTable
  BY <1>3 DEF Next, Run, SourceChange, Begin, CheckTable, SelectTables, ReadColumns, ListParts,
     CompareColumns, NextPart, ScanList, ScanColumns, Relist, SkipPart, BackupPart, LoadPart,
     PartFails, ConfirmPart, CallFails, Restart, vars, targetVars
<1>. QED
  BY <1>1, <1>2, <1>3

(* After the checks, tables stay ready, and a failure stays noted.         *)
LEMMA LoopGoesOn ==
  ASSUME Facts, [Next]_vars, pc \notin Checking
  PROVE  \/ pc' = "idle" /\ ready' = {}
         \/ pc' \notin Checking /\ ready' = ready /\ (failed => failed')
<1>1. CASE \/ SourceChange \/ Migrate \/ UNCHANGED vars \/ NextPart \/ ScanList \/ ScanColumns
           \/ BackupPart \/ LoadPart \/ ReadColumns \/ ListParts
  BY <1>1 DEF SourceChange, Migrate, NextPart, ScanList, ScanColumns, BackupPart, LoadPart,
     ReadColumns, ListParts, ScannedTable, vars, processVars, checkVars, Checking
<1>2. CASE Begin \/ CreateTable \/ CheckTable \/ SelectTables
  BY <1>2 DEF Begin, CreateTable, CheckTable, SelectTables, Checking
<1>3. CASE Restart
  BY <1>3 DEF Restart
<1>4. \A e \in BOOLEAN : TableDone(e) =>
        \/ pc' = "idle" /\ ready' = {}
        \/ pc' = "columns" /\ ready' = ready /\ (failed => failed')
  BY DEF TableDone, CycleEnds
<1>5. \A e \in BOOLEAN : PartDone(e) =>
        \/ TableDone(e)
        \/ pc' \in {"sync", "next", "relist", "scanList"} /\ ready' = ready /\ (failed => failed')
  BY DEF PartDone, ScannedTable
<1>6. CASE CompareColumns \/ Relist \/ SkipPart \/ PartFails \/ ConfirmPart
  <2>1. \/ TableDone(TRUE) \/ TableDone(FALSE) \/ PartDone(TRUE) \/ PartDone(FALSE)
        \/ pc' \in {"next", "sync"} /\ ready' = ready /\ failed' = failed
    BY <1>6 DEF CompareColumns, Relist, SkipPart, PartFails, ConfirmPart, AttemptFails
  <2>. QED
    BY <1>4, <1>5, <2>1 DEF Checking
<1>7. CASE CallFails
  <2>1. \/ TableDone(TRUE) \/ PartDone(TRUE)
        \/ ScannedTable /\ UNCHANGED <<ready, failed>>
    BY <1>7 DEF CallFails, AttemptFails, checkVars, Checking
  <2>. QED
    BY <1>4, <1>5, <2>1 DEF ScannedTable, Checking
<1>. QED
  BY <1>1, <1>2, <1>3, <1>6, <1>7 DEF Next, Run

LEMMA ReadyStep == IInv /\ [Next]_vars => ReadyInv'
<1>. SUFFICES ASSUME Facts, ReadyInv, [Next]_vars PROVE ReadyInv'
  BY AllFacts DEF IInv
<1>1. ready \subseteq Tables /\ left \subseteq Tables
  BY DEF Facts, Lists, CheckOK
<1>2. \A t \in ready : targetColumns'[t] # 0
  BY <1>1, TargetGrows DEF ReadyInv
<1>3. left' = left => table' = table
  BY DEF table
<1>4. CASE pc \notin Checking
  <2>1. \/ pc' = "idle" /\ ready' = {}
        \/ pc' \notin Checking /\ ready' = ready /\ (failed => failed')
    BY <1>4, LoopGoesOn
  <2>. QED
    BY <1>2, <1>4, <2>1 DEF ReadyInv, Checking
<1>5. CASE UNCHANGED <<pc, left, ready, failed>>
  <2>1. pc = "check" => table \in Tables
    BY TableAtHand DEF Facts
  <2>2. pc' = "check" => targetColumns'[table'] # 0
    BY <1>3, <1>5, <2>1, TargetGrows DEF ReadyInv
  <2>. QED
    BY <1>2, <1>5, <2>2 DEF ReadyInv
<1>6. CASE Begin \/ Restart
  BY <1>6 DEF Begin, Restart, ReadyInv, Checking
<1>7. CASE CreateTable
  <2>1. /\ pc' = "check" /\ pc = "create"
        /\ UNCHANGED <<left, ready, failed>>
        /\ table \in Tables
    BY <1>7, TableAtHand DEF CreateTable, checkVars, Facts
  <2>2. targetColumns'[table] # 0
    BY <1>7, <2>1, ColumnsType DEF CreateTable, Facts, TargetOK
  <2>. QED
    BY <1>2, <1>3, <2>1, <2>2 DEF ReadyInv, Checking
<1>8. CASE CheckTable \/ (CallFails /\ pc \in Checking)
  <2>1. Checked /\ pc \in {"create", "check"} /\ UNCHANGED targetColumns
    BY <1>8 DEF CheckTable, CallFails, CheckFails, targetVars, Working, Checking
  <2>2. /\ left' = left \ {table} /\ (pc' = "select" => left' = {})
        /\ pc' \in {"create", "select"}
    BY <2>1 DEF Checked
  <2>3. \/ failed' /\ ready' = ready
        \/ /\ ready' = ready \cup {table} /\ failed' = failed
           /\ targetColumns[table] = columns[table] /\ pc = "check"
    BY <1>8, <2>1 DEF CheckTable, CallFails, CheckFails, Working, Checking
  <2>4. \A t \in ready' : targetColumns'[t] # 0
    BY <1>2, <2>1, <2>3 DEF ReadyInv
  <2>5. failed' \/ Tables \ left' \subseteq ready'
    BY <2>1, <2>2, <2>3 DEF ReadyInv
  <2>. QED
    BY <2>2, <2>4, <2>5 DEF ReadyInv, Checking
<1>9. CASE SelectTables
  <2>1. left = {} /\ (failed \/ Tables \subseteq ready) /\ failed' = failed
    BY <1>9 DEF SelectTables, ReadyInv
  <2>2. \/ pc' = "idle" /\ ready' = {}
        \/ pc' = "columns" /\ ready' = ready
    <3>1. CASE selection \subseteq seen /\ ready # {}
      BY <1>9, <3>1 DEF SelectTables
    <3>2. CASE ~(selection \subseteq seen /\ ready # {})
      <4>1. CycleEnds(selection \subseteq seen /\ ~failed)
        BY <1>9, <3>2 DEF SelectTables
      <4>. QED
        BY <4>1 DEF CycleEnds
    <3>. QED
      BY <3>1, <3>2
  <2>. QED
    BY <1>1, <1>2, <2>1, <2>2 DEF ReadyInv, Checking
<1>10. \/ pc \notin Checking \/ UNCHANGED <<pc, left, ready, failed>>
       \/ Begin \/ Restart \/ CreateTable \/ CheckTable \/ (CallFails /\ pc \in Checking)
       \/ SelectTables
  BY DEF Next, Run, SourceChange, Migrate, ReadColumns, ListParts, CompareColumns, NextPart,
     ScanList, ScanColumns, Relist, SkipPart, BackupPart, LoadPart, PartFails, ConfirmPart, Working,
     vars, processVars, checkVars, Checking
<1>. QED
  BY <1>4, <1>5, <1>6, <1>7, <1>8, <1>9, <1>10

-----------------------------------------------------------------------------
(***************************************************************************)
(* What is owed.                                                           *)
(***************************************************************************)
LEMMA SourceGrows ==
  ASSUME Facts, [Next]_vars
  PROVE  /\ \A p \in Parts : version[p] <= version'[p]
         /\ Begin \/ owed' \subseteq owed
         /\ \A p \in owed' : p \in owed /\ There(p) => There(p)'
<1>1. CASE SourceChange
  BY <1>1, ConstantsAssumption DEF SourceChange, There, Facts, SourceOK, Versions, Gone
<1>2. CASE ~SourceChange
  <2>1. version' = version
    BY <1>2 DEF Next, Run, Migrate, Begin, CreateTable, CheckTable, SelectTables, ReadColumns,
       ListParts, CompareColumns, NextPart, ScanList, ScanColumns, Relist, SkipPart, BackupPart,
       LoadPart, PartFails, ConfirmPart, CallFails, Restart, vars, sourceVars
  <2>2. Begin \/ owed' \subseteq owed
    BY <1>2 DEF Next, Run, Migrate, CreateTable, CheckTable, SelectTables, ReadColumns,
       ListParts, CompareColumns, NextPart, ScanList, ScanColumns, Relist, SkipPart, BackupPart,
       LoadPart, PartFails, ConfirmPart, CallFails, Restart, vars
  <2>. QED
    BY <2>1, <2>2 DEF There, Facts, SourceOK, Gone
<1>. QED
  BY <1>1, <1>2

LEMMA RowGrows ==
  ASSUME Facts, [Next]_vars, NEW p \in Parts
  PROVE  \/ row'[p].imported = row[p].imported
         \/ /\ p = AtHand /\ p \notin owed' /\ ConfirmPart
            /\ row'[p].imported = version[p] /\ version' = version
<1>1. CASE \/ SourceChange \/ Migrate \/ Begin \/ CreateTable \/ CheckTable \/ SelectTables \/ ReadColumns
           \/ ListParts \/ CompareColumns \/ NextPart \/ ScanList \/ ScanColumns \/ Relist
           \/ SkipPart \/ UNCHANGED vars
  BY <1>1 DEF SourceChange, Migrate, Begin, CreateTable, CheckTable, SelectTables, ReadColumns,
     ListParts, CompareColumns, NextPart, ScanList, ScanColumns, Relist, SkipPart, vars, stateVars
<1>2. CASE BackupPart \/ LoadPart
  BY <1>2 DEF BackupPart, LoadPart, Facts, StateOK, Rows
<1>3. CASE PartFails \/ CallFails \/ Restart
  <2>1. \/ UNCHANGED row
        \/ AtWork /\ \E r \in Attempts : row' = [row EXCEPT ![AtHand] = r]
    BY <1>3 DEF PartFails, CallFails, Restart, AttemptFails, Working, AtWork, stateVars
  <2>. QED
    BY <2>1, AttemptsType DEF Facts, StateOK
<1>4. CASE ConfirmPart
  <2>1. CASE version[AtHand] = Queue[AtHand]
    <3>1. /\ row' = [row EXCEPT ![AtHand].imported = Queue[AtHand], ![AtHand].importing = FALSE]
          /\ owed' = owed \ {AtHand} /\ version' = version
      BY <1>4, <2>1 DEF ConfirmPart, sourceVars
    <3>2. row[p] \in Rows /\ row \in [Parts -> Rows]
      BY DEF Facts, StateOK
    <3>. HIDE DEF AtHand, Queue
    <3>3. p # AtHand => row'[p] = row[p]
      BY <3>1, <3>2
    <3>4. p = AtHand => row'[p].imported = Queue[AtHand]
      BY <3>1, <3>2 DEF Rows
    <3>. QED
      BY <1>4, <2>1, <3>1, <3>3, <3>4
  <2>2. CASE version[AtHand] # Queue[AtHand]
    BY <1>4, <2>2 DEF ConfirmPart
  <2>. QED
    BY <2>1, <2>2
<1>. QED
  BY <1>1, <1>2, <1>3, <1>4 DEF Next, Run

(* A list only loses partitions, or shows what the source has.             *)
LEMMA ListFresh ==
  ASSUME Facts, QueueInv, [Next]_vars, NEW p \in Parts
  PROVE  listed'[p] \in {0, listed[p], version'[p]}
<1>1. \A e \in BOOLEAN : TableDone(e) => listed'[p] = 0
  BY DEF TableDone, NoParts
<1>2. \A e \in BOOLEAN : AtWork /\ PartDone(e) => listed'[p] \in {0, listed[p]}
  <2>. SUFFICES ASSUME NEW e \in BOOLEAN, AtWork, PartDone(e) PROVE listed'[p] \in {0, listed[p]}
    OBVIOUS
  <2>1. TableDone(e) \/ listed' = listed \/ (Queue = listed /\ listed' = [Queue EXCEPT ![AtHand] = 0])
    BY DEF PartDone, tableVars, Queue
  <2>. QED
    BY <1>1, <2>1 DEF Facts, Lists, QueueOK
<1>3. CASE \/ SourceChange \/ Migrate \/ Begin \/ CreateTable \/ CheckTable \/ SelectTables \/ ReadColumns
           \/ NextPart \/ ScanList \/ ScanColumns \/ BackupPart \/ LoadPart \/ UNCHANGED vars
  BY <1>3 DEF SourceChange, Migrate, Begin, CreateTable, CheckTable, SelectTables, ReadColumns,
     NextPart, ScanList, ScanColumns, BackupPart, LoadPart, vars, processVars, tableVars
<1>4. CASE ListParts
  BY <1>4 DEF ListParts, Listing, sourceVars
<1>5. CASE CompareColumns
  BY <1>1, <1>5 DEF CompareColumns, tableVars
<1>6. CASE Relist
  BY <1>1, <1>6 DEF Relist, Facts, Lists, QueueOK, sourceVars
<1>7. CASE SkipPart \/ PartFails \/ ConfirmPart
  <2>1. AtWork /\ (PartDone(TRUE) \/ PartDone(FALSE))
    BY <1>7 DEF SkipPart, PartFails, ConfirmPart, AttemptFails, AtWork
  <2>. QED
    BY <1>2, <2>1
<1>8. CASE CallFails
  <2>1. TableDone(TRUE) \/ (AtWork /\ PartDone(TRUE)) \/ listed' = listed
    BY <1>8 DEF CallFails, AttemptFails, Working, AtWork, tableVars
  <2>. QED
    BY <1>1, <1>2, <2>1
<1>9. CASE Restart
  BY <1>9 DEF Restart, NoParts
<1>. QED
  BY <1>3, <1>4, <1>5, <1>6, <1>7, <1>8, <1>9 DEF Next, Run

(* A partition that is owed stays behind the source and the lists.         *)
OwedBehind ==
  /\ \A p \in Parts : row[p].imported <= version[p]
  /\ \A p \in owed : /\ There(p) /\ Selected(p)
                     /\ row[p].imported < version[p]
                     /\ listed[p] = 0 \/ row[p].imported < listed[p]

LEMMA BehindStep ==
  ASSUME IInv, [Next]_vars
  PROVE  OwedBehind'
<1>1. Facts /\ OwedInv /\ QueueInv
  BY AllFacts DEF IInv
<1>2. /\ \A p \in Parts : row[p].imported \in 0..MaxVersion /\ version[p] \in 0..Gone
      /\ \A p \in Parts : version'[p] \in 0..Gone
      /\ owed' \subseteq Parts
  BY <1>1, SourceStep DEF Facts, StateOK, Rows, SourceOK
<1>3. \A p \in Parts : row'[p].imported <= version'[p]
  BY <1>1, <1>2, RowGrows, SourceGrows, ConstantsAssumption DEF OwedInv, Gone
<1>4. CASE Begin
  <2>1. owed' = {p \in Parts : There(p) /\ Selected(p) /\ row[p].imported # version[p]}
        /\ UNCHANGED <<version, row, selection, listed>>
    BY <1>4 DEF Begin, sourceVars, stateVars, tableVars
  <2>2. listed = NoParts
    BY <1>1, <1>4 DEF Begin, QueueInv
  <2>3. \A p \in owed' : row'[p].imported < version'[p]
    BY <1>1, <1>2, <2>1, ConstantsAssumption DEF OwedInv, Gone
  <2>. QED
    BY <1>3, <2>1, <2>2, <2>3 DEF OwedBehind, There, Selected, NoParts
<1>5. CASE ~Begin
  <2>. SUFFICES ASSUME NEW p \in owed'
                PROVE  /\ There(p)' /\ Selected(p)'
                       /\ row'[p].imported < version'[p]
                       /\ listed'[p] = 0 \/ row'[p].imported < listed'[p]
    BY <1>3 DEF OwedBehind
  <2>1. p \in owed /\ p \in Parts
    BY <1>1, <1>2, <1>5, SourceGrows
  <2>2. There(p)' /\ version[p] <= version'[p] /\ row'[p].imported = row[p].imported
    BY <1>1, <2>1, SourceGrows, RowGrows DEF OwedInv
  <2>3. selection' = selection
    BY DEF Next, Run, SourceChange, Migrate, Begin, CreateTable, CheckTable, SelectTables,
       ReadColumns, ListParts, CompareColumns, NextPart, ScanList, ScanColumns, Relist, SkipPart,
       BackupPart, LoadPart, PartFails, ConfirmPart, CallFails, Restart, vars
  <2>4. row'[p].imported < version'[p]
    BY <1>1, <1>2, <2>1, <2>2, ConstantsAssumption DEF OwedInv, Gone
  <2>5. listed'[p] = 0 \/ row'[p].imported < listed'[p]
    BY <1>1, <2>1, <2>2, <2>4, ListFresh DEF OwedInv
  <2>. QED
    BY <1>1, <2>1, <2>2, <2>3, <2>4, <2>5 DEF OwedInv, Selected
<1>. QED
  BY <1>4, <1>5

(* What is owed is still to come.                                          *)
OwedAhead ==
  /\ pc \notin Checking /\ ~failed =>
       \A p \in owed : p[1] \in left
  /\ pc \notin Checking \cup {"columns", "list"} /\ ~failed =>
       \A p \in owed : p[1] = table => listed[p] # 0
  /\ CleanCycle

LEMMA TableDoneAhead ==
  ASSUME CleanCycle, NEW e \in BOOLEAN, TableDone(e), owed' \subseteq owed,
         ~failed' => \A p \in owed' : p[1] \in left /\ p[1] # table
  PROVE  OwedAhead'
<1>1. ~failed' => \A p \in owed' : p[1] \in left'
  BY DEF TableDone
<1>2. \/ pc' = "columns" /\ clean' = clean
      \/ pc' = "idle" /\ left' = {} /\ clean' = ~failed'
  BY DEF TableDone, CycleEnds
<1>3. CleanCycle'
  BY <1>1, <1>2 DEF CleanCycle
<1>. QED
  BY <1>1, <1>2, <1>3 DEF OwedAhead, Checking

LEMMA PartDoneAhead ==
  ASSUME Facts, QueueInv, OwedAhead, AtWork, NEW e \in BOOLEAN, PartDone(e), owed' \subseteq owed,
         scanning \/ e \/ AtHand \notin owed'
  PROVE  OwedAhead'
<1>. DEFINE rest == [Queue EXCEPT ![AtHand] = 0]
<1>1. /\ AtHand \in Parts /\ Queue \in [Parts -> 0..MaxVersion]
      /\ owed \subseteq Parts
  BY PartAtHand DEF Facts, SourceOK
<1>2. ~failed => \A p \in owed : p[1] \in left /\ (p[1] = table => listed[p] # 0)
  BY DEF OwedAhead, AtWork, Checking
<1>3. CASE scanning
  <2>1. pc' \in {"sync", "relist", "scanList"} /\ UNCHANGED <<left, failed, listed, clean>>
    BY <1>3 DEF PartDone, ScannedTable, tableVars
  <2>2. table' = table
    BY <2>1 DEF table
  <2>. QED
    BY <1>2, <2>1, <2>2 DEF OwedAhead, CleanCycle, Checking
<1>4. CASE ~scanning
  <2>1. Queue = listed /\ (failed' \/ (~failed /\ ~e))
    BY <1>4 DEF PartDone, TableDone, Queue
  <2>2. CASE rest = NoParts
    <3>1. \A p \in Parts : p # AtHand => listed[p] = 0
      BY <1>1, <2>1, <2>2 DEF NoParts
    <3>2. ~failed' => \A p \in owed' : p[1] \in left /\ p[1] # table
      BY <1>1, <1>2, <1>4, <2>1, <3>1
    <3>3. TableDone(e)
      BY <1>4, <2>2 DEF PartDone
    <3>. QED
      BY <3>2, <3>3, TableDoneAhead DEF OwedAhead
  <2>3. CASE rest # NoParts
    <3>1. listed' = rest /\ pc' = "next" /\ UNCHANGED <<left, clean>>
      BY <1>4, <2>3 DEF PartDone
    <3>2. table' = table
      BY <3>1 DEF table
    <3>3. ~failed' => \A p \in owed' : p[1] \in left /\ (p[1] = table => listed'[p] # 0)
      BY <1>1, <1>2, <1>4, <2>1, <3>1
    <3>. QED
      BY <3>1, <3>2, <3>3 DEF OwedAhead, CleanCycle, Checking
  <2>. QED
    BY <2>2, <2>3
<1>. QED
  BY <1>3, <1>4

LEMMA AheadStep ==
  ASSUME IInv, [Next]_vars
  PROVE  OwedAhead'
<1>1. Facts /\ QueueInv /\ ReadyInv /\ OwedAhead /\ OwedBehind
  BY AllFacts, Zenon DEF IInv, OwedInv, OwedAhead, OwedBehind
<1>2. owed \subseteq Parts /\ (Begin \/ owed' \subseteq owed)
  BY <1>1, SourceGrows DEF Facts, SourceOK
<1>3. left' = left => table' = table
  BY DEF table
<1>4. CASE SourceChange \/ Migrate \/ UNCHANGED vars \/ ScanList \/ ScanColumns \/ NextPart
           \/ BackupPart \/ LoadPart
  <2>1. /\ UNCHANGED <<left, failed, listed, clean>> /\ owed' \subseteq owed
        /\ \/ pc' = pc
           \/ pc \notin Checking \cup {"columns", "list"}
    BY <1>1, <1>4 DEF SourceChange, Migrate, ScanList, ScanColumns, NextPart, BackupPart, LoadPart,
       vars, processVars, checkVars, tableVars, Checking, OwedAhead
  <2>. QED
    BY <1>1, <1>3, <2>1 DEF OwedAhead, CleanCycle
<1>5. CASE Begin \/ CreateTable \/ CheckTable \/ Restart
  <2>1. pc' \in Checking /\ (clean' = FALSE \/ (clean' = clean /\ owed' = owed))
    BY <1>5 DEF Begin, CreateTable, CheckTable, CheckFails, Checked, Restart, Checking
  <2>. QED
    BY <1>1, <2>1 DEF OwedAhead, CleanCycle
<1>6. CASE SelectTables
  <2>1. left = {} /\ (failed \/ Tables \subseteq ready) /\ failed' = failed /\ owed' = owed
    BY <1>1, <1>6 DEF SelectTables, ReadyInv
  <2>2. CASE selection \subseteq seen /\ ready # {}
    <3>1. left' = ready /\ pc' = "columns" /\ clean' = clean
      BY <1>6, <2>2 DEF SelectTables
    <3>2. \A p \in owed : p[1] \in Tables
      BY <1>2, ConstantsAssumption
    <3>. QED
      BY <1>1, <2>1, <3>1, <3>2 DEF OwedAhead, CleanCycle, Checking
  <2>3. CASE ~(selection \subseteq seen /\ ready # {})
    <3>1. CycleEnds(selection \subseteq seen /\ ~failed)
      BY <1>6, <2>3 DEF SelectTables
    <3>2. pc' = "idle" /\ ~clean'
      BY <2>1, <2>3, <3>1, ConstantsAssumption DEF CycleEnds
    <3>. QED
      BY <3>2 DEF OwedAhead, CleanCycle, Checking
  <2>. QED
    BY <2>2, <2>3
<1>7. CASE ReadColumns
  <2>1. pc = "columns" /\ pc' = "list" /\ UNCHANGED <<left, failed, owed, clean>>
    BY <1>7 DEF ReadColumns, checkVars
  <2>. QED
    BY <1>1, <2>1 DEF OwedAhead, CleanCycle, Checking
<1>8. CASE ListParts
  <2>1. /\ pc = "list" /\ pc' = "compare" /\ UNCHANGED <<left, failed, owed, clean>>
        /\ listed' = Listing(PartsOf(table))
    BY <1>8 DEF ListParts, checkVars
  <2>2. \A p \in owed : p[1] = table => listed'[p] # 0
    BY <1>1, <1>2, <2>1, ListingBegins DEF OwedBehind, PartsOf, Facts
  <2>. QED
    BY <1>1, <1>3, <2>1, <2>2 DEF OwedAhead, CleanCycle, Checking
<1>9. CASE CompareColumns
  <2>1. pc = "compare" /\ owed' = owed
    BY <1>9 DEF CompareColumns
  <2>2. ~failed => \A p \in owed : p[1] \in left /\ (p[1] = table => listed[p] # 0)
    BY <1>1, <2>1 DEF OwedAhead, Checking
  <2>3. CASE TableDone(TRUE)
    BY <1>1, <2>1, <2>3, TableDoneAhead DEF TableDone, OwedAhead
  <2>4. CASE TableDone(FALSE) /\ Empty
    <3>1. ~failed' => \A p \in owed' : p[1] \in left /\ p[1] # table
      BY <1>2, <2>1, <2>2, <2>4 DEF TableDone, Empty, NoParts
    <3>. QED
      BY <1>1, <2>1, <2>4, <3>1, TableDoneAhead DEF OwedAhead
  <2>5. CASE UNCHANGED <<left, failed, tableVars, clean>> /\ pc' = "next"
    BY <1>1, <1>3, <2>1, <2>2, <2>5 DEF OwedAhead, CleanCycle, tableVars, Checking
  <2>. QED
    BY <1>9, <2>3, <2>4, <2>5 DEF CompareColumns
<1>10. CASE Relist
  <2>1. pc = "relist" /\ owed' = owed
    BY <1>10 DEF Relist
  <2>2. CASE TableDone(TRUE)
    BY <1>1, <2>1, <2>2, TableDoneAhead DEF TableDone, OwedAhead
  <2>3. CASE ~TableDone(TRUE)
    <3>. DEFINE p == NextOf(listed)
    <3>1. /\ There(p) /\ listed' = [listed EXCEPT ![p] = version[p]] /\ pc' = "sync"
          /\ UNCHANGED <<left, failed, clean>>
      BY <1>10, <2>3 DEF Relist
    <3>. HIDE DEF p
    <3>2. version[p] # 0
      BY <3>1 DEF There, Versions
    <3>3. \A q \in owed : listed[q] # 0 => listed'[q] # 0
      BY <1>1, <1>2, <3>1, <3>2 DEF Facts, Lists, QueueOK
    <3>. QED
      BY <1>1, <1>3, <2>1, <3>1, <3>3 DEF OwedAhead, CleanCycle, Checking
  <2>. QED
    BY <2>2, <2>3
<1>11. CASE SkipPart
  <2>1. AtWork /\ PartDone(FALSE) /\ owed' = owed /\ row[AtHand].imported = Queue[AtHand]
    BY <1>11 DEF SkipPart, Known, AtWork
  <2>2. AtHand \in Parts /\ Queue[AtHand] \in 1..MaxVersion
    BY <1>1, <2>1, PartAtHand DEF Facts
  <2>3. scanning \/ AtHand \notin owed'
    BY <1>1, <2>1, <2>2 DEF OwedBehind, Queue
  <2>. QED
    BY <1>1, <2>1, <2>3, PartDoneAhead
<1>12. CASE PartFails
  <2>1. AtWork /\ PartDone(TRUE) /\ owed' = owed
    BY <1>12 DEF PartFails, AttemptFails, AtWork
  <2>. QED
    BY <1>1, <2>1, PartDoneAhead
<1>13. CASE ConfirmPart
  <2>1. \/ PartDone(FALSE) /\ owed' = owed \ {AtHand}
        \/ PartDone(TRUE) /\ owed' = owed
    BY <1>13 DEF ConfirmPart
  <2>2. AtWork
    BY <1>13 DEF ConfirmPart, AtWork
  <2>3. CASE PartDone(FALSE) /\ owed' = owed \ {AtHand}
    <3>1. owed' \subseteq owed /\ AtHand \notin owed'
      BY <2>3
    <3>. QED
      BY <1>1, <2>2, <2>3, <3>1, PartDoneAhead
  <2>4. CASE PartDone(TRUE) /\ owed' = owed
    BY <1>1, <2>2, <2>4, PartDoneAhead
  <2>. QED
    BY <2>1, <2>3, <2>4
<1>14. CASE CallFails
  <2>1. owed' = owed
    BY <1>14 DEF CallFails
  <2>2. CASE pc \in {"create", "check"} /\ CheckFails /\ clean' = clean
    BY <1>1, <2>1, <2>2 DEF CheckFails, Checked, OwedAhead, CleanCycle, Checking
  <2>3. CASE TableDone(TRUE)
    BY <1>1, <2>1, <2>3, TableDoneAhead DEF TableDone, OwedAhead
  <2>4. CASE /\ pc \in {"scanList", "scanColumns"} /\ ScannedTable
             /\ UNCHANGED <<checkVars, tableVars, failed, clean>>
    BY <1>1, <1>3, <2>1, <2>4 DEF ScannedTable, OwedAhead, CleanCycle, checkVars, tableVars,
       Checking
  <2>5. CASE AtWork /\ PartDone(TRUE)
    BY <1>1, <2>1, <2>5, PartDoneAhead
  <2>. QED
    BY <1>14, <2>2, <2>3, <2>4, <2>5 DEF CallFails, AttemptFails, Working, AtWork
<1>. QED
  BY <1>4, <1>5, <1>6, <1>7, <1>8, <1>9, <1>10, <1>11, <1>12, <1>13, <1>14 DEF Next, Run

-----------------------------------------------------------------------------
(* Only a load changes what the target shows.                              *)
LEMMA ShownKept == [Next]_vars /\ ~LoadPart => UNCHANGED shown
  BY DEF Next, Run, SourceChange, Migrate, Begin, CreateTable, CheckTable, SelectTables,
     ReadColumns, ListParts, CompareColumns, NextPart, ScanList, ScanColumns, Relist, SkipPart,
     BackupPart, PartFails, ConfirmPart, CallFails, Restart, vars, targetVars

(* A partition stays at hand from its backup to its confirmation.          *)
LEMMA HandKept ==
  ASSUME [Next]_vars, pc' \in {"load", "confirm"}
  PROVE  \/ BackupPart \/ LoadPart
         \/ UNCHANGED <<pc, listed, candidates, scanning, row, shown>>
<1>1. CASE SourceChange \/ Migrate \/ UNCHANGED vars
  BY <1>1 DEF SourceChange, Migrate, vars, processVars, tableVars, scanVars, stateVars, targetVars
<1>2. CASE \/ Begin \/ CreateTable \/ CheckTable \/ SelectTables \/ ReadColumns \/ ListParts
           \/ NextPart \/ ScanList \/ ScanColumns \/ Restart
  BY <1>2 DEF Begin, CreateTable, CheckTable, CheckFails, Checked, SelectTables, CycleEnds,
     ReadColumns, ListParts, NextPart, ScanList, ScannedTable, ScanColumns, Restart
<1>3. \A e \in BOOLEAN : ~TableDone(e) /\ ~PartDone(e)
  <2>1. \A e \in BOOLEAN : ~TableDone(e)
    BY DEF TableDone, CycleEnds
  <2>. QED
    BY <2>1 DEF PartDone, ScannedTable
<1>4. CASE CompareColumns \/ Relist \/ SkipPart \/ PartFails \/ ConfirmPart
  BY <1>3, <1>4 DEF CompareColumns, Relist, SkipPart, PartFails, AttemptFails, ConfirmPart
<1>5. CASE CallFails
  BY <1>3, <1>5 DEF CallFails, CheckFails, Checked, ScannedTable, AttemptFails
<1>. QED
  BY <1>1, <1>2, <1>4, <1>5 DEF Next, Run

(* A load puts a version no older than the one shown into the target, and  *)
(* no newer than the source's.                                             *)
LEMMA LoadForward ==
  ASSUME IInv, LoadPart
  PROVE  /\ AtHand \in Parts /\ shown' = [shown EXCEPT ![AtHand] = Queue[AtHand]]
         /\ Queue[AtHand] = version[AtHand] /\ shown[AtHand] <= version[AtHand]
         /\ UNCHANGED <<version, listed, candidates, scanning>> /\ pc = "load"
         /\ row' = [row EXCEPT ![AtHand].importing = TRUE]
<1>1. Facts /\ AtWork /\ pc = "load" /\ ShownInv
  BY AllFacts DEF IInv, LoadPart, AtWork
<1>2. AtHand \in Parts
  BY <1>1, PartAtHand DEF Facts
<1>. QED
  BY <1>1, <1>2 DEF ShownInv, LoadPart, sourceVars, tableVars, scanVars

LEMMA ShownStep == IInv /\ [Next]_vars => ShownInv'
<1>. SUFFICES ASSUME IInv, [Next]_vars PROVE ShownInv'
  OBVIOUS
<1>1. Facts /\ OwedInv /\ ShownInv
  BY AllFacts DEF IInv
<1>2. \A p \in Parts : /\ row[p].imported \in 0..MaxVersion /\ shown[p] \in 0..MaxVersion
                       /\ version[p] \in 0..Gone /\ version'[p] \in 0..Gone
  BY <1>1, SourceStep DEF Facts, StateOK, Rows, SourceOK, TargetOK
<1>3. ASSUME NEW p \in Parts
      PROVE  row'[p].imported <= shown'[p] /\ shown'[p] <= version'[p]
  <2>1. CASE LoadPart
    <3>1. row'[p].imported = row[p].imported
      BY <1>1, <2>1, LoadForward DEF Facts, StateOK, Rows
    <3>2. shown'[p] = IF p = AtHand THEN version[p] ELSE shown[p]
      BY <1>1, <2>1, LoadForward DEF Facts, TargetOK
    <3>3. version' = version
      BY <2>1, LoadForward
    <3>. HIDE DEF AtHand
    <3>. QED
      BY <1>1, <1>2, <3>1, <3>2, <3>3, ConstantsAssumption DEF OwedInv, ShownInv, Gone
  <2>2. CASE ~LoadPart
    <3>1. shown' = shown /\ version[p] <= version'[p]
      BY <1>1, <2>2, ShownKept, SourceGrows
    <3>2. CASE row'[p].imported = row[p].imported
      BY <1>1, <1>2, <3>1, <3>2, ConstantsAssumption DEF ShownInv, Gone
    <3>3. CASE row'[p].imported # row[p].imported
      <4>1. p = AtHand /\ ConfirmPart /\ row'[p].imported = version[p]
        BY <1>1, <3>3, RowGrows
      <4>2. version[AtHand] = Queue[AtHand]
        BY <3>3, <4>1 DEF ConfirmPart
      <4>3. shown[p] = version[p]
        BY <1>1, <4>1, <4>2 DEF ConfirmPart, ShownInv
      <4>. QED
        BY <1>2, <3>1, <4>1, <4>3, ConstantsAssumption DEF Gone
    <3>. QED
      BY <3>2, <3>3
  <2>. QED
    BY <2>1, <2>2
<1>4. ASSUME pc' \in {"load", "confirm"}
      PROVE  /\ row'[AtHand'].source = Queue'[AtHand']
             /\ pc' = "confirm" => shown'[AtHand'] = Queue'[AtHand']
  <2>1. CASE BackupPart
    <3>1. Queue' = Queue /\ AtHand' = AtHand /\ pc' = "load"
      BY <2>1 DEF BackupPart, Queue, AtHand, NextOf, tableVars, scanVars
    <3>2. AtHand \in Parts
      BY <1>1, <2>1, PartAtHand DEF BackupPart, AtWork, Facts
    <3>3. row'[AtHand].source = Queue[AtHand]
      <4>1. CASE HasBackup(AtHand)
        BY <2>1, <4>1 DEF BackupPart, HasBackup
      <4>2. CASE ~HasBackup(AtHand)
        <5>1. row' = [row EXCEPT ![AtHand] = [source |-> Queue[AtHand],
                        imported |-> row[AtHand].imported, backed |-> TRUE, importing |-> FALSE]]
          BY <2>1, <4>2 DEF BackupPart
        <5>. HIDE DEF AtHand, Queue
        <5>. QED
          BY <1>1, <3>2, <5>1 DEF Facts, StateOK
      <4>. QED
        BY <4>1, <4>2
    <3>. QED
      BY <3>1, <3>3
  <2>2. CASE LoadPart
    <3>1. Queue' = Queue /\ AtHand' = AtHand /\ AtHand \in Parts
      BY <2>2, LoadForward DEF Queue, AtHand, NextOf
    <3>2. row'[AtHand].source = row[AtHand].source /\ row[AtHand].source = Queue[AtHand]
      BY <1>1, <2>2, <3>1, LoadForward DEF Facts, StateOK, Rows, ShownInv
    <3>3. shown'[AtHand] = Queue[AtHand]
      BY <1>1, <2>2, LoadForward DEF Facts, TargetOK
    <3>. QED
      BY <3>1, <3>2, <3>3
  <2>3. CASE UNCHANGED <<pc, listed, candidates, scanning, row, shown>>
    <3>1. Queue' = Queue /\ AtHand' = AtHand
      BY <2>3 DEF Queue, AtHand, NextOf
    <3>. QED
      BY <1>1, <1>4, <2>3, <3>1 DEF ShownInv
  <2>. QED
    BY <1>4, <2>1, <2>2, <2>3, HandKept
<1>. QED
  BY <1>3, <1>4 DEF ShownInv

LEMMA InitInv == Init => IInv
<1>. SUFFICES ASSUME Init PROVE IInv
  OBVIOUS
<1>. USE ConstantsAssumption DEF Init
<1>1. SourceOK
  BY DEF SourceOK, Gone, Layouts
<1>2. TargetOK /\ CheckOK
  BY DEF TargetOK, CheckOK, NoParts
<1>3. StateOK
  <2>1. Cardinality(Names) \in Nat
    BY FS_CardinalityType
  <2>2. NoRow \in Rows
    BY DEF NoRow, Rows
  <2>. QED
    BY <2>1, <2>2 DEF StateOK
<1>4. QueueOK
  BY DEF QueueOK, NoParts
<1>5. StepOK
  <2>1. pc \in Steps /\ changes \in 0..MaxChanges /\ faults \in 0..MaxFaults
    BY DEF Steps
  <2>. QED
    BY <2>1, Zenon DEF StepOK
<1>6. HandOK /\ QueueInv /\ RecordInv /\ CleanCycle
  BY DEF HandOK, QueueInv, RecordInv, CleanCycle, NoParts
<1>7. ReadyInv /\ OwedInv
  BY DEF ReadyInv, OwedInv, Checking, NoRow
<1>8. ShownInv
  BY DEF ShownInv, NoRow, NoParts
<1>. QED
  BY <1>1, <1>2, <1>3, <1>4, <1>5, <1>6, <1>7, <1>8, Parted DEF IInv

LEMMA Invariance == Spec => []IInv
<1>1. IInv /\ [Next]_vars => IInv'
  <2>. SUFFICES ASSUME IInv, [Next]_vars PROVE IInv'
    OBVIOUS
  <2>1. TypeOK' /\ RecordInv' /\ ReadyInv'
    BY TypeStep, RecordStep, ReadyStep
  <2>2. QueueInv'
    BY ListsStep DEF Lists
  <2>3. OwedInv' /\ CleanCycle'
    BY BehindStep, AheadStep, Zenon DEF OwedInv, OwedAhead, OwedBehind
  <2>. QED
    BY <2>1, <2>2, <2>3, ShownStep DEF IInv
<1>. QED
  BY InitInv, <1>1, PTL DEF Spec

(* A cycle always has the table, the partition or the table of the scan at *)
(* hand that its next step takes, for any tables and any selection.        *)
THEOREM TypeCorrect == Spec => []TypeOK
<1>1. IInv => TypeOK
  BY DEF IInv
<1>. QED
  BY Invariance, <1>1, PTL

(* cycle copies nothing before every target table is there or has failed   *)
(* its check.                                                              *)
THEOREM CreatedCorrect == Spec => []CreatedFirst
<1>1. IInv => CreatedFirst
  BY DEF IInv, ReadyInv, CreatedFirst, Checking
<1>. QED
  BY Invariance, <1>1, PTL

(* A cycle that reports no error has imported all it was to import.        *)
THEOREM CleanCorrect == Spec => []CleanCycle
<1>1. IInv => CleanCycle
  BY DEF IInv
<1>. QED
  BY Invariance, <1>1, PTL

(* What the state file calls up to date shows the source's version, across *)
(* the loop, the scan, failures and restarts.                              *)
THEOREM RecordedCorrect == Spec => []RecordedShown
<1>1. IInv => RecordedShown
  <2>. SUFFICES ASSUME IInv, NEW p \in Parts, There(p), Current(p) PROVE shown[p] = version[p]
    BY DEF RecordedShown
  <2>1. version[p] \in Nat /\ shown[p] \in Nat /\ row[p].imported = version[p]
    BY AllFacts DEF Facts, SourceOK, TargetOK, Current, There, Versions
  <2>. QED
    BY <2>1 DEF IInv, ShownInv
<1>. QED
  BY Invariance, <1>1, PTL

(* Neither the loop nor the scan takes a target partition back to an older *)
(* version, however stale the lists they work from (confirmIdentity).      *)
THEOREM NeverBack == Spec => [][\A p \in Parts : shown[p] <= shown'[p]]_vars
<1>. DEFINE Step == \A p \in Parts : shown[p] <= shown'[p]
<1>1. IInv /\ [Next]_vars => [Step]_vars
  <2>. SUFFICES ASSUME IInv, [Next]_vars PROVE Step
    OBVIOUS
  <2>1. Facts /\ \A p \in Parts : shown[p] \in Nat
    BY AllFacts DEF Facts, TargetOK
  <2>2. CASE LoadPart
    BY <2>1, <2>2, LoadForward DEF Facts, TargetOK
  <2>3. CASE ~LoadPart
    BY <2>1, <2>3, ShownKept
  <2>. QED
    BY <2>2, <2>3
<1>. QED
  BY Invariance, <1>1, PTL DEF Spec

(* The loop of syncTable only loads with the columns recorded, which stay. *)
THEOREM ColumnsCorrect == Spec => LoopAsRecorded
<1>. DEFINE Step == /\ \A p \in Parts : shown'[p] # shown[p] /\ ~scanning => InUse = hash[p[1]]
                    /\ \A t \in Tables : hash[t] \in {0, hash'[t]}
<1>1. IInv /\ [Next]_vars => [Step]_vars
  <2>. SUFFICES ASSUME IInv, [Next]_vars PROVE Step
    OBVIOUS
  <2>1. Facts /\ RecordInv
    BY AllFacts DEF IInv
  <2>2. CASE LoadPart
    <3>1. UNCHANGED hash /\ shown' = [shown EXCEPT ![AtHand] = row[AtHand].source] /\ AtWork
      BY <2>2 DEF LoadPart, AtWork
    <3>2. ~scanning => AtHand[1] = table /\ InUse = hash[table]
      BY <2>1, <3>1, PartAtHand DEF Facts, AtWork, InUse, RecordInv
    <3>. QED
      BY <2>1, <3>1, <3>2 DEF Facts, TargetOK
  <2>3. CASE ~LoadPart
    <3>1. UNCHANGED shown
      BY <2>3, ShownKept
    <3>2. CASE CompareColumns
      BY <2>1, <3>1, <3>2 DEF CompareColumns, Compatible, Facts, StateOK
    <3>3. CASE ~CompareColumns
      <4>1. UNCHANGED hash
        BY <2>3, <3>3 DEF Next, Run, SourceChange, Migrate, Begin, CreateTable, CheckTable,
           CheckFails, SelectTables, ReadColumns, ListParts, NextPart, ScanList, ScanColumns,
           Relist, SkipPart, BackupPart, PartFails, ConfirmPart, CallFails, Restart, vars,
           stateVars
      <4>. QED
        BY <3>1, <4>1
    <3>. QED
      BY <3>2, <3>3
  <2>. QED
    BY <2>2, <2>3
<1>. QED
  BY Invariance, <1>1, PTL DEF Spec, LoopAsRecorded

(* Loop and scan load only what the options select.                        *)
THEOREM SelectionCorrect == Spec => OnlySelected
<1>. DEFINE Step == \A p \in Parts : UNCHANGED shown[p] \/ Selected(p)
<1>1. IInv /\ [Next]_vars => [Step]_vars
  <2>. SUFFICES ASSUME IInv, [Next]_vars PROVE Step
    OBVIOUS
  <2>1. Facts
    BY AllFacts
  <2>2. CASE LoadPart
    <3>1. shown' = [shown EXCEPT ![AtHand] = row[AtHand].source] /\ AtWork
      BY <2>2 DEF LoadPart, AtWork
    <3>2. Selected(AtHand)
      BY <2>1, <3>1, PartAtHand DEF Facts
    <3>. QED
      BY <2>1, <3>1, <3>2 DEF Facts, TargetOK
  <2>3. CASE ~LoadPart
    <3>1. UNCHANGED shown
      BY <2>3, ShownKept
    <3>. QED
      BY <3>1
  <2>. QED
    BY <2>2, <2>3
<1>. QED
  BY Invariance, <1>1, PTL DEF Spec, OnlySelected
=============================================================================
