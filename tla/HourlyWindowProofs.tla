------------------------- MODULE HourlyWindowProofs -------------------------
(***************************************************************************)
(* Proofs about HourlyWindow, for every set of rows, every bound and every *)
(* time zone.                                                              *)
(***************************************************************************)
EXTENDS HourlyWindow, FiniteSetTheorems, TLAPS

(***************************************************************************)
(* The inductive invariant.  A prefix is used by the attempt it was drawn  *)
(* for and no other.                                                       *)
(***************************************************************************)
PrefixInv ==
  /\ \A f \in files \cup stale : f.prefix <= prefixes
  /\ pending.prefix <= prefixes
  /\ pc \in {"probe", "export"} => \A f \in files \cup stale : f.prefix # pending.prefix
  /\ pc = "list" \/ pending.ready => \A f \in stale : f.prefix # pending.prefix

(* The file of one export, with rows of the pending window only.           *)
OneFile(fs) == \E f \in Files : fs = {f} /\ \A r \in f.rows : InWindow(pending, r)

BackupInv ==
  /\ pc = "list" => OneFile(Stored(pending.prefix))
  /\ pending.ready => Stored(pending.prefix) = pending.objects /\ OneFile(pending.objects)

(* The window advances with the steps, and a started import is not left    *)
(* for another window.                                                     *)
WindowInv ==
  /\ pending.open => pending.from = next /\ pending.from < pending.to
  /\ pending.ready => pending.open
  /\ pending.started => pending.ready
  /\ pc \in {"newPrefix", "probe", "export", "list"} => ~pending.ready
  /\ pc \in {"verify", "load", "finish"} => pending.ready
  /\ pc \in {"load", "finish"} => pending.started

(* While an import may still commit, none has.                             *)
LoadInv ==
  /\ late # {} => pending.started /\ OneFile(late) /\ pc \in {"idle", "verify"}
  /\ late # {} \/ pc = "load" => \A r \in Rows : InWindow(pending, r) => target[r] = 0

IInv == TypeOK /\ PrefixInv /\ BackupInv /\ WindowInv /\ LoadInv /\ AtMostOnce /\ CursorCovers

-----------------------------------------------------------------------------
LEMMA InitInv == Init => IInv
<1>. SUFFICES ASSUME Init PROVE IInv
  OBVIOUS
<1>. USE HourAssumption, RowsAssumption, ZonesAssumption DEF Init, NoWindow
<1>1. TypeOK
  <2>1. next \in Int /\ clock \in Hours
    BY DEF Hours
  <2>2. pending \in Windows
    BY DEF Windows
  <2>. QED
    BY <2>1, <2>2 DEF TypeOK, Steps
<1>2. PrefixInv /\ BackupInv /\ WindowInv /\ LoadInv
  BY DEF PrefixInv, BackupInv, WindowInv, LoadInv
<1>3. AtMostOnce /\ CursorCovers
  BY DEF AtMostOnce, CursorCovers
<1>. QED
  BY <1>1, <1>2, <1>3 DEF IInv

(* The window at the cursor, whatever the zone.                            *)
LEMMA WindowBounds ==
  ASSUME TypeOK, Eligible
  PROVE  WindowEnd \in Int /\ next < WindowEnd
<1>. DEFINE start == Resolve(next)
<1>. USE ZonesAssumption, HourAssumption
<1>1. PICK h \in Hours : zone.local[h] = next /\ start = zone.read[h]
  BY DEF Eligible, Showing, Resolve
<1>2. start \in Hours /\ zone.local[start] = next
  BY <1>1 DEF TypeOK
<1>3. Resolve(zone.local[clock]) \in Hours
  <2>1. clock \in Showing(zone.local[clock])
    BY DEF Showing, TypeOK
  <2>. QED
    BY <2>1 DEF Resolve, Showing, TypeOK
<1>4. start + 1 \in Hours
  BY <1>2, <1>3 DEF Eligible, Cutoff, Hours
<1>. QED
  BY <1>2, <1>4 DEF Eligible, WindowEnd, TypeOK

(* What an INSERT of one file, or of no file, adds.                        *)
LEMMA InsertOne ==
  ASSUME TypeOK, NEW f \in Files, NEW r \in Rows
  PROVE  Inserted({f})[r] = target[r] + (IF r \in f.rows THEN 1 ELSE 0)
<1>1. {g \in {f} : r \in g.rows} = IF r \in f.rows THEN {f} ELSE {}
  OBVIOUS
<1>2. Cardinality({f}) = 1 /\ Cardinality({}) = 0
  BY FS_Singleton, FS_EmptySet
<1>. QED
  BY <1>1, <1>2 DEF Inserted, TypeOK

LEMMA InsertedType ==
  ASSUME TypeOK, NEW f \in Files
  PROVE  Inserted({f}) \in [Rows -> Nat]
<1>1. ASSUME NEW r \in Rows PROVE Inserted({f})[r] \in Nat
  <2>1. target[r] \in Nat
    BY DEF TypeOK
  <2>2. CASE r \in f.rows
    BY <2>1, <2>2, InsertOne
  <2>3. CASE r \notin f.rows
    BY <2>1, <2>3, InsertOne
  <2>. QED
    BY <2>2, <2>3
<1>2. Inserted({f}) = [r \in Rows |-> Inserted({f})[r]]
  BY DEF Inserted
<1>. QED
  BY <1>1, <1>2

(* The row of the cursor after each kind of change.                        *)
LEMMA WindowTypes ==
  ASSUME NEW w \in Windows, NEW p \in Nat, NEW fs \in SUBSET Files
  PROVE  /\ NoWindow \in Windows
         /\ [w EXCEPT !.prefix = p, !.objects = {}] \in Windows
         /\ [w EXCEPT !.objects = fs, !.ready = TRUE] \in Windows
         /\ [w EXCEPT !.started = TRUE] \in Windows
<1>1. NoWindow \in Windows
  BY DEF Windows, NoWindow
<1>2. ASSUME NEW os \in SUBSET Files
      PROVE  [w EXCEPT !.prefix = p, !.objects = os] \in Windows
  BY DEF Windows
<1>3. [w EXCEPT !.prefix = p, !.objects = {}] \in Windows
  BY <1>2
<1>4. [w EXCEPT !.objects = fs, !.ready = TRUE] \in Windows
  BY DEF Windows
<1>5. [w EXCEPT !.started = TRUE] \in Windows
  BY DEF Windows
<1>. QED
  BY <1>1, <1>3, <1>4, <1>5

LEMMA ExportedType ==
  ASSUME TypeOK
  PROVE  /\ Exported \in Files
         /\ Exported.prefix = pending.prefix
         /\ \A r \in Exported.rows : InWindow(pending, r)
<1>1. WindowRows(pending) \in SUBSET Rows
  BY DEF WindowRows, TypeOK
<1>2. pending.prefix \in Nat /\ exports + 1 \in Nat
  BY DEF TypeOK, Windows
<1>. QED
  BY <1>1, <1>2 DEF Exported, Files, WindowRows

(* Type correctness.                                                       *)
LEMMA TypeStep == IInv /\ [Next]_vars => TypeOK'
<1>. SUFFICES ASSUME IInv, [Next]_vars PROVE TypeOK'
  OBVIOUS
<1>. USE HourAssumption, RowsAssumption
<1>. USE DEF outside, storeVars, targetVars, cursorVars, TypeOK, IInv, Steps
<1>1. CASE Tick
  BY <1>1 DEF Tick, Hours
<1>2. ASSUME NEW r \in Rows, Arrive(r) PROVE TypeOK'
  BY <1>2 DEF Arrive
<1>3. CASE NothingEligible
  BY <1>3 DEF NothingEligible, vars
<1>4. CASE OpenWindow
  <2>1. pending' \in Windows
    BY <1>4, WindowBounds DEF OpenWindow, NoWindow, Windows
  <2>. QED
    BY <1>4, <2>1 DEF OpenWindow, NoWindow
<1>5. CASE ResumeWindow
  BY <1>5 DEF ResumeWindow
<1>6. CASE NewPrefix
  <2>1. prefixes + 1 \in Nat /\ {} \in SUBSET Files
    OBVIOUS
  <2>3. pending' \in Windows
    BY <1>6, <2>1, WindowTypes DEF NewPrefix, FreshPrefix
  <2>2. pending'.open = pending.open
    BY <1>6 DEF NewPrefix, Windows
  <2>. QED
    BY <1>6, <2>1, <2>2, <2>3 DEF NewPrefix
<1>7. CASE ProbeEmpty
  <2>1. next' \in Int /\ pending' \in Windows
    BY <1>7, WindowTypes DEF ProbeEmpty, Complete, Windows
  <2>. QED
    BY <1>7, <2>1 DEF ProbeEmpty, Complete
<1>8. CASE ProbeRows
  BY <1>8 DEF ProbeRows
<1>9. CASE Export
  BY <1>9, ExportedType DEF Export
<1>10. CASE ListBackup
  <2>1. Stored(pending.prefix) \in SUBSET Files
    BY DEF Stored
  <2>2. pending' \in Windows
    BY <1>10, <2>1, WindowTypes DEF ListBackup
  <2>3. pending'.open = pending.open
    BY <1>10 DEF ListBackup, Windows
  <2>. QED
    BY <1>10, <2>2, <2>3 DEF ListBackup
<1>11. CASE Refuse
  BY <1>11 DEF Refuse
<1>12. CASE MarkStarted
  <2>1. pending' \in Windows
    BY <1>12, WindowTypes DEF MarkStarted
  <2>2. pending'.open = pending.open
    BY <1>12 DEF MarkStarted, Windows
  <2>. QED
    BY <1>12, <2>1, <2>2 DEF MarkStarted
<1>13. CASE Load
  <2>1. PICK f \in Files : Stored(pending.prefix) = {f}
    BY <1>13 DEF Load, WindowInv, BackupInv, OneFile
  <2>2. target' \in [Rows -> Nat]
    BY <1>13, <2>1, InsertedType DEF Load
  <2>. QED
    BY <1>13, <2>2 DEF Load
<1>14. CASE Finish
  <2>1. next' \in Int /\ pending' \in Windows
    BY <1>14, WindowTypes DEF Finish, Complete, Windows
  <2>. QED
    BY <1>14, <2>1 DEF Finish, Complete
<1>15. CASE Fail
  BY <1>15 DEF Fail, GiveUp
<1>16. CASE ExportAbandoned
  <2>1. faults' \in 0..MaxFaults
    BY <1>16 DEF ExportAbandoned, GiveUp
  <2>2. stale' \subseteq Files
    BY <1>16, ExportedType DEF ExportAbandoned
  <2>. QED
    BY <1>16, <2>1, <2>2 DEF ExportAbandoned, GiveUp
<1>17. CASE LoadAbandoned
  <2>1. faults' \in 0..MaxFaults
    BY <1>17 DEF LoadAbandoned, GiveUp
  <2>2. late' \subseteq Files
    BY <1>17 DEF LoadAbandoned, Stored
  <2>. QED
    BY <1>17, <2>1, <2>2 DEF LoadAbandoned, GiveUp
<1>18. CASE StaleExportWrites
  BY <1>18 DEF StaleExportWrites
<1>19. CASE LateLoadCommits
  <2>1. PICK f \in Files : late = {f}
    BY <1>19 DEF LateLoadCommits, LoadInv, OneFile
  <2>2. target' \in [Rows -> Nat]
    BY <1>19, <2>1, InsertedType DEF LateLoadCommits
  <2>. QED
    BY <1>19, <2>2 DEF LateLoadCommits
<1>20. CASE UNCHANGED vars
  BY <1>20 DEF vars
<1>. QED
  BY <1>1, <1>2, <1>3, <1>4, <1>5, <1>6, <1>7, <1>8, <1>9, <1>10, <1>11, <1>12, <1>13, <1>14, <1>15, <1>16, <1>17, <1>18, <1>19, <1>20
     DEF Next, Window, Faults

(* Each attempt draws a prefix that no file or abandoned export has.        *)
LEMMA PrefixStep == IInv /\ [Next]_vars => PrefixInv'
<1>. SUFFICES ASSUME IInv, [Next]_vars PROVE PrefixInv'
  OBVIOUS
<1>. USE HourAssumption, RowsAssumption
<1>. USE DEF outside, storeVars, targetVars, cursorVars, IInv, PrefixInv
<1>1. CASE Tick
  BY <1>1 DEF Tick
<1>2. ASSUME NEW r \in Rows, Arrive(r) PROVE PrefixInv'
  BY <1>2 DEF Arrive
<1>3. CASE NothingEligible
  BY <1>3 DEF NothingEligible, vars
<1>4. CASE OpenWindow
  <2>1. prefixes \in Nat
    BY DEF TypeOK
  <2>. QED
    BY <1>4, <2>1 DEF OpenWindow, NoWindow
<1>5. CASE ResumeWindow
  BY <1>5 DEF ResumeWindow
<1>6. CASE NewPrefix
  <2>1. prefixes' = prefixes + 1 /\ pending'.prefix = prefixes + 1 /\ ~pending'.ready
    BY <1>6 DEF NewPrefix, FreshPrefix, TypeOK, Windows, WindowInv
  <2>2. \A f \in files \cup stale : f.prefix \in Nat /\ f.prefix <= prefixes
    BY DEF TypeOK, Files
  <2>3. prefixes \in Nat
    BY DEF TypeOK
  <2>. QED
    BY <1>6, <2>1, <2>2, <2>3 DEF NewPrefix
<1>7. CASE ProbeEmpty
  <2>1. prefixes \in Nat
    BY DEF TypeOK
  <2>. QED
    BY <1>7, <2>1 DEF ProbeEmpty, Complete, NoWindow
<1>8. CASE ProbeRows
  BY <1>8 DEF ProbeRows
<1>9. CASE Export
  BY <1>9, ExportedType DEF Export, WindowInv
<1>10. CASE ListBackup
  <2>1. pending'.prefix = pending.prefix
    BY <1>10 DEF ListBackup, TypeOK, Windows
  <2>. QED
    BY <1>10, <2>1 DEF ListBackup
<1>11. CASE Refuse
  BY <1>11 DEF Refuse
<1>12. CASE MarkStarted
  <2>1. pending'.prefix = pending.prefix /\ pending'.ready = pending.ready
    BY <1>12 DEF MarkStarted, TypeOK, Windows
  <2>. QED
    BY <1>12, <2>1 DEF MarkStarted
<1>13. CASE Load
  BY <1>13 DEF Load
<1>14. CASE Finish
  <2>1. prefixes \in Nat
    BY DEF TypeOK
  <2>. QED
    BY <1>14, <2>1 DEF Finish, Complete, NoWindow
<1>15. CASE Fail
  BY <1>15 DEF Fail, GiveUp
<1>16. CASE ExportAbandoned
  BY <1>16, ExportedType DEF ExportAbandoned, GiveUp, WindowInv
<1>17. CASE LoadAbandoned
  BY <1>17 DEF LoadAbandoned, GiveUp
<1>18. CASE StaleExportWrites
  BY <1>18 DEF StaleExportWrites
<1>19. CASE LateLoadCommits
  BY <1>19 DEF LateLoadCommits
<1>20. CASE UNCHANGED vars
  BY <1>20 DEF vars
<1>. QED
  BY <1>1, <1>2, <1>3, <1>4, <1>5, <1>6, <1>7, <1>8, <1>9, <1>10, <1>11, <1>12, <1>13, <1>14, <1>15, <1>16, <1>17, <1>18, <1>19, <1>20
     DEF Next, Window, Faults

(* The steps of a window follow one another.                               *)
LEMMA WindowStep == IInv /\ [Next]_vars => WindowInv'
<1>. SUFFICES ASSUME IInv, [Next]_vars PROVE WindowInv'
  OBVIOUS
<1>. USE HourAssumption, RowsAssumption
<1>. USE DEF outside, storeVars, targetVars, cursorVars, IInv, WindowInv
<1>1. CASE Tick
  BY <1>1 DEF Tick
<1>2. ASSUME NEW r \in Rows, Arrive(r) PROVE WindowInv'
  BY <1>2 DEF Arrive
<1>3. CASE NothingEligible
  BY <1>3 DEF NothingEligible, vars
<1>4. CASE OpenWindow
  BY <1>4, WindowBounds DEF OpenWindow, NoWindow
<1>5. CASE ResumeWindow
  BY <1>5 DEF ResumeWindow
<1>6. CASE NewPrefix
  BY <1>6 DEF NewPrefix, TypeOK, Windows
<1>7. CASE ProbeEmpty
  BY <1>7 DEF ProbeEmpty, Complete, NoWindow
<1>8. CASE ProbeRows
  BY <1>8 DEF ProbeRows
<1>9. CASE Export
  BY <1>9 DEF Export, Exported
<1>10. CASE ListBackup
  BY <1>10 DEF ListBackup, TypeOK, Windows
<1>11. CASE Refuse
  BY <1>11 DEF Refuse
<1>12. CASE MarkStarted
  BY <1>12 DEF MarkStarted, TypeOK, Windows
<1>13. CASE Load
  BY <1>13 DEF Load
<1>14. CASE Finish
  BY <1>14 DEF Finish, Complete, NoWindow
<1>15. CASE Fail
  BY <1>15 DEF Fail, GiveUp
<1>16. CASE ExportAbandoned
  BY <1>16 DEF ExportAbandoned, GiveUp, Exported
<1>17. CASE LoadAbandoned
  BY <1>17 DEF LoadAbandoned, GiveUp
<1>18. CASE StaleExportWrites
  BY <1>18 DEF StaleExportWrites
<1>19. CASE LateLoadCommits
  BY <1>19 DEF LateLoadCommits
<1>20. CASE UNCHANGED vars
  BY <1>20 DEF vars
<1>. QED
  BY <1>1, <1>2, <1>3, <1>4, <1>5, <1>6, <1>7, <1>8, <1>9, <1>10, <1>11, <1>12, <1>13, <1>14, <1>15, <1>16, <1>17, <1>18, <1>19, <1>20
     DEF Next, Window, Faults

(* The backup of the window is one complete file: one export ended since   *)
(* the prefix was drawn, and none that was abandoned shares it.            *)
LEMMA StoredOne ==
  ASSUME TypeOK, PrefixInv, WindowInv, pc = "export"
  PROVE  {f \in files \cup {Exported} : f.prefix = pending.prefix} = {Exported}
BY ExportedType DEF PrefixInv

(* A listed backup is that of the window and stays as listed.              *)
LEMMA BackupStep == IInv /\ [Next]_vars => BackupInv'
<1>. SUFFICES ASSUME IInv, [Next]_vars PROVE BackupInv'
  OBVIOUS
<1>. USE HourAssumption, RowsAssumption
<1>. USE DEF outside, storeVars, targetVars, cursorVars, IInv, BackupInv
<1>1. CASE Tick
  BY <1>1 DEF Tick, OneFile, Stored, InWindow
<1>2. ASSUME NEW r \in Rows, Arrive(r) PROVE BackupInv'
  BY <1>2 DEF Arrive, OneFile, Stored, InWindow
<1>3. CASE NothingEligible
  BY <1>3 DEF NothingEligible, vars, OneFile, Stored, InWindow
<1>4. CASE OpenWindow
  BY <1>4 DEF OpenWindow, NoWindow
<1>5. CASE ResumeWindow
  BY <1>5 DEF ResumeWindow, OneFile, Stored, InWindow
<1>6. CASE NewPrefix
  <2>1. ~pending'.ready
    BY <1>6 DEF NewPrefix, TypeOK, Windows, WindowInv
  <2>. QED
    BY <1>6, <2>1 DEF NewPrefix
<1>7. CASE ProbeEmpty
  BY <1>7 DEF ProbeEmpty, Complete, NoWindow
<1>8. CASE ProbeRows
  BY <1>8 DEF ProbeRows, OneFile, Stored, InWindow
<1>9. CASE Export
  <2>1. Stored(pending.prefix)' = {Exported}
    BY <1>9, StoredOne DEF Export, Stored
  <2>2. OneFile(Stored(pending.prefix))'
    BY <1>9, <2>1, ExportedType DEF Export, OneFile, InWindow
  <2>. QED
    BY <1>9, <2>2 DEF Export, WindowInv
<1>10. CASE ListBackup
  <2>1. /\ pending'.prefix = pending.prefix /\ pending'.from = pending.from
        /\ pending'.to = pending.to /\ pending'.objects = Stored(pending.prefix)
    BY <1>10 DEF ListBackup, TypeOK, Windows
  <2>2. Stored(pending.prefix)' = Stored(pending.prefix)
    BY <1>10, <2>1 DEF ListBackup, Stored
  <2>3. OneFile(Stored(pending.prefix))'
    BY <1>10, <2>1, <2>2 DEF ListBackup, OneFile, InWindow
  <2>. QED
    BY <1>10, <2>1, <2>2, <2>3 DEF ListBackup
<1>11. CASE Refuse
  BY <1>11 DEF Refuse, OneFile, Stored, InWindow
<1>12. CASE MarkStarted
  <2>1. /\ pending'.prefix = pending.prefix /\ pending'.from = pending.from
        /\ pending'.to = pending.to /\ pending'.objects = pending.objects
        /\ pending'.ready = pending.ready
    BY <1>12 DEF MarkStarted, TypeOK, Windows
  <2>. QED
    BY <1>12, <2>1 DEF MarkStarted, OneFile, InWindow, Stored
<1>13. CASE Load
  BY <1>13 DEF Load, OneFile, Stored, InWindow
<1>14. CASE Finish
  BY <1>14 DEF Finish, Complete, NoWindow
<1>15. CASE Fail
  BY <1>15 DEF Fail, GiveUp, OneFile, Stored, InWindow
<1>16. CASE ExportAbandoned
  BY <1>16 DEF ExportAbandoned, GiveUp, Exported, OneFile, Stored, InWindow
<1>17. CASE LoadAbandoned
  BY <1>17 DEF LoadAbandoned, GiveUp, OneFile, Stored, InWindow
<1>18. CASE StaleExportWrites
  <2>1. PICK f \in stale : files' = files \cup {f} /\ UNCHANGED <<pending, pc>>
    BY <1>18 DEF StaleExportWrites
  <2>2. pc = "list" \/ pending.ready => Stored(pending.prefix)' = Stored(pending.prefix)
    BY <2>1 DEF Stored, PrefixInv
  <2>. QED
    BY <2>1, <2>2 DEF OneFile, InWindow
<1>19. CASE LateLoadCommits
  BY <1>19 DEF LateLoadCommits, OneFile, Stored, InWindow
<1>20. CASE UNCHANGED vars
  BY <1>20 DEF vars, OneFile, Stored, InWindow
<1>. QED
  BY <1>1, <1>2, <1>3, <1>4, <1>5, <1>6, <1>7, <1>8, <1>9, <1>10, <1>11, <1>12, <1>13, <1>14, <1>15, <1>16, <1>17, <1>18, <1>19, <1>20
     DEF Next, Window, Faults

(* An import starts, and can end late, while none of its rows are there.    *)
LEMMA LoadStep == IInv /\ [Next]_vars => LoadInv'
<1>. SUFFICES ASSUME IInv, [Next]_vars PROVE LoadInv'
  OBVIOUS
<1>. USE HourAssumption, RowsAssumption
<1>. USE DEF outside, storeVars, targetVars, cursorVars, IInv, LoadInv
<1>1. CASE Tick
  BY <1>1 DEF Tick, OneFile, InWindow
<1>2. ASSUME NEW r \in Rows, Arrive(r) PROVE LoadInv'
  BY <1>2 DEF Arrive, OneFile, InWindow
<1>3. CASE NothingEligible
  BY <1>3 DEF NothingEligible, vars, OneFile, InWindow
<1>4. CASE OpenWindow
  BY <1>4 DEF OpenWindow, NoWindow, WindowInv
<1>5. CASE ResumeWindow
  BY <1>5 DEF ResumeWindow, OneFile, InWindow, WindowInv
<1>6. CASE NewPrefix
  BY <1>6 DEF NewPrefix
<1>7. CASE ProbeEmpty
  BY <1>7 DEF ProbeEmpty, Complete
<1>8. CASE ProbeRows
  BY <1>8 DEF ProbeRows, OneFile, InWindow
<1>9. CASE Export
  BY <1>9 DEF Export, Exported, OneFile, InWindow
<1>10. CASE ListBackup
  BY <1>10 DEF ListBackup
<1>11. CASE Refuse
  BY <1>11 DEF Refuse, OneFile, InWindow
<1>12. CASE MarkStarted
  <2>1. ~pending.started /\ pending.ready /\ pending.open
    BY <1>12 DEF MarkStarted, Trusted, WindowInv
  <2>2. /\ pending'.from = pending.from /\ pending'.to = pending.to
        /\ pending.from = next
    BY <1>12, <2>1 DEF MarkStarted, TypeOK, Windows, WindowInv
  <2>3. ASSUME NEW r \in Rows, InWindow(pending, r) PROVE target[r] = 0
    <3>1. target[r] \in Nat /\ next \in Int /\ HourOf[r] \in Int
      BY RowsAssumption DEF TypeOK
    <3>. QED
      BY <2>1, <2>2, <2>3, <3>1 DEF CursorCovers, InWindow
  <2>. QED
    BY <1>12, <2>1, <2>2, <2>3 DEF MarkStarted, InWindow
<1>13. CASE Load
  BY <1>13 DEF Load
<1>14. CASE Finish
  BY <1>14 DEF Finish, Complete
<1>15. CASE Fail
  BY <1>15 DEF Fail, GiveUp, OneFile, InWindow
<1>16. CASE ExportAbandoned
  BY <1>16 DEF ExportAbandoned, GiveUp, Exported, OneFile, InWindow
<1>17. CASE LoadAbandoned
  <2>1. late' = Stored(pending.prefix) /\ OneFile(Stored(pending.prefix)) /\ pending.started
    BY <1>17 DEF LoadAbandoned, WindowInv, BackupInv
  <2>. QED
    BY <1>17, <2>1 DEF LoadAbandoned, GiveUp, OneFile, InWindow
<1>18. CASE StaleExportWrites
  BY <1>18 DEF StaleExportWrites, OneFile, InWindow
<1>19. CASE LateLoadCommits
  BY <1>19 DEF LateLoadCommits
<1>20. CASE UNCHANGED vars
  BY <1>20 DEF vars, OneFile, InWindow
<1>. QED
  BY <1>1, <1>2, <1>3, <1>4, <1>5, <1>6, <1>7, <1>8, <1>9, <1>10, <1>11, <1>12, <1>13, <1>14, <1>15, <1>16, <1>17, <1>18, <1>19, <1>20
     DEF Next, Window, Faults

(* The import of one file of the window, on time or late.                  *)
LEMMA InsertStep ==
  ASSUME IInv, NEW f \in Files, \A r \in f.rows : InWindow(pending, r),
         \A r \in Rows : InWindow(pending, r) => target[r] = 0,
         pending.started, target' = Inserted({f}), UNCHANGED <<next, pending>>
  PROVE  AtMostOnce' /\ CursorCovers'
<1>1. ASSUME NEW r \in Rows, r \in f.rows
      PROVE  target'[r] = 1 /\ InWindow(pending, r)
  BY <1>1, InsertOne DEF IInv
<1>2. ASSUME NEW r \in Rows, r \notin f.rows
      PROVE  target'[r] = target[r]
  <2>1. target[r] \in Nat
    BY DEF IInv, TypeOK
  <2>. QED
    BY <1>2, <2>1, InsertOne DEF IInv
<1>. QED
  BY <1>1, <1>2 DEF IInv, AtMostOnce, CursorCovers, InWindow

(* What a step does to the target and the cursor.                          *)
LEMMA RowsStep == IInv /\ [Next]_vars => AtMostOnce' /\ CursorCovers'
<1>. SUFFICES ASSUME IInv, [Next]_vars PROVE AtMostOnce' /\ CursorCovers'
  OBVIOUS
<1>. USE HourAssumption, RowsAssumption
<1>. USE DEF outside, storeVars, targetVars, cursorVars, IInv, AtMostOnce, CursorCovers
<1>1. CASE Tick
  BY <1>1 DEF Tick, InWindow
<1>2. ASSUME NEW r \in Rows, Arrive(r) PROVE AtMostOnce' /\ CursorCovers'
  BY <1>2 DEF Arrive, InWindow
<1>3. CASE NothingEligible
  BY <1>3 DEF NothingEligible, vars, InWindow
<1>4. CASE OpenWindow
  BY <1>4 DEF OpenWindow, WindowInv
<1>5. CASE ResumeWindow
  BY <1>5 DEF ResumeWindow, InWindow
<1>6. CASE NewPrefix
  BY <1>6 DEF NewPrefix, WindowInv
<1>7. CASE ProbeEmpty
  <2>1. /\ pending.from = next /\ next < pending.to /\ pending.to \in Int /\ next \in Int
    BY <1>7 DEF ProbeEmpty, TypeOK, WindowInv, Windows
  <2>2. next' = pending.to
    BY <1>7 DEF ProbeEmpty, Complete
  <2>. QED
    BY <1>7, <2>1, <2>2, RowsAssumption DEF ProbeEmpty, InWindow
<1>8. CASE ProbeRows
  BY <1>8 DEF ProbeRows, InWindow
<1>9. CASE Export
  BY <1>9 DEF Export, Exported, InWindow
<1>10. CASE ListBackup
  BY <1>10 DEF ListBackup, WindowInv
<1>11. CASE Refuse
  BY <1>11 DEF Refuse, InWindow
<1>12. CASE MarkStarted
  <2>1. pending'.from = pending.from /\ pending'.to = pending.to
    BY <1>12 DEF MarkStarted, TypeOK, Windows
  <2>. QED
    BY <1>12, <2>1 DEF MarkStarted, Trusted, InWindow
<1>13. CASE Load
  <2>1. PICK f \in Files : /\ Stored(pending.prefix) = {f}
                          /\ \A r \in f.rows : InWindow(pending, r)
    BY <1>13 DEF Load, WindowInv, BackupInv, OneFile
  <2>. QED
    BY <1>13, <2>1, InsertStep DEF Load, LoadInv, WindowInv
<1>14. CASE Finish
  <2>1. /\ pending.from = next /\ next < pending.to /\ pending.to \in Int /\ next \in Int
    BY <1>14 DEF Finish, TypeOK, WindowInv, Windows
  <2>2. next' = pending.to
    BY <1>14 DEF Finish, Complete
  <2>. QED
    BY <1>14, <2>1, <2>2, RowsAssumption DEF Finish, InWindow
<1>15. CASE Fail
  BY <1>15 DEF Fail, GiveUp, InWindow
<1>16. CASE ExportAbandoned
  BY <1>16 DEF ExportAbandoned, GiveUp, Exported, InWindow
<1>17. CASE LoadAbandoned
  BY <1>17 DEF LoadAbandoned, GiveUp, InWindow
<1>18. CASE StaleExportWrites
  BY <1>18 DEF StaleExportWrites, InWindow
<1>19. CASE LateLoadCommits
  <2>1. PICK f \in Files : late = {f} /\ \A r \in f.rows : InWindow(pending, r)
    BY <1>19 DEF LateLoadCommits, LoadInv, OneFile
  <2>. QED
    BY <1>19, <2>1, InsertStep DEF LateLoadCommits, LoadInv
<1>20. CASE UNCHANGED vars
  BY <1>20 DEF vars, InWindow
<1>. QED
  BY <1>1, <1>2, <1>3, <1>4, <1>5, <1>6, <1>7, <1>8, <1>9, <1>10, <1>11, <1>12, <1>13, <1>14, <1>15, <1>16, <1>17, <1>18, <1>19, <1>20
     DEF Next, Window, Faults

-----------------------------------------------------------------------------
(***************************************************************************)
(* No row is lost in steady zones: what the cursor passes is settled, the  *)
(* backup of a settled window has all rows that came in time, and the      *)
(* import of that backup brings them.                                      *)
(***************************************************************************)
Settled(l) == \A h \in Hours : zone.local[h] < l => h + 2 <= clock

SettledInv == Settled(next) /\ (pending.open => Settled(pending.to))

InTimeRows == {r \in inTime : InWindow(pending, r)}

Held(fs) == \A r \in InTimeRows : \E f \in fs : r \in f.rows

HeldInv == /\ pc = "list" => Held(Stored(pending.prefix))
           /\ pending.ready => Held(pending.objects)
           /\ pc = "finish" => \A r \in InTimeRows : target[r] >= 1

Kept == \A r \in inTime : HourOf[r] < next => target[r] >= 1

LostInv == SettledInv /\ HeldInv /\ Kept

LEMMA LostInit ==
  ASSUME \A z \in Zones : Steady(z), Init
  PROVE  LostInv
<1>. USE HourAssumption, ZonesAssumption DEF Init, NoWindow
<1>1. SettledInv
  <2>1. 0 \in Hours /\ \A h \in Hours : 0 <= h
    BY DEF Hours
  <2>2. ASSUME NEW h \in Hours PROVE ~(zone.local[h] < zone.local[0])
    BY <2>1 DEF Steady
  <2>. QED
    BY <2>2 DEF SettledInv, Settled
<1>2. HeldInv /\ Kept
  BY DEF HeldInv, Kept
<1>. QED
  BY <1>1, <1>2 DEF LostInv

(* A window that is eligible is settled.                                   *)
LEMMA WindowSettled ==
  ASSUME TypeOK, Steady(zone), Eligible
  PROVE  Settled(WindowEnd)
<1>. DEFINE start == Resolve(next)
<1>. USE ZonesAssumption, HourAssumption
<1>1. PICK h \in Hours : zone.local[h] = next /\ start = zone.read[h]
  BY DEF Eligible, Showing, Resolve
<1>2. PICK k \in Hours : /\ zone.local[k] = zone.local[clock]
                         /\ Resolve(zone.local[clock]) = zone.read[k]
  <2>1. clock \in Showing(zone.local[clock])
    BY DEF Showing, TypeOK
  <2>. QED
    BY <2>1 DEF Resolve, Showing
<1>3. zone.read[k] = zone.read[clock] /\ zone.read[clock] <= clock
  BY <1>2 DEF TypeOK, Steady
<1>4. start \in Hours /\ Resolve(zone.local[clock]) \in Hours
  BY <1>1, <1>2 DEF TypeOK
<1>5. start + 2 <= clock /\ start + 1 \in Hours
  <2>1. start + 1 <= Cutoff
    BY DEF Eligible
  <2>2. Cutoff = zone.read[k] - 1 /\ zone.read[k] \in Hours
    BY <1>2, <1>4 DEF Cutoff
  <2>3. clock \in Hours /\ Hours = 0..MaxHour
    BY DEF TypeOK, Hours
  <2>. QED
    BY <1>3, <1>4, <2>1, <2>2, <2>3
<1>6. ASSUME NEW j \in Hours, zone.local[j] < zone.local[start + 1]
      PROVE  j + 2 <= clock
  <2>1. ~(start + 1 <= j)
    BY <1>5, <1>6 DEF Steady, TypeOK
  <2>. QED
    BY <1>4, <1>5, <2>1 DEF Hours, TypeOK
<1>. QED
  BY <1>6 DEF Settled, WindowEnd

(* Hours settled stay so.                                                  *)
LEMMA SettledStays ==
  ASSUME TypeOK, UNCHANGED zone, clock' \in {clock, clock + 1}, NEW l, Settled(l)
  PROVE  \A h \in Hours : zone'.local[h] < l => h + 2 <= clock'
BY DEF Settled, TypeOK, Hours

LEMMA SettledStep ==
  ASSUME IInv, Steady(zone), SettledInv, [Next]_vars
  PROVE  SettledInv'
<1>1. UNCHANGED zone /\ clock' \in {clock, clock + 1}
  BY DEF Next, Tick, Arrive, Window, Faults, NothingEligible, OpenWindow, ResumeWindow, NewPrefix,
         ProbeEmpty, ProbeRows, Export, ListBackup, Refuse, MarkStarted, Load, Finish, Fail,
         ExportAbandoned, LoadAbandoned, StaleExportWrites, LateLoadCommits, outside, vars
<1>2. ASSUME NEW l, Settled(l) PROVE \A h \in Hours : zone'.local[h] < l => h + 2 <= clock'
  BY <1>1, <1>2, SettledStays DEF IInv
<1>3. CASE next' = next /\ (pending'.open => pending.open /\ pending'.to = pending.to)
  <2>1. Settled(next) /\ (pending'.open => Settled(pending'.to))
    BY <1>3 DEF SettledInv
  <2>. QED
    BY <1>2, <1>3, <2>1 DEF SettledInv, Settled
<1>4. CASE OpenWindow
  <2>1. next' = next /\ pending'.to = WindowEnd /\ Settled(WindowEnd)
    BY <1>4, WindowSettled DEF OpenWindow, NoWindow, IInv
  <2>. QED
    BY <1>2, <2>1 DEF SettledInv, Settled
<1>5. CASE next' = pending.to /\ pending.open /\ ~pending'.open
  BY <1>2, <1>5 DEF SettledInv, Settled
<1>. USE DEF outside, storeVars, targetVars, cursorVars
<1>6. CASE ProbeEmpty \/ Finish
  <2>1. next' = pending.to /\ pending.open /\ ~pending'.open
    BY <1>6 DEF ProbeEmpty, Finish, Complete, NoWindow, IInv, TypeOK
  <2>. QED
    BY <1>5, <2>1
<1>7. CASE NewPrefix \/ ListBackup \/ MarkStarted
  <2>1. next' = next /\ pending'.open = pending.open /\ pending'.to = pending.to
    BY <1>7 DEF NewPrefix, ListBackup, MarkStarted, IInv, TypeOK, Windows
  <2>. QED
    BY <1>3, <2>1
<1>8. CASE UNCHANGED <<next, pending>>
  BY <1>3, <1>8
<1>9. \/ OpenWindow \/ ProbeEmpty \/ Finish \/ NewPrefix \/ ListBackup \/ MarkStarted
      \/ UNCHANGED <<next, pending>>
  BY DEF Next, Tick, Arrive, Window, Faults, NothingEligible, ResumeWindow, ProbeRows, Export,
         Refuse, Load, Fail, ExportAbandoned, LoadAbandoned, StaleExportWrites, LateLoadCommits, vars
<1>. QED
  BY <1>4, <1>6, <1>7, <1>8, <1>9

(* A row that arrives in time is not of a settled hour.                    *)
LEMMA ArrivesAhead ==
  ASSUME TypeOK, NEW l \in Int, Settled(l), NEW r \in Rows, Arrive(r), HourOf[r] < l
  PROVE  inTime' = inTime
<1>1. ASSUME NEW h \in Showing(HourOf[r]) PROVE ~(clock < h + 2)
  BY <1>1 DEF Showing, Settled, TypeOK, Hours
<1>. QED
  BY <1>1 DEF Arrive

(* An import takes nothing away.                                           *)
LEMMA InsertKeeps ==
  ASSUME TypeOK, NEW f \in Files, target' = Inserted({f}), NEW r \in Rows
  PROVE  target[r] >= 1 \/ r \in f.rows => target'[r] >= 1
<1>1. target[r] \in Nat
  BY DEF TypeOK
<1>2. target'[r] = target[r] + (IF r \in f.rows THEN 1 ELSE 0)
  BY InsertOne
<1>. QED
  BY <1>1, <1>2

(* The backup of a window holds its rows and an import brings them.         *)
LEMMA HeldStep ==
  ASSUME IInv, LostInv, [Next]_vars
  PROVE  HeldInv'
<1>. USE HourAssumption, RowsAssumption
<1>. USE DEF outside, storeVars, targetVars, cursorVars, LostInv, HeldInv, InTimeRows, Held
<1>0. TypeOK
  BY DEF IInv
<1>1. CASE Tick
  BY <1>1 DEF Tick, Stored, InWindow
<1>2. ASSUME NEW r \in Rows, Arrive(r) PROVE HeldInv'
  <2>1. CASE inTime' = inTime
    BY <1>2, <2>1 DEF Arrive, Stored, InWindow
  <2>2. CASE inTime' # inTime /\ pending.open
    <3>1. pending.to \in Int /\ Settled(pending.to)
      BY <1>0, <2>2 DEF TypeOK, Windows, SettledInv
    <3>2. ~InWindow(pending, r)
      BY <1>0, <1>2, <2>2, <3>1, ArrivesAhead DEF InWindow
    <3>3. inTime' = inTime \cup {r} /\ UNCHANGED <<pending, pc, files, target>>
      BY <1>2, <2>2 DEF Arrive
    <3>4. InTimeRows' = InTimeRows
      BY <3>2, <3>3 DEF InWindow
    <3>. QED
      BY <3>3, <3>4 DEF Stored
  <2>3. CASE ~pending.open
    BY <1>0, <1>2, <2>3 DEF Arrive, IInv, TypeOK, WindowInv
  <2>. QED
    BY <2>1, <2>2, <2>3
<1>3. CASE NothingEligible \/ UNCHANGED vars
  BY <1>3 DEF NothingEligible, vars, Stored, InWindow
<1>4. CASE OpenWindow
  BY <1>4 DEF OpenWindow, NoWindow
<1>5. CASE ResumeWindow
  BY <1>5 DEF ResumeWindow, InWindow
<1>6. CASE NewPrefix
  <2>1. ~pending'.ready
    BY <1>6 DEF NewPrefix, IInv, TypeOK, Windows, WindowInv
  <2>. QED
    BY <1>6, <2>1 DEF NewPrefix
<1>7. CASE ProbeEmpty \/ Finish
  BY <1>7 DEF ProbeEmpty, Finish, Complete, NoWindow
<1>8. CASE ProbeRows
  BY <1>8 DEF ProbeRows, InWindow
<1>9. CASE Export
  <2>1. Exported \in Stored(pending.prefix)'
    BY <1>0, <1>9, ExportedType DEF Export, Stored
  <2>2. \A r \in InTimeRows : r \in Exported.rows
    BY <1>0 DEF Exported, WindowRows, TypeOK
  <2>3. UNCHANGED <<inTime, pending>> /\ pc' = "list" /\ ~pending.ready
    BY <1>9 DEF Export, IInv, WindowInv
  <2>4. InTimeRows' = InTimeRows
    BY <2>3 DEF InWindow
  <2>. QED
    BY <2>1, <2>2, <2>3, <2>4
<1>10. CASE ListBackup
  <2>1. /\ pending'.from = pending.from /\ pending'.to = pending.to
        /\ pending'.objects = Stored(pending.prefix)
    BY <1>10 DEF ListBackup, IInv, TypeOK, Windows
  <2>2. InTimeRows' = InTimeRows
    BY <1>10, <2>1 DEF ListBackup, InWindow
  <2>. QED
    BY <1>10, <2>1, <2>2 DEF ListBackup
<1>11. CASE Refuse
  BY <1>11 DEF Refuse, InWindow
<1>12. CASE MarkStarted
  <2>1. /\ pending'.from = pending.from /\ pending'.to = pending.to
        /\ pending'.objects = pending.objects /\ pending'.ready = pending.ready
    BY <1>12 DEF MarkStarted, IInv, TypeOK, Windows
  <2>2. InTimeRows' = InTimeRows
    BY <1>12, <2>1 DEF MarkStarted, InWindow
  <2>. QED
    BY <1>12, <2>1, <2>2 DEF MarkStarted
<1>13. CASE Load
  <2>1. PICK f \in Files : Stored(pending.prefix) = {f} /\ pending.objects = {f}
    BY <1>13 DEF Load, IInv, WindowInv, BackupInv, OneFile
  <2>2. UNCHANGED <<inTime, pending>> /\ pc' = "finish" /\ target' = Inserted({f})
    BY <1>13, <2>1 DEF Load
  <2>3. InTimeRows' = InTimeRows
    BY <2>2 DEF InWindow
  <2>4. \A r \in InTimeRows : r \in f.rows /\ r \in Rows
    BY <1>0, <1>13, <2>1 DEF Load, IInv, WindowInv, TypeOK
  <2>5. \A r \in InTimeRows : target'[r] >= 1
    BY <1>0, <2>2, <2>4, InsertKeeps
  <2>. QED
    BY <2>2, <2>3, <2>5
<1>14. CASE Fail \/ ExportAbandoned \/ LoadAbandoned
  BY <1>14 DEF Fail, ExportAbandoned, LoadAbandoned, GiveUp, InWindow
<1>15. CASE StaleExportWrites
  BY <1>15 DEF StaleExportWrites, Stored, InWindow
<1>16. CASE LateLoadCommits
  <2>1. pc # "finish" /\ UNCHANGED <<inTime, pending, pc, files>>
    BY <1>16 DEF LateLoadCommits, IInv, LoadInv
  <2>. QED
    BY <2>1 DEF Stored, InWindow
<1>. QED
  BY <1>1, <1>2, <1>3, <1>4, <1>5, <1>6, <1>7, <1>8, <1>9, <1>10, <1>11, <1>12, <1>13, <1>14,
     <1>15, <1>16 DEF Next, Window, Faults

(* The cursor passes a window whose rows are in the target.                *)
LEMMA KeptStep ==
  ASSUME IInv, LostInv, [Next]_vars
  PROVE  Kept'
<1>. USE RowsAssumption
<1>. USE DEF outside, storeVars, targetVars, cursorVars, LostInv, Kept
<1>0. TypeOK
  BY DEF IInv
<1>1. CASE UNCHANGED <<inTime, next, target>>
  BY <1>1
<1>2. ASSUME NEW r \in Rows, Arrive(r) PROVE Kept'
  <2>1. HourOf[r] < next => inTime' = inTime
    BY <1>0, <1>2, ArrivesAhead DEF SettledInv, TypeOK
  <2>2. inTime' \subseteq inTime \cup {r} /\ UNCHANGED <<next, target>>
    BY <1>2 DEF Arrive
  <2>. QED
    BY <2>1, <2>2
<1>3. CASE ProbeEmpty \/ Finish
  <2>1. /\ next' = pending.to /\ pending.from = next /\ UNCHANGED <<inTime, target>>
        /\ next \in Int /\ pending.to \in Int
    BY <1>3 DEF ProbeEmpty, Finish, Complete, IInv, TypeOK, WindowInv, Windows
  <2>2. \A r \in InTimeRows : target[r] >= 1
    BY <1>0, <1>3 DEF ProbeEmpty, Finish, HeldInv, InTimeRows, WindowRows, TypeOK
  <2>3. ASSUME NEW r \in inTime, HourOf[r] < pending.to, ~(HourOf[r] < next)
        PROVE  r \in InTimeRows
    BY <1>0, <2>1, <2>3 DEF InTimeRows, InWindow, TypeOK
  <2>. QED
    BY <2>1, <2>2, <2>3
<1>4. ASSUME NEW f \in Files, target' = Inserted({f}), UNCHANGED <<inTime, next>>
      PROVE  Kept'
  <2>1. ASSUME NEW r \in inTime, target[r] >= 1 PROVE target'[r] >= 1
    <3>1. r \in Rows
      BY <1>0 DEF TypeOK
    <3>. QED
      BY <1>0, <1>4, <2>1, <3>1, InsertKeeps
  <2>. QED
    BY <1>4, <2>1
<1>5. CASE Load
  <2>1. PICK f \in Files : Stored(pending.prefix) = {f}
    BY <1>5 DEF Load, IInv, WindowInv, BackupInv, OneFile
  <2>. QED
    BY <1>4, <1>5, <2>1 DEF Load
<1>6. CASE LateLoadCommits
  <2>1. PICK f \in Files : late = {f}
    BY <1>6 DEF LateLoadCommits, IInv, LoadInv, OneFile
  <2>. QED
    BY <1>4, <1>6, <2>1 DEF LateLoadCommits
<1>7. \/ \E r \in Rows : Arrive(r)
      \/ ProbeEmpty \/ Finish \/ Load \/ LateLoadCommits
      \/ UNCHANGED <<inTime, next, target>>
  BY DEF Next, Tick, Window, Faults, NothingEligible, OpenWindow, ResumeWindow, NewPrefix, ProbeRows,
         Export, ListBackup, Refuse, MarkStarted, Fail, ExportAbandoned, LoadAbandoned,
         StaleExportWrites, vars
<1>. QED
  BY <1>1, <1>2, <1>3, <1>5, <1>6, <1>7

-----------------------------------------------------------------------------
LEMMA Inductive == IInv /\ [Next]_vars => IInv'
BY TypeStep, PrefixStep, BackupStep, WindowStep, LoadStep, RowsStep DEF IInv

LEMMA Invariance == Spec => []IInv
BY InitInv, Inductive, PTL DEF Spec

(* Every variable keeps its type, and a step is taken on an open window    *)
(* only (syncHourlyTable, syncHourlyWindow).                               *)
THEOREM TypeCorrect == Spec => []TypeOK
<1>1. IInv => TypeOK
  BY DEF IInv
<1>. QED
  BY <1>1, Invariance, PTL

(* No row is appended twice, for any zone, any rows and any number of      *)
(* errors, crashes and late statements (hourly.go, syncHourlyWindow).      *)
THEOREM NoDuplicates == Spec => []AtMostOnce
<1>1. IInv => AtMostOnce
  BY DEF IInv
<1>. QED
  BY <1>1, Invariance, PTL

(* Only the pending window, once its import started, has rows in the       *)
(* target that the cursor is not past (hourly.go, finishHourly).           *)
THEOREM CursorCorrect == Spec => []CursorCovers
<1>1. IInv => CursorCovers
  BY DEF IInv
<1>. QED
  BY <1>1, Invariance, PTL

(* Where local time is steady, no row that was in the source in time is    *)
(* missing behind the cursor, whatever failed (syncHourlyTable and         *)
(* hourlyCutoff).                                                          *)
THEOREM NoneLost ==
  ASSUME \A z \in Zones : Steady(z)
  PROVE  Spec => []NoRowLost
<1>1. Init => LostInv
  BY LostInit
<1>2. IInv /\ LostInv /\ [Next]_vars => LostInv'
  <2>1. IInv => Steady(zone)
    BY DEF IInv, TypeOK
  <2>. QED
    BY <2>1, SettledStep, HeldStep, KeptStep DEF LostInv
<1>3. LostInv => NoRowLost
  BY DEF LostInv, Kept, NoRowLost
<1>. QED
  BY <1>1, <1>2, <1>3, Invariance, PTL DEF Spec

-----------------------------------------------------------------------------
(***************************************************************************)
(* Every step is one of HourlyCopy.  What is appended was exported from    *)
(* the source for the window at hand, by an INSERT that is late as well.   *)
(***************************************************************************)
CopyInv ==
  /\ \A f \in files \cup stale : f.rows \subseteq source
  /\ late # {} => late = pending.objects

LEMMA CopyInit == Init => CopyInv
BY DEF Init, CopyInv

LEMMA CopyStep ==
  ASSUME IInv, CopyInv, [Next]_vars
  PROVE  CopyInv'
<1>. USE DEF outside, storeVars, targetVars, cursorVars, CopyInv
<1>1. CASE UNCHANGED <<source, files, stale, late, pending>>
  BY <1>1
<1>2. ASSUME NEW r \in Rows, Arrive(r) PROVE CopyInv'
  BY <1>2 DEF Arrive
<1>3. CASE OpenWindow \/ NewPrefix \/ ProbeEmpty \/ ListBackup \/ Finish
  <2>1. late = {}
    BY <1>3 DEF OpenWindow, NewPrefix, ProbeEmpty, ListBackup, Finish, IInv, TypeOK, WindowInv, LoadInv
  <2>2. UNCHANGED <<source, files, stale, late>>
    BY <1>3 DEF OpenWindow, NewPrefix, ProbeEmpty, ListBackup, Finish
  <2>. QED
    BY <2>1, <2>2
<1>4. CASE MarkStarted
  <2>1. pending'.objects = pending.objects /\ UNCHANGED <<source, files, stale, late>>
    BY <1>4 DEF MarkStarted, IInv, TypeOK, Windows
  <2>. QED
    BY <2>1
<1>5. CASE Export \/ ExportAbandoned
  <2>1. Exported.rows \subseteq source
    BY DEF Exported, WindowRows
  <2>2. /\ files' \cup stale' = (files \cup stale) \cup {Exported}
        /\ UNCHANGED <<source, late, pending>>
    BY <1>5 DEF Export, ExportAbandoned
  <2>. QED
    BY <2>1, <2>2
<1>6. CASE StaleExportWrites
  BY <1>6 DEF StaleExportWrites
<1>7. CASE LoadAbandoned
  BY <1>7 DEF LoadAbandoned, IInv, WindowInv, BackupInv
<1>8. CASE LateLoadCommits
  BY <1>8 DEF LateLoadCommits
<1>. QED
  BY <1>1, <1>2, <1>3, <1>4, <1>5, <1>6, <1>7, <1>8
  DEF Next, Tick, Window, Faults, NothingEligible, ResumeWindow, ProbeRows, Refuse, Load, Fail, vars

(* Steps HourlyCopy does not see.                                          *)
LEMMA Unseen ==
  ASSUME UNCHANGED <<source, inTime, target, next>>, Reach' = Reach, Phase' = Phase
  PROVE  UNCHANGED Promise!vars
BY DEF Promise!vars

LEMMA UnseenStep ==
  ASSUME IInv,
         \/ Tick \/ NothingEligible \/ OpenWindow \/ ResumeWindow \/ NewPrefix \/ ProbeRows
         \/ Export \/ ListBackup \/ Refuse \/ ExportAbandoned \/ StaleExportWrites
         \/ LoadAbandoned \/ UNCHANGED vars
  PROVE  UNCHANGED Promise!vars
<1>. USE DEF outside, storeVars, targetVars, cursorVars
<1>1. UNCHANGED <<source, inTime, target, next>>
  BY DEF Tick, NothingEligible, OpenWindow, ResumeWindow, NewPrefix, ProbeRows, Export, ListBackup,
     Refuse, ExportAbandoned, StaleExportWrites, LoadAbandoned, vars
<1>2. CASE UNCHANGED <<pending, pc, late>>
  BY <1>1, <1>2, Unseen DEF Phase, Reach
<1>3. CASE OpenWindow \/ NewPrefix \/ ListBackup \/ ProbeRows \/ Export \/ ExportAbandoned
  <2>1. ~pending.started /\ ~pending'.started
    BY <1>3 DEF OpenWindow, NewPrefix, ListBackup, ProbeRows, Export, ExportAbandoned, NoWindow, IInv,
       TypeOK, Windows, WindowInv
  <2>. QED
    BY <1>1, <2>1, Unseen DEF Phase, Reach
<1>4. CASE ResumeWindow \/ Refuse
  <2>1. /\ UNCHANGED <<pending, late>> /\ pc \notin {"load", "finish"}
        /\ pc' \notin {"load", "finish"}
    BY <1>4 DEF ResumeWindow, Refuse
  <2>2. Phase' = Phase /\ Reach' = Reach
    BY <1>1, <2>1 DEF Phase, Reach
  <2>. QED
    BY <1>1, <2>2, Unseen
<1>5. CASE LoadAbandoned
  <2>1. late' # {} /\ pending.started /\ pc = "load" /\ UNCHANGED pending
    BY <1>5 DEF LoadAbandoned, IInv, WindowInv, BackupInv, OneFile
  <2>2. Phase = "importing" /\ Phase' = "importing"
    <3>1. Phase = "importing"
      BY <2>1 DEF Phase
    <3>2. pending'.started /\ late' # {}
      BY <2>1
    <3>3. Phase' = "importing"
      BY <3>2 DEF Phase
    <3>. QED
      BY <3>1, <3>3
  <2>3. Reach' = Reach
    BY <1>1, <2>1 DEF Reach
  <2>. QED
    BY <1>1, <2>2, <2>3, Unseen
<1>. QED
  BY <1>2, <1>3, <1>4, <1>5 DEF Tick, NothingEligible, StaleExportWrites, vars

(* An INSERT of a window's backup, on time or late, is an append.          *)
LEMMA AppendStep ==
  ASSUME IInv, LostInv, CopyInv, Phase = "importing", pending.started,
         NEW f \in Files, pending.objects = {f}, target' = Inserted({f}),
         UNCHANGED <<source, inTime, next, pending>>, Phase' \in {"imported", "unknown"}
  PROVE  Promise!Next
<1>1. /\ pending.ready /\ pending.from = next /\ Reach = pending.to /\ Reach' = Reach
      /\ f \in files /\ \A r \in f.rows : InWindow(pending, r)
  BY DEF IInv, WindowInv, BackupInv, OneFile, Reach, Stored
<1>2. f.rows \subseteq source /\ f.rows \in SUBSET Rows
  BY <1>1 DEF CopyInv, Files
<1>3. Promise!In(inTime) \subseteq f.rows
  BY <1>1 DEF LostInv, HeldInv, Held, InTimeRows, InWindow, Promise!In
<1>4. f.rows \subseteq Promise!In(source)
  BY <1>1, <1>2 DEF InWindow, Promise!In
<1>5. target' = [r \in Rows |-> target[r] + (IF r \in f.rows THEN 1 ELSE 0)]
  <2>1. \A r \in Rows : Inserted({f})[r] = target[r] + (IF r \in f.rows THEN 1 ELSE 0)
    BY InsertOne DEF IInv
  <2>2. Inserted({f}) = [r \in Rows |-> Inserted({f})[r]]
    BY DEF Inserted
  <2>. QED
    BY <2>1, <2>2
<1>6. Promise!Append(f.rows)
  BY <1>1, <1>3, <1>4, <1>5 DEF Promise!Append
<1>. QED
  BY <1>2, <1>6 DEF Promise!Next

LEMMA StepImplements ==
  ASSUME IInv, LostInv, CopyInv, [Next]_vars
  PROVE  [Promise!Next]_(Promise!vars)
<1>. USE DEF outside, storeVars, targetVars, cursorVars
<1>1. TypeOK /\ next \in Int /\ pending.to \in Int
  BY DEF IInv, TypeOK, Windows
<1>2. ASSUME NEW r \in Rows, Arrive(r) PROVE Promise!Next
  <2>1. UNCHANGED <<target, next, pending, pc, late>> /\ r \notin source
        /\ source' = source \cup {r} /\ inTime' \in {inTime, inTime \cup {r}}
    BY <1>2 DEF Arrive
  <2>2. Reach' = Reach /\ Phase' = Phase
    BY <2>1 DEF Reach, Phase
  <2>3. Reach \in Int /\ Settled(Reach)
    BY <1>1 DEF Reach, LostInv, SettledInv, IInv, WindowInv
  <2>4. HourOf[r] >= Reach \/ inTime' = inTime
    BY <1>1, <1>2, <2>3, ArrivesAhead, RowsAssumption
  <2>5. Promise!Arrive(r)
    BY <2>1, <2>2, <2>4 DEF Promise!Arrive
  <2>. QED
    BY <2>5 DEF Promise!Next
<1>3. CASE ProbeEmpty
  <2>1. /\ ~pending.started /\ ~pending'.started /\ next' = pending.to /\ pending.from = next
        /\ next < pending.to /\ UNCHANGED <<source, inTime, target>>
    BY <1>3 DEF ProbeEmpty, Complete, NoWindow, IInv, TypeOK, WindowInv
  <2>2. \A r \in source : ~(next <= HourOf[r] /\ HourOf[r] < next')
    BY <1>3, <2>1 DEF ProbeEmpty, WindowRows, InWindow
  <2>3. Promise!PassEmpty
    BY <1>1, <2>1, <2>2 DEF Promise!PassEmpty, Phase, Reach
  <2>. QED
    BY <2>3 DEF Promise!Next
<1>4. CASE MarkStarted
  <2>1. /\ ~pending.started /\ pending'.started /\ pending'.to = pending.to /\ next < pending.to
        /\ pc' = "load" /\ UNCHANGED <<source, inTime, target, next>>
    BY <1>4 DEF MarkStarted, Trusted, IInv, TypeOK, Windows, WindowInv
  <2>2. Promise!Begin
    BY <1>1, <2>1 DEF Promise!Begin, Phase, Reach
  <2>. QED
    BY <2>2 DEF Promise!Next
<1>5. CASE Load
  <2>1. pending.started /\ pending.ready /\ pc = "load" /\ pc' = "finish" /\ late = {}
        /\ UNCHANGED <<source, inTime, next, pending, late>>
    BY <1>5 DEF Load, IInv, WindowInv, LoadInv
  <2>2. PICK f \in Files : Stored(pending.prefix) = {f} /\ pending.objects = {f}
    BY <2>1 DEF IInv, BackupInv, OneFile
  <2>3. Phase = "importing" /\ Phase' = "imported"
    BY <2>1 DEF Phase
  <2>4. target' = Inserted({f})
    BY <1>5, <2>2 DEF Load
  <2>. QED
    BY <2>1, <2>2, <2>3, <2>4, AppendStep
<1>6. CASE LateLoadCommits
  <2>1. /\ pending.started /\ pending.ready /\ pc \in {"idle", "verify"} /\ late # {}
        /\ late' = {} /\ UNCHANGED <<source, inTime, next, pending, pc>>
    BY <1>6 DEF LateLoadCommits, IInv, WindowInv, LoadInv
  <2>2. PICK f \in Files : late = {f} /\ pending.objects = {f}
    BY <2>1 DEF IInv, LoadInv, OneFile, CopyInv
  <2>3. Phase = "importing" /\ Phase' = "unknown"
    BY <2>1 DEF Phase
  <2>4. target' = Inserted({f})
    BY <1>6, <2>2 DEF LateLoadCommits
  <2>. QED
    BY <2>1, <2>2, <2>3, <2>4, AppendStep
<1>7. CASE Finish
  <2>1. /\ pending.started /\ pc = "finish" /\ late = {} /\ ~pending'.started
        /\ next' = pending.to /\ UNCHANGED <<source, inTime, target>>
    BY <1>7 DEF Finish, Complete, NoWindow, IInv, WindowInv, LoadInv
  <2>2. Promise!Pass
    BY <2>1 DEF Promise!Pass, Phase, Reach
  <2>. QED
    BY <2>2 DEF Promise!Next
<1>8. CASE Fail
  <2>1. pc' = "idle" /\ UNCHANGED <<source, inTime, target, next, pending, late>>
    BY <1>8 DEF Fail, GiveUp
  <2>2. Reach' = Reach
    BY <2>1 DEF Reach
  <2>3. CASE pc \in {"load", "finish"}
    <3>1. pending.started /\ late = {}
      BY <2>3 DEF IInv, WindowInv, LoadInv
    <3>2. Phase \in {"importing", "imported"} /\ Phase' = "unknown"
      BY <2>1, <2>3, <3>1 DEF Phase
    <3>3. Promise!LoseTrack
      BY <2>1, <2>2, <3>2 DEF Promise!LoseTrack
    <3>. QED
      BY <3>3 DEF Promise!Next
  <2>4. CASE pc \notin {"load", "finish"}
    <3>1. Phase' = Phase
      BY <2>1, <2>4 DEF Phase
    <3>. QED
      BY <2>1, <2>2, <3>1, Unseen
  <2>. QED
    BY <2>3, <2>4
<1>. QED
  BY <1>2, <1>3, <1>4, <1>5, <1>6, <1>7, <1>8, UnseenStep DEF Next, Window, Faults

(* Where local time is steady, hourly-window mode implements HourlyCopy:   *)
(* each window is appended once or waits for an operator, in order and     *)
(* whole (syncHourlyTable, syncHourlyWindow, finishHourly).                *)
THEOREM CopyCorrect ==
  ASSUME \A z \in Zones : Steady(z)
  PROVE  Spec => ImplementsCopy
<1>1. Init => LostInv /\ CopyInv
  BY LostInit, CopyInit
<1>2. IInv /\ LostInv /\ CopyInv /\ [Next]_vars => LostInv' /\ CopyInv'
  <2>1. IInv => Steady(zone)
    BY DEF IInv, TypeOK
  <2>. QED
    BY <2>1, SettledStep, HeldStep, KeptStep, CopyStep DEF LostInv
<1>3. Init => Promise!Init
  <2>1. Init => next \in Int
    BY InitInv DEF IInv, TypeOK
  <2>. QED
    BY <2>1 DEF Init, Promise!Init, NoWindow, Reach, Phase
<1>4. IInv /\ LostInv /\ CopyInv /\ [Next]_vars => [Promise!Next]_(Promise!vars)
  BY StepImplements
<1>. QED
  BY <1>1, <1>2, <1>3, <1>4, Invariance, PTL DEF Spec, ImplementsCopy, Promise!Spec
=============================================================================
