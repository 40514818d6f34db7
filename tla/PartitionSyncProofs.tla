------------------------ MODULE PartitionSyncProofs ------------------------
(***************************************************************************)
(* Proofs about PartitionSync, for every set of generations, every set of  *)
(* options and every bound.                                                *)
(***************************************************************************)
EXTENDS PartitionSync, TLAPS

(***************************************************************************)
(* The inductive invariant.  Identities a caller, the row or a statement   *)
(* refers to were all shown by the source before.                          *)
(***************************************************************************)
Past == 0..ident

PastInv ==
  /\ empties \subseteq 1..ident
  /\ part \in Past
  /\ shown \in Past
  /\ entry.backup \in Past
  /\ entry.imported \in Past
  /\ \A c \in Callers : seen[c] \in Past
  /\ \A l \in lateLoads : l.id \in 1..ident /\ l.rows = RowsOf(l.id)

(* From the new generation to the end of the export no backup is ready,    *)
(* the prefix is ours alone, and what is stored there is what the source   *)
(* showed at some moment since the call began.                             *)
Snapshot(rows) == \E j \in part..ident : rows = RowsOf(j)

BackupInv ==
  /\ pc \in {"clear", "export", "listBackup", "probe", "confirmBackup"} =>
       /\ ~entry.ready
       /\ ~entry.inProgress
       /\ entry.prefix \in Gens
       /\ \A e \in staleExports : e.gen # entry.prefix
  /\ pc = "export" => store[entry.prefix] = {}
  /\ pc \in {"listBackup", "probe", "confirmBackup"} => Snapshot(store[entry.prefix])
  /\ pc \in {"probe", "confirmBackup"} => listed = store[entry.prefix]

ReadyInv == entry.ready => entry.prefix \in Gens

(* From there on the ready backup is one of the identity at hand, and from *)
(* the last check of the source on, that is no older than the one imported *)
(* and the one shown, or any that a late load may still bring.             *)
ImportSteps == {"matchTarget", "load", "confirmTarget", "finish"}

VerifiedInv ==
  /\ pc \in {"verifyObjects", "verifySource"} \cup ImportSteps =>
       entry.ready /\ entry.backup = part
  /\ pc \in ImportSteps => /\ part >= entry.imported /\ part >= shown
                            /\ \A l \in lateLoads : part >= l.id
  /\ pc \in {"load", "confirmTarget", "finish"} => entry.inProgress
  /\ pc = "checkTarget" => entry.ready

(* Unless a late load has overtaken it, the target is missing or shows the *)
(* identity of the last load, and no other than the one imported if the    *)
(* source still has that one.                                              *)
Shows(i) == target \in {<<>>, <<RowsOf(i)>>}

TargetInv ==
  ~overtaken =>
    /\ pc = "load" /\ ~matched => target = <<>>
    /\ pc \in {"confirmTarget", "finish"} => Shows(part)
    /\ entry.imported = ident => Shows(ident)
    /\ shown > 0 => Shows(shown)
    /\ shown = 0 => target \in {<<>>, <<{}>>, <<{0}>>}

KindInv ==
  /\ ~opts.lateLoads => lateLoads = {} /\ ~overtaken
  /\ ~opts.auto => /\ \A l \in lateLoads : l.kind = "partition"
                   /\ pc = "load" => matched

(* While a backup is made the row names its identity as the source's, and  *)
(* what is reported as imported, its backup ready, is what is shown.       *)
SourceInv ==
  pc \in {"clear", "export", "listBackup", "probe", "confirmBackup"} => entry.source = part

MonitorInv ==
  /\ ~overtaken
  /\ entry.ready
  /\ entry.imported # 0
  /\ entry.imported = entry.source
  /\ ~entry.inProgress
  => Shows(entry.imported)

IInv == TypeOK /\ PastInv /\ BackupInv /\ ReadyInv /\ BackupSound /\ VerifiedInv
               /\ TargetInv /\ KindInv /\ TargetWhole /\ SourceInv /\ MonitorInv

-----------------------------------------------------------------------------
(***************************************************************************)
(* The initial states.                                                     *)
(***************************************************************************)
LEMMA InitType == Init => TypeOK
<1>. SUFFICES ASSUME Init PROVE TypeOK
  OBVIOUS
<1>. USE BoundAssumption DEF Init
<1>1. /\ opts \in Options /\ ident \in Identity /\ empties \subseteq Identity
      /\ store \in [Gens -> Rows]
  BY DEF Identity, Rows
<1>2. staleExports \subseteq StaleExports /\ lateLoads \subseteq LateLoads
  OBVIOUS
<1>3. target \in Seq(Rows) /\ stray \in Seq(Rows)
  <2>1. {} \in Rows /\ {0} \in Rows
    BY DEF Rows
  <2>2. <<>> \in Seq(Rows) /\ <<{}>> \in Seq(Rows) /\ <<{0}>> \in Seq(Rows)
    BY <2>1
  <2>. QED
    BY <2>2
<1>4. entry \in Entries
  BY DEF Entries, NoEntry, Rows
<1>5. /\ pc \in Steps
      /\ part \in IF pc = "idle" THEN {0} ELSE Identity
  BY DEF Steps
<1>6. listed \in Rows /\ matched \in BOOLEAN
  BY DEF Rows
<1>7. seen \in [Callers -> 0..MaxVersion]
  OBVIOUS
<1>8. shown \in 0..MaxVersion /\ faults \in 0..MaxFaults
  OBVIOUS
<1>. QED
  BY <1>1, <1>2, <1>3, <1>4, <1>5, <1>6, <1>7, <1>8 DEF TypeOK

LEMMA InitInv == Init => IInv
<1>. SUFFICES ASSUME Init PROVE IInv
  OBVIOUS
<1>1. TypeOK
  BY InitType
<1>2. PastInv
  BY DEF Init, PastInv, Past, NoEntry, Callers
<1>3. BackupInv /\ ReadyInv /\ BackupSound /\ VerifiedInv
  BY DEF Init, BackupInv, ReadyInv, BackupSound, VerifiedInv, NoEntry, ImportSteps
<1>4. TargetInv /\ KindInv /\ TargetWhole
  BY DEF Init, TargetInv, KindInv, TargetWhole, NoEntry, ImportSteps
<1>5. SourceInv /\ MonitorInv
  BY DEF Init, SourceInv, MonitorInv, NoEntry
<1>. QED
  BY <1>1, <1>2, <1>3, <1>4, <1>5 DEF IInv

-----------------------------------------------------------------------------
(***************************************************************************)
(* Type correctness.                                                       *)
(***************************************************************************)
PrefixKnown ==
  /\ pc \in {"export", "listBackup"} => entry.prefix \in Gens
  /\ pc = "load" => entry.prefix \in Gens

LEMMA PrefixIsKnown == IInv => TypeOK /\ PrefixKnown
BY DEF IInv, PrefixKnown, BackupInv, VerifiedInv, ReadyInv, ImportSteps

LEMMA TypeStep == IInv /\ [Next]_vars => TypeOK'
<1>. SUFFICES ASSUME TypeOK, PrefixKnown, [Next]_vars PROVE TypeOK'
  BY PrefixIsKnown
<1>. USE BoundAssumption DEF TypeOK, sourceVars, storeVars, targetVars, callVars
<1>1. CASE SourceChange
  BY <1>1 DEF SourceChange, Identity
<1>2. CASE TargetDropped
  <2>1. overtaken' \in BOOLEAN
    BY <1>2, Zenon DEF TargetDropped
  <2>2. target' \in Seq(Rows) /\ faults' \in 0..MaxFaults
    BY <1>2 DEF TargetDropped
  <2>. QED
    BY <1>2, <2>1, <2>2 DEF TargetDropped
<1>3. CASE StaleExportWrites
  BY <1>3 DEF StaleExportWrites, StaleExports, Rows
<1>4. CASE LateLoadCommits
  <2>. PICK l \in lateLoads : LateLoadCommits!(l)
    BY <1>4 DEF LateLoadCommits
  <2>1. l.rows \in Rows /\ l.id \in 0..MaxVersion
    BY DEF LateLoads, Identity
  <2>2. target' \in Seq(Rows) /\ stray' \in Seq(Rows) /\ shown' \in 0..MaxVersion
    <3>1. Append(target, l.rows) \in Seq(Rows) /\ Append(stray, l.rows) \in Seq(Rows)
          /\ <<l.rows>> \in Seq(Rows)
      BY <2>1
    <3>. QED
      BY <2>1, <3>1 DEF LoadEffect
  <2>. QED
    BY <2>2
<1>5. CASE ListTable
  BY <1>5 DEF ListTable, Identity, Callers
<1>6. CASE RefreshListed
  BY <1>6 DEF RefreshListed, Identity, Callers
<1>7. CASE ScanPicks
  BY <1>7 DEF ScanPicks, Identity, Callers
<1>8. ASSUME NEW c \in Callers, SkipEmpty(c) PROVE TypeOK'
  BY <1>8 DEF SkipEmpty, Called, Callers
<1>9. ASSUME NEW c \in Callers, Start(c) PROVE TypeOK'
  BY <1>9 DEF Start, Called, Callers, BackupOrVerify, Steps, Identity
<1>10. CASE SkipUnchanged
  BY <1>10 DEF SkipUnchanged, Return, Steps, Rows
<1>11. CASE ForgetImport
  <2>1. entry' \in Entries
    <3>1. ASSUME NEW i \in 0..MaxVersion PROVE [entry EXCEPT !.imported = i] \in Entries
      BY DEF Entries
    <3>. QED
      BY <1>11, <3>1 DEF ForgetImport
  <2>. QED
    BY <1>11, <2>1 DEF ForgetImport, BackupOrVerify, Steps
<1>12. CASE NewGeneration
  <2>1. part \in 0..MaxVersion /\ {} \in Rows
    BY <1>12 DEF NewGeneration, Identity, Rows
  <2>2. ASSUME NEW g \in Gens, NEW i \in 0..MaxVersion, NEW o \in Rows
        PROVE  [entry EXCEPT !.source = part, !.ready = FALSE, !.backup = i, !.prefix = g,
                             !.objects = o, !.inProgress = FALSE] \in Entries
    BY <2>1 DEF Entries
  <2>3. entry' \in Entries /\ store' \in [Gens -> Rows]
    <3>1. PICK g \in Gens : entry' = [entry EXCEPT !.source = part, !.ready = FALSE,
               !.backup = 0, !.prefix = g, !.objects = {}, !.inProgress = FALSE]
               /\ store' = [store EXCEPT ![g] = {}]
      BY <1>12 DEF NewGeneration
    <3>2. 0 \in 0..MaxVersion
      OBVIOUS
    <3>3. entry' \in Entries
      BY <2>1, <2>2, <3>1, <3>2
    <3>. QED
      BY <2>1, <3>1, <3>3
  <2>. QED
    BY <1>12, <2>3 DEF NewGeneration, Steps
<1>13. CASE Clear
  BY <1>13 DEF Clear, Rows, Steps
<1>14. CASE Export
  <2>1. RowsOf(ident) \in Rows
    BY DEF RowsOf, Rows, Identity
  <2>2. store' \in [Gens -> Rows]
    BY <1>14, <2>1 DEF Export, Rows
  <2>. QED
    BY <1>14, <2>2 DEF Export, Steps
<1>15. CASE ListBackup
  <2>1. listed' \in Rows
    BY <1>15 DEF ListBackup, PrefixKnown
  <2>. QED
    BY <1>15, <2>1 DEF ListBackup, Steps
<1>16. CASE Probe
  BY <1>16 DEF Probe, Return, Steps, Rows
<1>17. CASE ConfirmBackup
  <2>1. entry' \in Entries
    <3>1. part \in 0..MaxVersion
      BY <1>17 DEF ConfirmBackup, Identity
    <3>2. [entry EXCEPT !.backup = part, !.objects = listed, !.ready = TRUE] \in Entries
      BY <3>1 DEF Entries
    <3>. QED
      BY <1>17, <3>2 DEF ConfirmBackup
  <2>2. {} \in Rows
    BY DEF Rows
  <2>. QED
    BY <1>17, <2>1, <2>2 DEF ConfirmBackup, Return, Steps
<1>18. CASE VerifyObjects
  BY <1>18 DEF VerifyObjects, Return, Steps, Rows
<1>19. CASE VerifySource
  BY <1>19 DEF VerifySource, Return, Steps, Rows
<1>20. CASE MatchTarget
  BY <1>20 DEF MatchTarget, Entries, Return, Steps, Rows
<1>21. CASE SkipLoad
  BY <1>21 DEF SkipLoad, Steps
<1>22. CASE Load
  <2>1. LoadRows \in Rows
    BY <1>22 DEF Loads, Load, LoadRows, PrefixKnown, Rows
  <2>2. part \in 0..MaxVersion
    BY DEF Identity
  <2>3. target' \in Seq(Rows) /\ stray' \in Seq(Rows) /\ shown' \in 0..MaxVersion
    <3>1. Append(target, LoadRows) \in Seq(Rows) /\ Append(stray, LoadRows) \in Seq(Rows)
          /\ <<LoadRows>> \in Seq(Rows)
      BY <2>1
    <3>. QED
      BY <1>22, <2>2, <3>1 DEF Load, LoadEffect
  <2>4. pc' \in Steps /\ pc' # "idle" /\ pc # "idle"
    BY <1>22 DEF Load, Loads, AfterLoad, Steps
  <2>. QED
    BY <1>22, <2>3, <2>4 DEF Load
<1>23. CASE LoadRejected
  BY <1>23 DEF LoadRejected, Loads, Return, Steps, Rows
<1>24. CASE ConfirmTarget
  BY <1>24 DEF ConfirmTarget, Return, Steps, Rows
<1>25. CASE Finish
  <2>1. entry' \in Entries
    <3>1. part \in 0..MaxVersion
      BY <1>25 DEF Finish, Identity
    <3>2. [entry EXCEPT !.imported = part, !.inProgress = FALSE] \in Entries
      BY <3>1 DEF Entries
    <3>. QED
      BY <1>25, <3>2 DEF Finish
  <2>2. {} \in Rows
    BY DEF Rows
  <2>. QED
    BY <1>25, <2>1, <2>2 DEF Finish, Return, Steps
<1>26. CASE Fail
  <2>1. {} \in Rows
    BY DEF Rows
  <2>2. seen' \in [Callers -> 0..MaxVersion] /\ faults' \in 0..MaxFaults
    BY <1>26 DEF Fail, GiveUp
  <2>. QED
    BY <1>26, <2>1, <2>2 DEF Fail, GiveUp, Return, Steps
<1>27. CASE ExportAbandoned
  <2>1. {} \in Rows /\ RowsOf(ident) \in Rows
    BY DEF Rows, RowsOf, Identity
  <2>2. seen' \in [Callers -> 0..MaxVersion] /\ faults' \in 0..MaxFaults
    BY <1>27 DEF ExportAbandoned, GiveUp
  <2>3. staleExports' \subseteq StaleExports
    BY <1>27, <2>1 DEF ExportAbandoned, StaleExports, PrefixKnown
  <2>. QED
    BY <1>27, <2>1, <2>2, <2>3 DEF ExportAbandoned, GiveUp, Return, Steps
<1>28. CASE LoadAbandoned
  <2>1. {} \in Rows
    BY DEF Rows
  <2>2. seen' \in [Callers -> 0..MaxVersion] /\ faults' \in 0..MaxFaults
    BY <1>28 DEF LoadAbandoned, GiveUp
  <2>3. LoadRows \in Rows
    BY <1>28 DEF Loads, LoadAbandoned, LoadRows, PrefixKnown, Rows
  <2>4. lateLoads' \subseteq LateLoads
    BY <1>28, <2>3 DEF LoadAbandoned, Loads, LoadKind, LateLoads
  <2>. QED
    BY <1>28, <2>1, <2>2, <2>4 DEF LoadAbandoned, GiveUp, Return, Steps
<1>29. CASE UNCHANGED vars
  BY <1>29 DEF vars
<1>. QED
  BY <1>1, <1>2, <1>3, <1>4, <1>5, <1>6, <1>7, <1>8, <1>9, <1>10, <1>11, <1>12, <1>13, <1>14, <1>15, <1>16, <1>17, <1>18, <1>19, <1>20, <1>21, <1>22, <1>23, <1>24, <1>25, <1>26, <1>27, <1>28, <1>29
     DEF Next, Environment, Listing, Call, SyncPartition, Faults

(* Everything refers to identities the source showed before.               *)
LEMMA PastStep == IInv /\ [Next]_vars => PastInv'
<1>. SUFFICES ASSUME IInv, [Next]_vars PROVE PastInv'
  OBVIOUS
<1>. USE BoundAssumption DEF sourceVars, storeVars, targetVars, callVars, IInv, TypeOK, PastInv, Past, Identity, RowsOf
<1>1. CASE SourceChange
  BY <1>1 DEF SourceChange
<1>2. CASE TargetDropped
  BY <1>2 DEF TargetDropped
<1>3. CASE StaleExportWrites
  BY <1>3 DEF StaleExportWrites
<1>4. CASE LateLoadCommits
  BY <1>4 DEF LateLoadCommits, LoadEffect
<1>5. CASE ListTable
  BY <1>5 DEF ListTable
<1>6. CASE RefreshListed
  BY <1>6 DEF RefreshListed
<1>7. CASE ScanPicks
  BY <1>7 DEF ScanPicks
<1>8. ASSUME NEW c \in Callers, SkipEmpty(c) PROVE PastInv'
  BY <1>8 DEF SkipEmpty, Called, Callers
<1>9. ASSUME NEW c \in Callers, Start(c) PROVE PastInv'
  BY <1>9 DEF Start, Called, Callers, BackupOrVerify, UpToDate, NeedsBackup
<1>10. CASE SkipUnchanged
  BY <1>10 DEF SkipUnchanged, Return
<1>11. CASE ForgetImport
  BY <1>11 DEF ForgetImport, BackupOrVerify, NeedsBackup
<1>12. CASE NewGeneration
  <2>1. PICK g \in Gens : entry' = [entry EXCEPT !.source = part, !.ready = FALSE,
             !.backup = 0, !.prefix = g, !.objects = {}, !.inProgress = FALSE]
    BY <1>12 DEF NewGeneration
  <2>2. entry'.backup = 0 /\ entry'.imported = entry.imported
    BY <2>1 DEF Entries
  <2>. QED
    BY <1>12, <2>2 DEF NewGeneration
<1>13. CASE Clear
  BY <1>13 DEF Clear
<1>14. CASE Export
  BY <1>14 DEF Export
<1>15. CASE ListBackup
  BY <1>15 DEF ListBackup
<1>16. CASE Probe
  BY <1>16 DEF Probe, Return
<1>17. CASE ConfirmBackup
  <2>1. entry'.backup \in {part, entry.backup} /\ entry'.imported = entry.imported
    BY <1>17 DEF ConfirmBackup, Entries
  <2>. QED
    BY <1>17, <2>1 DEF ConfirmBackup, Return
<1>18. CASE VerifyObjects
  BY <1>18 DEF VerifyObjects, Return
<1>19. CASE VerifySource
  BY <1>19 DEF VerifySource, Return
<1>20. CASE MatchTarget
  <2>1. entry'.backup = entry.backup /\ entry'.imported = entry.imported
    BY <1>20 DEF MatchTarget, Entries
  <2>. QED
    BY <1>20, <2>1 DEF MatchTarget, Return
<1>21. CASE SkipLoad
  BY <1>21 DEF SkipLoad
<1>22. CASE Load
  BY <1>22 DEF Load, Loads, LoadEffect, LoadRows, AfterLoad, LoadKind
<1>23. CASE LoadRejected
  BY <1>23 DEF LoadRejected, Loads, Return
<1>24. CASE ConfirmTarget
  BY <1>24 DEF ConfirmTarget, Return
<1>25. CASE Finish
  <2>1. entry'.backup = entry.backup /\ entry'.imported \in {part, entry.imported}
    BY <1>25 DEF Finish, Entries
  <2>. QED
    BY <1>25, <2>1 DEF Finish, Return
<1>26. CASE Fail
  BY <1>26 DEF Fail, GiveUp, Return
<1>27. CASE ExportAbandoned
  BY <1>27 DEF ExportAbandoned, GiveUp, Return
<1>28. CASE LoadAbandoned
  <2>1. entry.objects = RowsOf(part) /\ (entry.objects # {} => store[entry.prefix] = RowsOf(part))
    BY <1>28 DEF LoadAbandoned, Loads, VerifiedInv, BackupSound, ImportSteps
  <2>2. part \in 1..ident /\ LoadRows = RowsOf(part)
    BY <1>28, <2>1 DEF LoadAbandoned, Loads, LoadRows
  <2>. QED
    BY <1>28, <2>2 DEF LoadAbandoned, GiveUp, Return
<1>29. CASE UNCHANGED vars
  BY <1>29 DEF vars
<1>. QED
  BY <1>1, <1>2, <1>3, <1>4, <1>5, <1>6, <1>7, <1>8, <1>9, <1>10, <1>11, <1>12, <1>13, <1>14, <1>15, <1>16, <1>17, <1>18, <1>19, <1>20, <1>21, <1>22, <1>23, <1>24, <1>25, <1>26, <1>27, <1>28, <1>29
     DEF Next, Environment, Listing, Call, SyncPartition, Faults

(* What is stored under the prefix, from its choice to the load.           *)
LEMMA BackupStep == IInv /\ [Next]_vars => (BackupInv /\ ReadyInv /\ BackupSound)'
<1>. SUFFICES ASSUME IInv, [Next]_vars PROVE (BackupInv /\ ReadyInv /\ BackupSound)'
  OBVIOUS
<1>. USE BoundAssumption DEF sourceVars, storeVars, targetVars, callVars, IInv, TypeOK, PastInv, Past, Identity, RowsOf, BackupInv, ReadyInv, BackupSound, Snapshot
<1>1. CASE SourceChange
  <2>1. /\ UNCHANGED <<store, staleExports, entry, pc, part, listed>>
        /\ ident' = ident + 1 /\ empties' \in {empties, empties \cup {ident + 1}}
    BY <1>1 DEF SourceChange
  <2>2. \A i \in 1..ident : RowsOf(i)' = RowsOf(i)
    BY <2>1
  <2>3. BackupInv'
    <3>1. pc \in {"listBackup", "probe", "confirmBackup"} => part \in 1..ident
      OBVIOUS
    <3>2. Snapshot(store[entry.prefix]) /\ part \in 1..ident => Snapshot(store[entry.prefix])'
      <4>1. ASSUME NEW j \in part..ident, part \in 1..ident, store[entry.prefix] = RowsOf(j)
            PROVE  j \in part'..ident' /\ store'[entry'.prefix] = RowsOf(j)'
        BY <2>1, <4>1
      <4>. QED
        BY <4>1
    <3>. QED
      BY <2>1, <3>1, <3>2
  <2>4. ReadyInv' /\ BackupSound'
    <3>1. entry.ready => entry.backup \in 1..ident
      OBVIOUS
    <3>. QED
      BY <2>1, <2>2, <3>1
  <2>. QED
    BY <2>3, <2>4
<1>2. CASE TargetDropped
  BY <1>2 DEF TargetDropped
<1>3. CASE StaleExportWrites
  BY <1>3 DEF StaleExportWrites
<1>4. CASE LateLoadCommits
  BY <1>4 DEF LateLoadCommits, LoadEffect
<1>5. CASE ListTable
  BY <1>5 DEF ListTable
<1>6. CASE RefreshListed
  BY <1>6 DEF RefreshListed
<1>7. CASE ScanPicks
  BY <1>7 DEF ScanPicks
<1>8. ASSUME NEW c \in Callers, SkipEmpty(c) PROVE (BackupInv /\ ReadyInv /\ BackupSound)'
  BY <1>8 DEF SkipEmpty, Called, Callers
<1>9. ASSUME NEW c \in Callers, Start(c) PROVE (BackupInv /\ ReadyInv /\ BackupSound)'
  BY <1>9 DEF Start, Called, Callers, BackupOrVerify, UpToDate, NeedsBackup
<1>10. CASE SkipUnchanged
  BY <1>10 DEF SkipUnchanged, Return
<1>11. CASE ForgetImport
  BY <1>11 DEF ForgetImport, BackupOrVerify, NeedsBackup
<1>12. CASE NewGeneration
  BY <1>12 DEF NewGeneration, Unused
<1>13. CASE Clear
  BY <1>13 DEF Clear
<1>14. CASE Export
  <2>1. store'[entry.prefix] = RowsOf(ident) /\ \A g \in Gens : g # entry.prefix => store'[g] = store[g]
    BY <1>14 DEF Export
  <2>2. ident \in part..ident
    BY <1>14 DEF Export
  <2>3. \E j \in part..ident : store'[entry.prefix] = RowsOf(j)
    BY <2>1, <2>2
  <2>. QED
    BY <1>14, <2>1, <2>3 DEF Export
<1>15. CASE ListBackup
  BY <1>15 DEF ListBackup
<1>16. CASE Probe
  BY <1>16 DEF Probe, Return
<1>17. CASE ConfirmBackup
  <2>1. CASE part = ident
    <3>1. /\ entry'.ready /\ entry'.backup = part /\ entry'.objects = listed
          /\ entry'.prefix = entry.prefix /\ entry'.imported = entry.imported
          /\ entry'.inProgress = entry.inProgress /\ pc' = "verifyObjects"
      BY <1>17, <2>1 DEF ConfirmBackup, Entries
    <3>. QED
      BY <1>17, <2>1, <3>1 DEF ConfirmBackup
  <2>2. CASE part # ident
    BY <1>17, <2>2 DEF ConfirmBackup, Return
  <2>. QED
    BY <2>1, <2>2
<1>18. CASE VerifyObjects
  BY <1>18 DEF VerifyObjects, Return
<1>19. CASE VerifySource
  BY <1>19 DEF VerifySource, Return
<1>20. CASE MatchTarget
  <2>1. CASE target # <<>> \/ opts.auto
    <3>1. /\ entry'.ready = entry.ready /\ entry'.backup = entry.backup
          /\ entry'.objects = entry.objects /\ entry'.prefix = entry.prefix
          /\ entry'.imported = entry.imported /\ entry'.inProgress /\ pc' = "load"
      BY <1>20, <2>1 DEF MatchTarget, Entries
    <3>. QED
      BY <1>20, <2>1, <3>1 DEF MatchTarget
  <2>2. CASE ~(target # <<>> \/ opts.auto)
    BY <1>20, <2>2 DEF MatchTarget, Return
  <2>. QED
    BY <2>1, <2>2
<1>21. CASE SkipLoad
  BY <1>21 DEF SkipLoad
<1>22. CASE Load
  BY <1>22 DEF Load, Loads, LoadEffect, LoadRows, AfterLoad, LoadKind
<1>23. CASE LoadRejected
  BY <1>23 DEF LoadRejected, Loads, Return
<1>24. CASE ConfirmTarget
  BY <1>24 DEF ConfirmTarget, Return
<1>25. CASE Finish
  BY <1>25 DEF Finish, Return
<1>26. CASE Fail
  BY <1>26 DEF Fail, GiveUp, Return
<1>27. CASE ExportAbandoned
  BY <1>27 DEF ExportAbandoned, GiveUp, Return
<1>28. CASE LoadAbandoned
  BY <1>28 DEF LoadAbandoned, GiveUp, Return, Loads, LoadRows, LoadKind
<1>29. CASE UNCHANGED vars
  BY <1>29 DEF vars
<1>. QED
  BY <1>1, <1>2, <1>3, <1>4, <1>5, <1>6, <1>7, <1>8, <1>9, <1>10, <1>11, <1>12, <1>13, <1>14, <1>15, <1>16, <1>17, <1>18, <1>19, <1>20, <1>21, <1>22, <1>23, <1>24, <1>25, <1>26, <1>27, <1>28, <1>29
     DEF Next, Environment, Listing, Call, SyncPartition, Faults

(* What the checks before and after the export establish.                  *)
LEMMA VerifiedStep == IInv /\ [Next]_vars => VerifiedInv'
<1>. SUFFICES ASSUME IInv, [Next]_vars PROVE VerifiedInv'
  OBVIOUS
<1>. USE BoundAssumption DEF sourceVars, storeVars, targetVars, callVars, IInv, TypeOK, PastInv, Past, Identity, VerifiedInv, ImportSteps
<1>1. CASE SourceChange
  BY <1>1 DEF SourceChange
<1>2. CASE TargetDropped
  BY <1>2 DEF TargetDropped
<1>3. CASE StaleExportWrites
  BY <1>3 DEF StaleExportWrites
<1>4. CASE LateLoadCommits
  BY <1>4 DEF LateLoadCommits, LoadEffect
<1>5. CASE ListTable
  BY <1>5 DEF ListTable
<1>6. CASE RefreshListed
  BY <1>6 DEF RefreshListed
<1>7. CASE ScanPicks
  BY <1>7 DEF ScanPicks
<1>8. ASSUME NEW c \in Callers, SkipEmpty(c) PROVE VerifiedInv'
  BY <1>8 DEF SkipEmpty, Called, Callers
<1>9. ASSUME NEW c \in Callers, Start(c) PROVE VerifiedInv'
  BY <1>9 DEF Start, Called, Callers, BackupOrVerify, UpToDate, NeedsBackup
<1>10. CASE SkipUnchanged
  BY <1>10 DEF SkipUnchanged, Return
<1>11. CASE ForgetImport
  BY <1>11 DEF ForgetImport, BackupOrVerify, NeedsBackup
<1>12. CASE NewGeneration
  BY <1>12 DEF NewGeneration, Unused
<1>13. CASE Clear
  BY <1>13 DEF Clear
<1>14. CASE Export
  BY <1>14 DEF Export
<1>15. CASE ListBackup
  BY <1>15 DEF ListBackup
<1>16. CASE Probe
  BY <1>16 DEF Probe, Return
<1>17. CASE ConfirmBackup
  <2>1. CASE part = ident
    <3>1. /\ entry'.ready /\ entry'.backup = part /\ entry'.objects = listed
          /\ entry'.prefix = entry.prefix /\ entry'.imported = entry.imported
          /\ entry'.inProgress = entry.inProgress /\ pc' = "verifyObjects"
      BY <1>17, <2>1 DEF ConfirmBackup, Entries
    <3>. QED
      BY <1>17, <2>1, <3>1 DEF ConfirmBackup
  <2>2. CASE part # ident
    BY <1>17, <2>2 DEF ConfirmBackup, Return
  <2>. QED
    BY <2>1, <2>2
<1>18. CASE VerifyObjects
  BY <1>18 DEF VerifyObjects, Return
<1>19. CASE VerifySource
  BY <1>19 DEF VerifySource, Return
<1>20. CASE MatchTarget
  <2>1. CASE target # <<>> \/ opts.auto
    <3>1. /\ entry'.ready = entry.ready /\ entry'.backup = entry.backup
          /\ entry'.objects = entry.objects /\ entry'.prefix = entry.prefix
          /\ entry'.imported = entry.imported /\ entry'.inProgress /\ pc' = "load"
      BY <1>20, <2>1 DEF MatchTarget, Entries
    <3>. QED
      BY <1>20, <2>1, <3>1 DEF MatchTarget
  <2>2. CASE ~(target # <<>> \/ opts.auto)
    BY <1>20, <2>2 DEF MatchTarget, Return
  <2>. QED
    BY <2>1, <2>2
<1>21. CASE SkipLoad
  BY <1>21 DEF SkipLoad
<1>22. CASE Load
  BY <1>22 DEF Load, Loads, LoadEffect, LoadRows, AfterLoad, LoadKind
<1>23. CASE LoadRejected
  BY <1>23 DEF LoadRejected, Loads, Return
<1>24. CASE ConfirmTarget
  BY <1>24 DEF ConfirmTarget, Return
<1>25. CASE Finish
  BY <1>25 DEF Finish, Return
<1>26. CASE Fail
  BY <1>26 DEF Fail, GiveUp, Return
<1>27. CASE ExportAbandoned
  BY <1>27 DEF ExportAbandoned, GiveUp, Return
<1>28. CASE LoadAbandoned
  BY <1>28 DEF LoadAbandoned, GiveUp, Return, Loads, LoadRows, LoadKind
<1>29. CASE UNCHANGED vars
  BY <1>29 DEF vars
<1>. QED
  BY <1>1, <1>2, <1>3, <1>4, <1>5, <1>6, <1>7, <1>8, <1>9, <1>10, <1>11, <1>12, <1>13, <1>14, <1>15, <1>16, <1>17, <1>18, <1>19, <1>20, <1>21, <1>22, <1>23, <1>24, <1>25, <1>26, <1>27, <1>28, <1>29
     DEF Next, Environment, Listing, Call, SyncPartition, Faults

(* The rows of an identity the source has shown never change.              *)
LEMMA RowsKept ==
  ASSUME TypeOK, PastInv, SourceChange, NEW i \in 1..ident
  PROVE  RowsOf(i)' = RowsOf(i)
BY DEF TypeOK, PastInv, SourceChange, RowsOf, Identity

(* What a load moves to the target.                                        *)
LEMMA LoadIsSnapshot ==
  ASSUME IInv, Loads
  PROVE  LoadRows = RowsOf(part) /\ part \in 1..ident
<1>1. entry.objects = RowsOf(part) /\ (entry.objects # {} => store[entry.prefix] = RowsOf(part))
  BY DEF IInv, Loads, VerifiedInv, BackupSound, ImportSteps
<1>2. part \in 1..ident
  BY DEF IInv, TypeOK, PastInv, Past, Identity, Loads
<1>. QED
  BY <1>1, <1>2 DEF LoadRows

(* What the target shows when no late load has overtaken it.               *)
LEMMA TargetStep == IInv /\ [Next]_vars => TargetInv'
<1>. SUFFICES ASSUME IInv, [Next]_vars PROVE TargetInv'
  OBVIOUS
<1>. USE BoundAssumption DEF sourceVars, storeVars, targetVars, callVars, IInv, TypeOK, PastInv, Past, Identity, TargetInv, VerifiedInv, ImportSteps, Shows, RowsOf
<1>1. CASE SourceChange
  BY <1>1 DEF SourceChange
<1>2. CASE TargetDropped
  BY <1>2 DEF TargetDropped
<1>3. CASE StaleExportWrites
  BY <1>3 DEF StaleExportWrites
<1>4. CASE LateLoadCommits
  BY <1>4 DEF LateLoadCommits, LoadEffect
<1>5. CASE ListTable
  BY <1>5 DEF ListTable
<1>6. CASE RefreshListed
  BY <1>6 DEF RefreshListed
<1>7. CASE ScanPicks
  BY <1>7 DEF ScanPicks
<1>8. ASSUME NEW c \in Callers, SkipEmpty(c) PROVE TargetInv'
  BY <1>8 DEF SkipEmpty, Called, Callers
<1>9. ASSUME NEW c \in Callers, Start(c) PROVE TargetInv'
  BY <1>9 DEF Start, Called, Callers, BackupOrVerify, UpToDate, NeedsBackup
<1>10. CASE SkipUnchanged
  BY <1>10 DEF SkipUnchanged, Return
<1>11. CASE ForgetImport
  BY <1>11 DEF ForgetImport, BackupOrVerify, NeedsBackup
<1>12. CASE NewGeneration
  BY <1>12 DEF NewGeneration, Unused
<1>13. CASE Clear
  BY <1>13 DEF Clear
<1>14. CASE Export
  BY <1>14 DEF Export
<1>15. CASE ListBackup
  BY <1>15 DEF ListBackup
<1>16. CASE Probe
  BY <1>16 DEF Probe, Return
<1>17. CASE ConfirmBackup
  <2>1. CASE part = ident
    <3>1. /\ entry'.ready /\ entry'.backup = part /\ entry'.objects = listed
          /\ entry'.prefix = entry.prefix /\ entry'.imported = entry.imported
          /\ entry'.inProgress = entry.inProgress /\ pc' = "verifyObjects"
      BY <1>17, <2>1 DEF ConfirmBackup, Entries
    <3>. QED
      BY <1>17, <2>1, <3>1 DEF ConfirmBackup
  <2>2. CASE part # ident
    BY <1>17, <2>2 DEF ConfirmBackup, Return
  <2>. QED
    BY <2>1, <2>2
<1>18. CASE VerifyObjects
  BY <1>18 DEF VerifyObjects, Return
<1>19. CASE VerifySource
  BY <1>19 DEF VerifySource, Return
<1>20. CASE MatchTarget
  <2>1. CASE target # <<>> \/ opts.auto
    <3>1. /\ entry'.ready = entry.ready /\ entry'.backup = entry.backup
          /\ entry'.objects = entry.objects /\ entry'.prefix = entry.prefix
          /\ entry'.imported = entry.imported /\ entry'.inProgress /\ pc' = "load"
      BY <1>20, <2>1 DEF MatchTarget, Entries
    <3>. QED
      BY <1>20, <2>1, <3>1 DEF MatchTarget
  <2>2. CASE ~(target # <<>> \/ opts.auto)
    BY <1>20, <2>2 DEF MatchTarget, Return
  <2>. QED
    BY <2>1, <2>2
<1>21. CASE SkipLoad
  BY <1>21 DEF SkipLoad
<1>22. CASE Load
  <2>1. LoadRows = RowsOf(part) /\ part \in 1..ident
    BY <1>22, LoadIsSnapshot DEF Load
  <2>2. ASSUME ~overtaken', target # <<>> \/ opts.compatible
        PROVE  target' = <<RowsOf(part)>> /\ shown' = part
    <3>1. LoadKind = "append" => target = <<>>
      <4>1. LoadKind = "append" => ~matched
        BY DEF LoadKind
      <4>. QED
        BY <1>22, <2>2, <4>1 DEF Load, Loads
    <3>2. Append(<<>>, RowsOf(part)) = <<RowsOf(part)>>
      OBVIOUS
    <3>. QED
      BY <1>22, <2>1, <2>2, <3>1, <3>2 DEF Load, LoadEffect
  <2>3. ASSUME ~(target # <<>> \/ opts.compatible)
        PROVE  target' = <<>> /\ shown' = shown
    BY <1>22, <2>3 DEF Load, LoadEffect
  <2>4. pc = "load" /\ pc' \in {"confirmTarget", "finish"}
    BY <1>22 DEF Load, Loads, AfterLoad
  <2>5. /\ part >= entry.imported /\ part >= shown
        /\ UNCHANGED <<opts, ident, empties, lateLoads, part, matched, entry>>
    BY <1>22, <2>4 DEF Load
  <2>. QED
    BY <2>1, <2>2, <2>3, <2>4, <2>5
<1>23. CASE LoadRejected
  BY <1>23 DEF LoadRejected, Loads, Return
<1>24. CASE ConfirmTarget
  BY <1>24 DEF ConfirmTarget, Return
<1>25. CASE Finish
  BY <1>25 DEF Finish, Return
<1>26. CASE Fail
  BY <1>26 DEF Fail, GiveUp, Return
<1>27. CASE ExportAbandoned
  BY <1>27 DEF ExportAbandoned, GiveUp, Return
<1>28. CASE LoadAbandoned
  BY <1>28 DEF LoadAbandoned, GiveUp, Return, Loads, LoadRows, LoadKind
<1>29. CASE UNCHANGED vars
  BY <1>29 DEF vars
<1>. QED
  BY <1>1, <1>2, <1>3, <1>4, <1>5, <1>6, <1>7, <1>8, <1>9, <1>10, <1>11, <1>12, <1>13, <1>14, <1>15, <1>16, <1>17, <1>18, <1>19, <1>20, <1>21, <1>22, <1>23, <1>24, <1>25, <1>26, <1>27, <1>28, <1>29
     DEF Next, Environment, Listing, Call, SyncPartition, Faults

(* Without automatic partitioning only loads of named partitions are made. *)
LEMMA KindStep == IInv /\ [Next]_vars => KindInv'
<1>. SUFFICES ASSUME IInv, [Next]_vars PROVE KindInv'
  OBVIOUS
<1>. USE BoundAssumption DEF sourceVars, storeVars, targetVars, callVars, IInv, TypeOK, KindInv
<1>1. CASE SourceChange
  BY <1>1 DEF SourceChange
<1>2. CASE TargetDropped
  BY <1>2 DEF TargetDropped
<1>3. CASE StaleExportWrites
  BY <1>3 DEF StaleExportWrites
<1>4. CASE LateLoadCommits
  BY <1>4 DEF LateLoadCommits, LoadEffect
<1>5. CASE ListTable
  BY <1>5 DEF ListTable
<1>6. CASE RefreshListed
  BY <1>6 DEF RefreshListed
<1>7. CASE ScanPicks
  BY <1>7 DEF ScanPicks
<1>8. ASSUME NEW c \in Callers, SkipEmpty(c) PROVE KindInv'
  BY <1>8 DEF SkipEmpty, Called, Callers
<1>9. ASSUME NEW c \in Callers, Start(c) PROVE KindInv'
  BY <1>9 DEF Start, Called, Callers, BackupOrVerify, UpToDate, NeedsBackup
<1>10. CASE SkipUnchanged
  BY <1>10 DEF SkipUnchanged, Return
<1>11. CASE ForgetImport
  BY <1>11 DEF ForgetImport, BackupOrVerify, NeedsBackup
<1>12. CASE NewGeneration
  BY <1>12 DEF NewGeneration, Unused
<1>13. CASE Clear
  BY <1>13 DEF Clear
<1>14. CASE Export
  BY <1>14 DEF Export
<1>15. CASE ListBackup
  BY <1>15 DEF ListBackup
<1>16. CASE Probe
  BY <1>16 DEF Probe, Return
<1>17. CASE ConfirmBackup
  BY <1>17 DEF ConfirmBackup, Return
<1>18. CASE VerifyObjects
  BY <1>18 DEF VerifyObjects, Return
<1>19. CASE VerifySource
  BY <1>19 DEF VerifySource, Return
<1>20. CASE MatchTarget
  BY <1>20 DEF MatchTarget, Return
<1>21. CASE SkipLoad
  BY <1>21 DEF SkipLoad
<1>22. CASE Load
  BY <1>22 DEF Load, Loads, LoadEffect, LoadRows, AfterLoad, LoadKind
<1>23. CASE LoadRejected
  BY <1>23 DEF LoadRejected, Loads, Return
<1>24. CASE ConfirmTarget
  BY <1>24 DEF ConfirmTarget, Return
<1>25. CASE Finish
  BY <1>25 DEF Finish, Return
<1>26. CASE Fail
  BY <1>26 DEF Fail, GiveUp, Return
<1>27. CASE ExportAbandoned
  BY <1>27 DEF ExportAbandoned, GiveUp, Return
<1>28. CASE LoadAbandoned
  BY <1>28 DEF LoadAbandoned, GiveUp, Return, Loads, LoadRows, LoadKind
<1>29. CASE UNCHANGED vars
  BY <1>29 DEF vars
<1>. QED
  BY <1>1, <1>2, <1>3, <1>4, <1>5, <1>6, <1>7, <1>8, <1>9, <1>10, <1>11, <1>12, <1>13, <1>14, <1>15, <1>16, <1>17, <1>18, <1>19, <1>20, <1>21, <1>22, <1>23, <1>24, <1>25, <1>26, <1>27, <1>28, <1>29
     DEF Next, Environment, Listing, Call, SyncPartition, Faults

(* The target shows one snapshot.  Only four actions touch the target or   *)
(* the source.                                                             *)
LEMMA WholeStep == IInv /\ [Next]_vars => TargetWhole'
<1>. SUFFICES ASSUME IInv, [Next]_vars PROVE TargetWhole'
  OBVIOUS
<1>. USE DEF sourceVars, storeVars, targetVars, callVars
<1>. DEFINE Kept == UNCHANGED <<opts, ident, empties, target, overtaken>>
<1>1. TypeOK /\ PastInv /\ TargetWhole /\ KindInv /\ TargetInv
  BY DEF IInv
<1>2. ASSUME Kept PROVE TargetWhole'
  BY <1>1, <1>2 DEF TargetWhole, RowsOf
<1>3. CASE SourceChange
  <2>1. \A i \in 1..ident : RowsOf(i)' = RowsOf(i)
    BY <1>1, <1>3, RowsKept
  <2>2. UNCHANGED <<opts, target, overtaken>> /\ 1..ident \subseteq 1..ident'
    BY <1>1, <1>3 DEF SourceChange, TypeOK, Identity
  <2>. QED
    BY <1>1, <2>1, <2>2 DEF TargetWhole
<1>4. CASE TargetDropped
  BY <1>4 DEF TargetDropped, TargetWhole
<1>5. CASE LateLoadCommits
  <2>1. PICK l \in lateLoads : LateLoadCommits!(l)
    BY <1>5 DEF LateLoadCommits
  <2>2. CASE opts.auto
    BY <1>1, <2>1, <2>2 DEF TargetWhole
  <2>3. CASE ~opts.auto
    <3>1. l.kind = "partition" /\ l.id \in 1..ident /\ l.rows = RowsOf(l.id)
      BY <1>1, <2>1, <2>3 DEF KindInv, PastInv
    <3>2. target' = target \/ target' = <<RowsOf(l.id)>>
      BY <2>1, <3>1 DEF LoadEffect
    <3>3. UNCHANGED <<opts, ident, empties>>
      BY <2>1
    <3>. QED
      BY <1>1, <2>3, <3>1, <3>2, <3>3 DEF TargetWhole, RowsOf
  <2>. QED
    BY <2>2, <2>3
<1>6. CASE Load
  <2>1. LoadRows = RowsOf(part) /\ part \in 1..ident
    BY <1>6, LoadIsSnapshot DEF Load
  <2>2. UNCHANGED <<opts, ident, empties>>
    BY <1>6 DEF Load
  <2>3. ASSUME ~(opts.auto /\ overtaken')
        PROVE  target' = <<>> \/ target' = <<RowsOf(part)>>
    <3>1. LoadKind = "append" => target = <<>>
      <4>1. LoadKind = "append" => ~matched
        BY DEF LoadKind
      <4>. QED
        BY <1>1, <1>6, <2>3, <4>1 DEF Load, Loads, KindInv, TargetInv, TypeOK
    <3>2. Append(<<>>, RowsOf(part)) = <<RowsOf(part)>>
      OBVIOUS
    <3>. QED
      BY <1>6, <2>1, <3>1, <3>2 DEF Load, LoadEffect
  <2>. QED
    BY <1>1, <2>1, <2>2, <2>3 DEF TargetWhole, RowsOf
<1>7. CASE Listing
  BY <1>2, <1>7 DEF Listing, ListTable, RefreshListed, ScanPicks
<1>8. ASSUME NEW c \in Callers, Call(c) PROVE TargetWhole'
  BY <1>2, <1>8 DEF Call, SkipEmpty, Start
<1>9. CASE StaleExportWrites
  BY <1>2, <1>9 DEF StaleExportWrites
<1>10. CASE SyncPartition /\ ~Load
  BY <1>2, <1>10 DEF SyncPartition, SkipUnchanged, ForgetImport, NewGeneration, Clear,
     Export, ListBackup, Probe, ConfirmBackup, VerifyObjects, VerifySource, MatchTarget,
     SkipLoad, LoadRejected, ConfirmTarget, Finish
<1>11. CASE Faults
  BY <1>2, <1>11 DEF Faults, Fail, ExportAbandoned, LoadAbandoned
<1>12. CASE UNCHANGED vars
  BY <1>2, <1>12 DEF vars
<1>. QED
  BY <1>3, <1>4, <1>5, <1>6, <1>7, <1>8, <1>9, <1>10, <1>11, <1>12 DEF Next, Environment

(* Only five actions change the row.                                       *)
LEMMA MonitorStep == IInv /\ [Next]_vars => (SourceInv /\ MonitorInv)'
<1>. SUFFICES ASSUME IInv, [Next]_vars PROVE (SourceInv /\ MonitorInv)'
  OBVIOUS
<1>. USE DEF sourceVars, storeVars, targetVars, callVars
<1>. DEFINE Backing == {"clear", "export", "listBackup", "probe", "confirmBackup"}
            SameRow == UNCHANGED <<opts, empties, target, overtaken, entry>>
            SameCall == pc' \in Backing => pc \in Backing /\ part' = part
<1>1. TypeOK /\ PastInv /\ SourceInv /\ MonitorInv /\ TargetInv /\ VerifiedInv
  BY DEF IInv
<1>2. ASSUME SameRow, SameCall PROVE (SourceInv /\ MonitorInv)'
  BY <1>1, <1>2 DEF SourceInv, MonitorInv, Shows, RowsOf
<1>3. CASE SourceChange
  <2>1. UNCHANGED <<opts, target, overtaken, entry, pc, part>>
    BY <1>3 DEF SourceChange
  <2>2. entry.imported # 0 => entry.imported \in 1..ident
    BY <1>1 DEF TypeOK, PastInv, Past, Identity
  <2>3. \A i \in 1..ident : RowsOf(i)' = RowsOf(i)
    BY <1>1, <1>3, RowsKept
  <2>. QED
    BY <1>1, <2>1, <2>2, <2>3 DEF SourceInv, MonitorInv, Shows
<1>4. CASE TargetDropped
  BY <1>1, <1>4 DEF TargetDropped, SourceInv, MonitorInv, Shows
<1>5. CASE LateLoadCommits
  <2>1. overtaken' \/ target' = <<>>
    BY <1>5 DEF LateLoadCommits
  <2>. QED
    BY <1>1, <1>5, <2>1 DEF LateLoadCommits, SourceInv, MonitorInv, Shows
<1>6. CASE Load
  <2>1. entry.inProgress /\ UNCHANGED <<opts, entry>>
    BY <1>1, <1>6 DEF Load, Loads, VerifiedInv
  <2>2. pc' \notin Backing
    BY <1>6 DEF Load, AfterLoad
  <2>. QED
    BY <2>1, <2>2 DEF SourceInv, MonitorInv
<1>7. CASE ForgetImport
  <2>1. entry' = [entry EXCEPT !.imported = 0] /\ pc' \notin Backing
    BY <1>7 DEF ForgetImport, BackupOrVerify
  <2>. QED
    BY <1>1, <2>1 DEF SourceInv, MonitorInv, TypeOK, Entries
<1>8. CASE NewGeneration
  <2>1. PICK g \in Gens :
          entry' = [entry EXCEPT !.source = part, !.ready = FALSE, !.backup = 0,
                                 !.prefix = g, !.objects = {}, !.inProgress = FALSE]
    BY <1>8 DEF NewGeneration
  <2>2. entry'.source = part /\ ~entry'.ready /\ part' = part
    BY <1>1, <1>8, <2>1 DEF NewGeneration, TypeOK, Entries
  <2>. QED
    BY <2>2 DEF SourceInv, MonitorInv
<1>9. CASE ConfirmBackup
  <2>1. CASE part = ident
    <3>1. entry'.source = part /\ entry'.imported = entry.imported
      BY <1>1, <1>9, <2>1 DEF ConfirmBackup, SourceInv, TypeOK, Entries
    <3>2. ~overtaken /\ entry.imported = ident => Shows(ident)
      BY <1>1 DEF TargetInv
    <3>3. UNCHANGED <<opts, empties, target, overtaken>> /\ pc' \notin Backing
      BY <1>9, <2>1 DEF ConfirmBackup
    <3>. QED
      BY <2>1, <3>1, <3>2, <3>3 DEF SourceInv, MonitorInv, Shows, RowsOf
  <2>2. CASE part # ident
    BY <1>2, <1>9, <2>2 DEF ConfirmBackup, Return
  <2>. QED
    BY <2>1, <2>2
<1>10. CASE MatchTarget
  <2>1. UNCHANGED <<opts, empties, target, overtaken>> /\ pc' \notin Backing
    BY <1>10 DEF MatchTarget, Return
  <2>2. entry' = [entry EXCEPT !.inProgress = TRUE] \/ entry' = entry
    BY <1>10 DEF MatchTarget
  <2>. QED
    BY <1>1, <2>1, <2>2 DEF SourceInv, MonitorInv, Shows, RowsOf, TypeOK, Entries
<1>11. CASE Finish
  <2>1. UNCHANGED <<opts, empties, target, overtaken>> /\ pc' \notin Backing
    BY <1>11 DEF Finish, Return
  <2>2. ~overtaken => Shows(part)
    BY <1>1, <1>11 DEF Finish, TargetInv
  <2>3. entry' = [entry EXCEPT !.imported = part, !.inProgress = FALSE] \/ entry' = entry
    BY <1>11 DEF Finish
  <2>. QED
    BY <1>1, <2>1, <2>2, <2>3 DEF SourceInv, MonitorInv, Shows, RowsOf, TypeOK, Entries
<1>12. CASE Listing \/ StaleExportWrites
  BY <1>2, <1>12 DEF Listing, ListTable, RefreshListed, ScanPicks, StaleExportWrites
<1>13. ASSUME NEW c \in Callers, Call(c) PROVE (SourceInv /\ MonitorInv)'
  BY <1>2, <1>13 DEF Call, SkipEmpty, Start, BackupOrVerify
<1>14. CASE SkipUnchanged \/ Clear \/ Export \/ ListBackup \/ Probe \/ VerifyObjects
  BY <1>2, <1>14 DEF SkipUnchanged, Clear, Export, ListBackup, Probe, VerifyObjects, Return
<1>15. CASE VerifySource \/ SkipLoad \/ LoadRejected \/ ConfirmTarget
  BY <1>2, <1>15 DEF VerifySource, SkipLoad, LoadRejected, ConfirmTarget, Return
<1>16. CASE Faults
  BY <1>2, <1>16 DEF Faults, Fail, ExportAbandoned, LoadAbandoned, GiveUp, Return
<1>17. CASE UNCHANGED vars
  BY <1>2, <1>17 DEF vars
<1>. QED
  BY <1>3, <1>4, <1>5, <1>6, <1>7, <1>8, <1>9, <1>10, <1>11, <1>12, <1>13, <1>14, <1>15, <1>16, <1>17
     DEF Next, Environment, SyncPartition

-----------------------------------------------------------------------------
LEMMA Inductive == IInv /\ [Next]_vars => IInv'
BY TypeStep, PastStep, BackupStep, VerifiedStep, TargetStep, KindStep, WholeStep, MonitorStep DEF IInv

LEMMA Invariance == Spec => []IInv
<1>1. Init => IInv
  BY InitInv
<1>2. IInv /\ [Next]_vars => IInv'
  BY Inductive
<1>. QED
  BY <1>1, <1>2, PTL DEF Spec

(* The row, the servers and the call stay well-formed: every step of       *)
(* syncPartition works on an identity the source has shown.                *)
THEOREM TypeCorrect == Spec => []TypeOK
<1>1. IInv => TypeOK
  BY DEF IInv
<1>. QED
  BY <1>1, Invariance, PTL

(* A ready backup is the snapshot it is recorded as, and out of reach of   *)
(* OUTFILE statements of earlier attempts, for any number of them.         *)
THEOREM BackupCorrect == Spec => []BackupSound
<1>1. IInv => BackupSound
  BY DEF IInv
<1>. QED
  BY <1>1, Invariance, PTL

(* A partition skipped as unchanged is up to date in the target, whatever  *)
(* errors, crashes and stale partition lists came before.                  *)
THEOREM CheckpointCorrect == Spec => []CheckpointSound
<1>1. IInv => CheckpointSound
  BY DEF IInv, CheckpointSound, TargetInv, Shows
<1>. QED
  BY <1>1, Invariance, PTL

(* A partition reported as monitored shows what it is reported to, however *)
(* many syncs were cut short before.                                       *)
THEOREM MonitoredCorrect == Spec => []MonitoredShown
<1>1. StatusPhase = "incremental_monitoring" =>
        entry.imported # 0 /\ entry.imported = entry.source /\ ~entry.inProgress
  BY DEF StatusPhase
<1>2. IInv => MonitoredShown
  BY <1>1 DEF IInv, MonitoredShown, MonitorInv, Shows
<1>. QED
  BY <1>2, Invariance, PTL

(* The target never shows a mix of snapshots nor a row twice, except where *)
(* plain INSERT statements may commit late.                                *)
THEOREM TargetCorrect == Spec => []TargetWhole
<1>1. IInv => TargetWhole
  BY DEF IInv
<1>. QED
  BY <1>1, Invariance, PTL

-----------------------------------------------------------------------------
(***************************************************************************)
(* PartitionSync implements Replica when no load commits late.             *)
(***************************************************************************)
OnTime == ~opts.lateLoads

LEMMA StaysOnTime == (\A o \in Options : ~o.lateLoads) /\ IInv => OnTime
BY DEF IInv, TypeOK, OnTime

LEMMA RefinesInit == Init => Promise!Init
BY DEF Init, Promise!Init

(* Each step but a late commit itself, and an INSERT to rows already mixed. *)
Promised == LateLoadCommits \/ (opts.auto /\ overtaken) \/ Promise!Next \/ UNCHANGED Promise!vars

LEMMA KeepsPromise == IInv /\ [Next]_vars => Promised
<1>. SUFFICES ASSUME IInv, ~(opts.auto /\ overtaken), ~LateLoadCommits, [Next]_vars
              PROVE  [Promise!Next]_(Promise!vars)
  BY DEF Promised
<1>. USE DEF sourceVars, storeVars, targetVars, callVars, Promise!vars
<1>. DEFINE Kept == UNCHANGED <<ident, empties, shown, target>>
<1>1. CASE SourceChange
  BY <1>1 DEF SourceChange, Promise!Next, Promise!Write
<1>2. CASE TargetDropped
  BY <1>2 DEF TargetDropped, Promise!Next, Promise!Lose
<1>4. CASE Load
  <2>1. LoadRows = RowsOf(part) /\ part \in 1..ident
    BY <1>4, LoadIsSnapshot DEF Load
  <2>2. part \in shown..ident /\ part > 0
    BY <1>4, <2>1 DEF Load, Loads, IInv, TypeOK, PastInv, Past, VerifiedInv, ImportSteps,
       Identity
  <2>3. UNCHANGED <<ident, empties>>
    BY <1>4 DEF Load
  <2>4. CASE target # <<>> \/ opts.compatible
    <3>1. LoadKind = "append" => target = <<>>
      BY <1>4 DEF Load, Loads, LoadKind, IInv, KindInv, TargetInv, TypeOK
    <3>2. Append(<<>>, RowsOf(part)) = <<RowsOf(part)>>
      OBVIOUS
    <3>3. target' = <<Promise!Rows(part)>> /\ shown' = part
      BY <1>4, <2>1, <2>4, <3>1, <3>2 DEF Load, LoadEffect, RowsOf, Promise!Rows
    <3>. QED
      BY <2>2, <2>3, <3>3 DEF Promise!Next, Promise!Refresh
  <2>5. CASE ~(target # <<>> \/ opts.compatible)
    BY <1>4, <2>3, <2>5 DEF Load, LoadEffect
  <2>. QED
    BY <2>4, <2>5
<1>5. CASE Listing
  BY <1>5 DEF Listing, ListTable, RefreshListed, ScanPicks
<1>6. ASSUME NEW c \in Callers, Call(c) PROVE Kept
  BY <1>6 DEF Call, SkipEmpty, Start
<1>7. CASE StaleExportWrites
  BY <1>7 DEF StaleExportWrites
<1>8. CASE SyncPartition /\ ~Load
  BY <1>8 DEF SyncPartition, SkipUnchanged, ForgetImport, NewGeneration, Clear,
     Export, ListBackup, Probe, ConfirmBackup, VerifyObjects, VerifySource, MatchTarget,
     SkipLoad, LoadRejected, ConfirmTarget, Finish
<1>9. CASE Faults
  BY <1>9 DEF Faults, Fail, ExportAbandoned, LoadAbandoned
<1>10. CASE UNCHANGED vars
  BY <1>10 DEF vars
<1>. QED
  BY <1>1, <1>2, <1>4, <1>5, <1>6, <1>7, <1>8, <1>9, <1>10 DEF Next, Environment

LEMMA RefinesNext == IInv /\ OnTime /\ [Next]_vars => [Promise!Next]_(Promise!vars)
<1>1. IInv /\ OnTime => ~overtaken /\ ~LateLoadCommits
  BY DEF IInv, KindInv, OnTime, LateLoadCommits
<1>. QED
  BY <1>1, KeepsPromise DEF Promised

(* Every behaviour of syncPartition, with the faults it may meet, is one   *)
(* of the promise: the target moves forward from snapshot to snapshot.     *)
THEOREM Implements ==
  ASSUME \A o \in Options : ~o.lateLoads
  PROVE  Spec => ImplementsReplica
<1>1. Init => Promise!Init
  BY RefinesInit
<1>2. IInv => OnTime
  BY StaysOnTime
<1>3. IInv /\ OnTime /\ [Next]_vars => [Promise!Next]_(Promise!vars)
  BY RefinesNext
<1>. QED
  BY <1>1, <1>2, <1>3, Invariance, PTL DEF Spec, ImplementsReplica, Promise!Spec

(* With late loads too, the target only goes back to older rows by the     *)
(* late commit itself, and the program's next load undoes that.            *)
THEOREM ForwardCorrect == Spec => RefreshesForward
<1>1. IInv /\ [Next]_vars => [Promised]_vars
  BY KeepsPromise
<1>2. [][Promised]_vars => RefreshesForward
  BY PTL DEF RefreshesForward, Promised
<1>. QED
  BY <1>1, <1>2, Invariance, PTL DEF Spec
=============================================================================
