-------------------------- MODULE FullTableProofs --------------------------
(***************************************************************************)
(* Proofs about FullTable, for any prefixes, contents, interval and faults.*)
(***************************************************************************)
EXTENDS FullTable, TLAPS

(***************************************************************************)
(* The inductive invariant.  Exports and overwrites that are still to      *)
(* write carry one whole content of the source.                            *)
(***************************************************************************)
Past == 1..content

PastInv ==
  /\ empties \subseteq Past
  /\ \A e \in staleExports : \E i \in Past : e.rows = RowsOf(i)
  /\ \A l \in late : l.content \in Past /\ l.rows = RowsOf(l.content)
  /\ begun \in 0..content /\ shown \in 0..content /\ promised \in 0..begun

(* From the export on the prefix holds the content exported and nothing    *)
(* stale will be written there, unless the content has no rows.            *)
Exporting == {"listBackup", "markOverwriting", "overwrite"}

BackupInv ==
  pc \in Exporting =>
    /\ snapshot \in begun..content
    /\ snapshot \in Past
    /\ \/ RowsOf(snapshot) = {}
       \/ store[gen] = RowsOf(snapshot) /\ \A e \in staleExports : e.gen # gen

(* During a run the target shows nothing newer than the content at its     *)
(* beginning, and nothing newer can still commit, until the run overwrites *)
(* it; what the run has loaded stays unless an overwrite of an earlier run *)
(* commits.                                                                *)
OnTimeInv ==
  /\ pc \notin {"idle", "succeeded", "failed"} =>
       shown <= begun /\ \A l \in late : l.content <= begun
  /\ pc = "succeeded" =>
       overtaken \/ target = <<>> \/ (shown >= begun /\ target = <<RowsOf(shown)>>)

(* The type invariant but for the row of the task, and the row.            *)
RowOK ==
  /\ task \in [phase : {"queued", "backing_up", "overwriting", "waiting", "error"}, error : BOOLEAN]
  /\ task.error <=> task.phase = "error"

StoreOK == store \in [Gens -> Rows] /\ staleExports \subseteq [gen : Gens, rows : Rows]

TargetOK == target \in Seq(Rows) /\ late \subseteq [rows : Rows, content : Contents]

StepOK ==
  /\ content \in Contents /\ empties \subseteq Contents
  /\ exists \in BOOLEAN /\ known \in BOOLEAN
  /\ wait \in 0..Interval
  /\ pc \in Steps
  /\ pc \in {"listBackup", "markOverwriting", "overwrite", "succeeded"} => snapshot \in Contents
  /\ gen \in Gens
  /\ snapshot \in 0..MaxContent
  /\ begun \in 0..MaxContent /\ promised \in 0..MaxContent /\ shown \in 0..MaxContent
  /\ overtaken \in BOOLEAN /\ faults \in 0..MaxFaults

IInv == TypeOK /\ PastInv /\ BackupInv /\ OnTimeInv /\ TargetWhole /\ SuccessSound

-----------------------------------------------------------------------------
LEMMA InitInv == Init => IInv
<1>. SUFFICES ASSUME Init PROVE IInv
  OBVIOUS
<1>. USE ConstantsAssumption DEF Init
<1>1. store \in [Gens -> Rows] /\ staleExports \subseteq [gen : Gens, rows : Rows]
  BY DEF Rows
<1>2. <<>> \in Seq(Rows) /\ <<{0}>> \in Seq(Rows)
  <2>1. {0} \in Rows
    BY DEF Rows
  <2>. QED
    BY <2>1
<1>3. StoreOK /\ TargetOK
  BY <1>1, <1>2 DEF StoreOK, TargetOK
<1>5. StepOK
  <2>1. content \in Contents /\ empties \subseteq Contents /\ pc \in Steps /\ exists \in BOOLEAN
    BY DEF Contents, Steps
  <2>5. known \in BOOLEAN /\ overtaken \in BOOLEAN
    BY Zenon
  <2>2. wait \in 0..Interval /\ faults \in 0..MaxFaults /\ snapshot \in 0..MaxContent
    OBVIOUS
  <2>3. begun \in 0..MaxContent /\ promised \in 0..MaxContent /\ shown \in 0..MaxContent
    OBVIOUS
  <2>4. gen \in Gens /\ pc = "idle"
    OBVIOUS
  <2>. QED
    BY <2>1, <2>2, <2>3, <2>4, <2>5, Zenon DEF StepOK
<1>7. RowOK
  <2>1. "queued" \in {"queued", "backing_up", "overwriting", "waiting", "error"}
    OBVIOUS
  <2>2. "queued" # "error"
    OBVIOUS
  <2>. QED
    BY <2>1, <2>2, SMT DEF RowOK
<1>4. PastInv /\ BackupInv /\ OnTimeInv /\ TargetWhole /\ SuccessSound
  BY DEF PastInv, Past, BackupInv, Exporting, OnTimeInv, TargetWhole, SuccessSound
<1>6. TypeOK
  BY <1>3, <1>5, <1>7 DEF TypeOK, StoreOK, TargetOK, StepOK, RowOK
<1>. QED
  BY <1>4, <1>6 DEF IInv

(* Sets of contents.                                                       *)
LEMMA RowSets ==
  /\ {} \in Rows
  /\ \A i \in Contents : RowsOf(i) \in Rows
  /\ \A S, T \in Rows : S \cup T \in Rows
  BY ConstantsAssumption DEF Rows, RowsOf, Contents

LEMMA Parts == TypeOK <=> StoreOK /\ TargetOK /\ StepOK /\ RowOK
  BY DEF TypeOK, StoreOK, TargetOK, StepOK, RowOK

LEMMA RowStep == IInv /\ [Next]_vars => RowOK'
<1>. SUFFICES ASSUME IInv, [Next]_vars PROVE RowOK'
  OBVIOUS
<1>1. RowOK
  BY Parts DEF IInv
<1>2. CASE MarkBackingUp \/ MarkOverwriting \/ Succeed \/ RecordError
  <2>1. PICK ph \in {"backing_up", "overwriting", "waiting", "error"} :
             task' = [phase |-> ph, error |-> (ph = "error")]
    BY <1>2 DEF MarkBackingUp, MarkOverwriting, Succeed, RecordError
  <2>2. task'.error = (ph = "error") /\ task'.phase = ph
    BY <2>1
  <2>3. task' \in [phase : {"queued", "backing_up", "overwriting", "waiting", "error"}, error : BOOLEAN]
    BY <2>1
  <2>. QED
    BY <2>2, <2>3, Zenon DEF RowOK
<1>3. CASE task' = task
  BY <1>1, <1>3 DEF RowOK
<1>. QED
  BY <1>2, <1>3
    DEF Next, Environment, Run, Faults, Fault, vars, sourceVars, storeVars, targetVars,
        taskVars, runVars, SourceChange, Tick, TargetDropped, StaleExportWrites,
        LateLoadCommits, Begin, ListTables, CreateTarget, CompareColumns, Clear, Probe, Export,
        ListBackup, Overwrite, CallFails, Crash, ExportAbandoned, OverwriteAbandoned

LEMMA StoreStep == IInv /\ [Next]_vars => StoreOK'
<1>. SUFFICES ASSUME IInv, [Next]_vars PROVE StoreOK'
  OBVIOUS
<1>. USE ConstantsAssumption DEF IInv, sourceVars, storeVars, targetVars, taskVars, runVars
<1>1. CASE StaleExportWrites
  <2>1. PICK e \in staleExports : /\ staleExports' = staleExports \ {e}
                                 /\ store' = [store EXCEPT ![e.gen] = store[e.gen] \cup e.rows]
    BY <1>1, Zenon DEF StaleExportWrites
  <2>2. e.gen \in Gens /\ e.rows \in Rows
    BY Parts DEF StoreOK
  <2>3. store[e.gen] \cup e.rows \in Rows
    BY <2>2, Parts, RowSets DEF StoreOK
  <2>4. store' \in [Gens -> Rows]
    BY <2>1, <2>3, Parts DEF StoreOK
  <2>5. staleExports' \subseteq [gen : Gens, rows : Rows]
    BY <2>1, Parts DEF StoreOK
  <2>. QED
    BY <2>4, <2>5 DEF StoreOK
<1>2. CASE Clear
  BY <1>2, Parts, RowSets DEF Clear, StoreOK
<1>3. CASE Export
  <2>1. \A g \in Gens : store[g] \cup RowsOf(content) \in Rows
    BY Parts, RowSets DEF StoreOK, StepOK
  <2>. QED
    BY <1>3, <2>1, Parts DEF Export, StoreOK
<1>4. CASE ExportAbandoned
  <2>1. \A g \in Gens : [gen |-> g, rows |-> RowsOf(content)] \in [gen : Gens, rows : Rows]
    BY Parts, RowSets DEF StepOK
  <2>. QED
    BY <1>4, <2>1, Parts DEF ExportAbandoned, StoreOK
<1>5. CASE SourceChange \/ Tick \/ TargetDropped \/ LateLoadCommits \/ Begin \/ ListTables \/
           MarkBackingUp \/ CreateTarget \/ CompareColumns \/ Probe \/ ListBackup \/
           MarkOverwriting \/ Overwrite \/ Succeed \/ RecordError \/ CallFails \/ Crash \/
           OverwriteAbandoned
  BY <1>5, Parts DEF SourceChange, Tick, TargetDropped, LateLoadCommits, Begin, ListTables,
     MarkBackingUp, CreateTarget, CompareColumns, Probe, ListBackup, MarkOverwriting, Overwrite,
     Succeed, RecordError, CallFails, Crash, OverwriteAbandoned, Fault, StoreOK
<1>6. CASE UNCHANGED vars
  BY <1>6, Parts DEF vars, StoreOK
<1>. QED
  BY <1>1, <1>2, <1>3, <1>4, <1>5, <1>6 DEF Next, Environment, Run, Faults

LEMMA TargetStep == IInv /\ [Next]_vars => TargetOK'
<1>. SUFFICES ASSUME IInv, [Next]_vars PROVE TargetOK'
  OBVIOUS
<1>. USE ConstantsAssumption DEF IInv, sourceVars, storeVars, targetVars, taskVars, runVars
<1>1. CASE Overwrite
  <2>1. LoadRows \in Rows
    BY <1>1, Parts, RowSets DEF Overwrite, LoadRows, StoreOK, StepOK
  <2>2. <<LoadRows>> \in Seq(Rows)
    BY <2>1
  <2>. QED
    BY <1>1, <2>2, Parts DEF Overwrite, Overwritten, TargetOK
<1>2. CASE LateLoadCommits
  <2>1. PICK l \in late : target' \in {target, <<l.rows>>} /\ late' = late \ {l}
    BY <1>2 DEF LateLoadCommits, Overwritten
  <2>2. l.rows \in Rows
    BY Parts DEF TargetOK
  <2>3. <<l.rows>> \in Seq(Rows)
    BY <2>2
  <2>. QED
    BY <2>1, <2>3, Parts DEF TargetOK
<1>3. CASE OverwriteAbandoned
  <2>1. LoadRows \in Rows /\ snapshot \in Contents
    BY <1>3, Parts, RowSets DEF OverwriteAbandoned, LoadRows, StoreOK, StepOK
  <2>2. [rows |-> LoadRows, content |-> snapshot] \in [rows : Rows, content : Contents]
    BY <2>1
  <2>. QED
    BY <1>3, <2>2, Parts DEF OverwriteAbandoned, TargetOK
<1>4. CASE TargetDropped
  <2>1. <<>> \in Seq(Rows)
    OBVIOUS
  <2>. QED
    BY <1>4, <2>1, Parts DEF TargetDropped, TargetOK
<1>5. CASE SourceChange \/ Tick \/ StaleExportWrites \/ Begin \/ ListTables \/ MarkBackingUp \/
           CreateTarget \/ CompareColumns \/ Clear \/ Probe \/ Export \/ ListBackup \/
           MarkOverwriting \/ Succeed \/ RecordError \/ CallFails \/ Crash \/ ExportAbandoned
  BY <1>5, Parts DEF SourceChange, Tick, StaleExportWrites, Begin, ListTables, MarkBackingUp,
     CreateTarget, CompareColumns, Clear, Probe, Export, ListBackup, MarkOverwriting, Succeed,
     RecordError, CallFails, Crash, ExportAbandoned, Fault, TargetOK
<1>6. CASE UNCHANGED vars
  BY <1>6, Parts DEF vars, TargetOK
<1>. QED
  BY <1>1, <1>2, <1>3, <1>4, <1>5, <1>6 DEF Next, Environment, Run, Faults

LEMMA StepStep == IInv /\ [Next]_vars => StepOK'
<1>. SUFFICES ASSUME IInv, [Next]_vars PROVE StepOK'
  OBVIOUS
<1>. USE ConstantsAssumption DEF IInv, Steps, Contents, sourceVars, storeVars, targetVars,
     taskVars, runVars
<1>1. CASE LateLoadCommits
  <2>1. shown' \in 0..MaxContent
    BY <1>1, Parts DEF LateLoadCommits, StepOK, TargetOK
  <2>. QED
    BY <1>1, <2>1, Parts DEF LateLoadCommits, StepOK
<1>2. CASE SourceChange \/ Tick \/ Succeed \/ Begin
  BY <1>2, Parts DEF SourceChange, Tick, Succeed, Begin, StepOK
<1>3. CASE TargetDropped
  <2>1. exists' \in BOOLEAN /\ known' \in BOOLEAN
    BY <1>3, Parts DEF TargetDropped, StepOK
  <2>2. faults' \in 0..MaxFaults
    BY <1>3, Parts DEF TargetDropped, StepOK
  <2>. QED
    BY <1>3, <2>1, <2>2, Parts DEF TargetDropped, StepOK
<1>4. CASE StaleExportWrites
  BY <1>4, Parts DEF StaleExportWrites, StepOK
<1>5. CASE ExportAbandoned \/ OverwriteAbandoned \/ CallFails \/ Crash
  BY <1>5, Parts DEF ExportAbandoned, OverwriteAbandoned, CallFails, Crash, StepOK, Fault
<1>6. CASE Overwrite
  <2>1. overtaken' \in BOOLEAN
    <3>1. CASE exists
      BY <1>6, <3>1, Zenon DEF Overwrite
    <3>2. CASE ~exists
      BY <1>6, <3>2, Parts DEF Overwrite, StepOK
    <3>. QED
      BY <3>1, <3>2
  <2>2. shown' \in 0..MaxContent /\ pc' \in Steps
    BY <1>6, Parts DEF Overwrite, StepOK
  <2>3. pc' \in {"listBackup", "markOverwriting", "overwrite", "succeeded"} => snapshot \in Contents
    BY <1>6, Parts DEF Overwrite, StepOK
  <2>. QED
    BY <1>6, <2>1, <2>2, <2>3, Parts DEF Overwrite, StepOK
<1>8. CASE Probe \/ Export
  BY <1>8, Parts DEF Probe, Export, StepOK
<1>7. CASE ListTables \/ MarkBackingUp \/ CreateTarget \/ CompareColumns \/ Clear \/ ListBackup
           \/ MarkOverwriting \/ RecordError
  BY <1>7, Parts DEF ListTables, MarkBackingUp, CreateTarget, CompareColumns, Clear, ListBackup,
     MarkOverwriting, RecordError, Fault, StepOK
<1>9. CASE UNCHANGED vars
  BY <1>9, Parts DEF vars, StepOK
<1>. QED
  BY <1>1, <1>2, <1>3, <1>4, <1>5, <1>6, <1>7, <1>8, <1>9 DEF Next, Environment, Run, Faults

(* The rows of a content do not change any more.                           *)
LEMMA PastRows ==
  ASSUME IInv, [Next]_vars, NEW i \in Past
  PROVE  RowsOf(i)' = RowsOf(i) /\ i \in Past'
<1>. USE ConstantsAssumption DEF IInv, TypeOK, Contents, Past, RowsOf
<1>1. CASE SourceChange
  BY <1>1 DEF SourceChange
<1>2. CASE UNCHANGED sourceVars
  BY <1>2 DEF sourceVars
<1>3. [Next]_vars => SourceChange \/ UNCHANGED sourceVars
  BY DEF Next, Environment, Run, Faults, Fault, vars, sourceVars, Tick, TargetDropped,
     StaleExportWrites, LateLoadCommits, Begin, ListTables, MarkBackingUp, CreateTarget,
     CompareColumns, Clear, Probe, Export, ListBackup, MarkOverwriting, Overwrite, Succeed,
     RecordError, CallFails, Crash, ExportAbandoned, OverwriteAbandoned
<1>. QED
  BY <1>1, <1>2, <1>3

LEMMA PastStep == IInv /\ [Next]_vars => PastInv'
<1>. SUFFICES ASSUME IInv, [Next]_vars PROVE PastInv'
  OBVIOUS
<1>. USE ConstantsAssumption DEF IInv, RowsOf, Past, TypeOK, PastInv, Contents, sourceVars,
     storeVars, targetVars, taskVars, runVars
<1>1. CASE SourceChange
  BY <1>1, PastRows DEF SourceChange, Past
<1>2. CASE ExportAbandoned
  BY <1>2 DEF ExportAbandoned, Fault, Past, RowsOf
<1>3. CASE OverwriteAbandoned
  BY <1>3 DEF OverwriteAbandoned, Fault, Past, BackupInv, Exporting, LoadRows
<1>4. CASE Tick
  BY <1>4 DEF Tick
<1>5. CASE Begin
  BY <1>5 DEF Begin
<1>6. CASE Succeed
  BY <1>6 DEF Succeed
<1>7. CASE TargetDropped
  BY <1>7 DEF TargetDropped
<1>8. CASE StaleExportWrites
  BY <1>8 DEF StaleExportWrites
<1>9. CASE LateLoadCommits
  BY <1>9 DEF LateLoadCommits, Past, RowsOf
<1>10. CASE Overwrite
  BY <1>10 DEF Overwrite, Past, RowsOf, BackupInv, Exporting
<1>11. CASE ListTables \/ MarkBackingUp \/ CreateTarget \/ CompareColumns \/ Clear \/ Probe \/
            Export \/ ListBackup \/ MarkOverwriting \/ RecordError \/ CallFails \/ Crash
  BY <1>11 DEF ListTables, MarkBackingUp, CreateTarget, CompareColumns, Clear, Probe, Export,
     ListBackup, MarkOverwriting, RecordError, CallFails, Crash, Fault
<1>12. CASE UNCHANGED vars
  BY <1>12 DEF vars
<1>. QED
  BY <1>1, <1>2, <1>3, <1>4, <1>5, <1>6, <1>7, <1>8, <1>9, <1>10, <1>11, <1>12 DEF Next, Environment, Run, Faults

LEMMA BackupStep == IInv /\ [Next]_vars => BackupInv'
<1>. SUFFICES ASSUME IInv, [Next]_vars PROVE BackupInv'
  OBVIOUS
<1>. USE ConstantsAssumption DEF IInv, RowsOf, Past, TypeOK, BackupInv, Exporting, Contents,
     sourceVars, storeVars, targetVars, taskVars, runVars
<1>1. CASE SourceChange
  BY <1>1, PastRows DEF SourceChange, Past
<1>2. CASE Probe \/ Export
  BY <1>2 DEF Probe, Export, PastInv, Past, RowsOf, Unused
<1>3. CASE StaleExportWrites
  BY <1>3 DEF StaleExportWrites, Past, RowsOf
<1>4. CASE Tick \/ TargetDropped \/ LateLoadCommits \/ Begin \/ ListTables \/ MarkBackingUp \/
           CreateTarget \/ CompareColumns \/ Clear \/ ListBackup \/ MarkOverwriting \/ Overwrite
           \/ Succeed \/ RecordError \/ CallFails \/ Crash \/ ExportAbandoned \/
           OverwriteAbandoned
  BY <1>4 DEF Tick, TargetDropped, LateLoadCommits, Begin, ListTables, MarkBackingUp,
     CreateTarget, CompareColumns, Clear, ListBackup, MarkOverwriting, Overwrite, Succeed,
     RecordError, CallFails, Crash, ExportAbandoned, OverwriteAbandoned, Fault
<1>5. CASE UNCHANGED vars
  BY <1>5 DEF vars
<1>. QED
  BY <1>1, <1>2, <1>3, <1>4, <1>5 DEF Next, Environment, Run, Faults

LEMMA OnTimeStep == IInv /\ [Next]_vars => OnTimeInv'
<1>. SUFFICES ASSUME IInv, [Next]_vars PROVE OnTimeInv'
  OBVIOUS
<1>. USE ConstantsAssumption DEF IInv, RowsOf, Past, TypeOK, OnTimeInv, Contents, sourceVars,
     storeVars, targetVars, taskVars, runVars
<1>1. CASE SourceChange
  BY <1>1, PastRows DEF SourceChange, PastInv, Past
<1>2. CASE Begin
  BY <1>2 DEF Begin, PastInv
<1>3. CASE LateLoadCommits
  BY <1>3 DEF LateLoadCommits
<1>4. CASE OverwriteAbandoned
  BY <1>4 DEF OverwriteAbandoned, Fault
<1>5. CASE TargetDropped
  BY <1>5 DEF TargetDropped
<1>6. CASE Overwrite
  BY <1>6 DEF Overwrite, BackupInv, Exporting, Past, LoadRows, Overwritten, RowsOf
<1>7. CASE Tick \/ StaleExportWrites \/ ListTables \/ MarkBackingUp \/ CreateTarget \/
           CompareColumns \/ Clear \/ Probe \/ Export \/ ListBackup \/ MarkOverwriting \/
           Succeed \/ RecordError \/ CallFails \/ Crash \/ ExportAbandoned
  BY <1>7 DEF Tick, StaleExportWrites, ListTables, MarkBackingUp, CreateTarget, CompareColumns,
     Clear, Probe, Export, ListBackup, MarkOverwriting, Succeed, RecordError, CallFails, Crash,
     ExportAbandoned, Fault
<1>8. CASE UNCHANGED vars
  BY <1>8 DEF vars
<1>. QED
  BY <1>1, <1>2, <1>3, <1>4, <1>5, <1>6, <1>7, <1>8 DEF Next, Environment, Run, Faults

LEMMA WholeStep == IInv /\ [Next]_vars => TargetWhole'
<1>. SUFFICES ASSUME IInv, [Next]_vars PROVE TargetWhole'
  OBVIOUS
<1>. USE ConstantsAssumption DEF IInv, RowsOf, Past, TypeOK, TargetWhole, sourceVars, storeVars,
     targetVars, taskVars, runVars
<1>1. CASE SourceChange
  BY <1>1, PastRows DEF SourceChange, Past, Contents
<1>2. CASE LateLoadCommits
  BY <1>2 DEF LateLoadCommits, PastInv, Past, Overwritten, RowsOf
<1>3. CASE Overwrite
  BY <1>3 DEF Overwrite, BackupInv, Exporting, Past, LoadRows, Overwritten, RowsOf
<1>4. CASE TargetDropped
  BY <1>4 DEF TargetDropped
<1>5. CASE Tick \/ StaleExportWrites \/ Begin \/ ListTables \/ MarkBackingUp \/ CreateTarget \/
           CompareColumns \/ Clear \/ Probe \/ Export \/ ListBackup \/ MarkOverwriting \/
           Succeed \/ RecordError \/ CallFails \/ Crash \/ ExportAbandoned \/ OverwriteAbandoned
  BY <1>5 DEF Tick, StaleExportWrites, Begin, ListTables, MarkBackingUp, CreateTarget,
     CompareColumns, Clear, Probe, Export, ListBackup, MarkOverwriting, Succeed, RecordError,
     CallFails, Crash, ExportAbandoned, OverwriteAbandoned, Fault
<1>6. CASE UNCHANGED vars
  BY <1>6 DEF vars
<1>. QED
  BY <1>1, <1>2, <1>3, <1>4, <1>5, <1>6 DEF Next, Environment, Run, Faults

LEMMA SuccessStep == IInv /\ [Next]_vars => SuccessSound'
<1>. SUFFICES ASSUME IInv, [Next]_vars PROVE SuccessSound'
  OBVIOUS
<1>. USE ConstantsAssumption DEF IInv, RowsOf, Past, TypeOK, SuccessSound, Contents, sourceVars,
     storeVars, targetVars, taskVars, runVars
<1>1. CASE SourceChange
  BY <1>1, PastRows DEF SourceChange, PastInv, Past
<1>2. CASE LateLoadCommits
  BY <1>2 DEF LateLoadCommits, OnTimeInv
<1>3. CASE Overwrite
  BY <1>3 DEF Overwrite, PastInv, BackupInv, Exporting, Past, LoadRows, Overwritten, RowsOf
<1>4. CASE Succeed
  BY <1>4 DEF Succeed, OnTimeInv, RowsOf
<1>5. CASE TargetDropped
  BY <1>5 DEF TargetDropped
<1>6. CASE Tick \/ StaleExportWrites \/ Begin \/ ListTables \/ MarkBackingUp \/ CreateTarget \/
           CompareColumns \/ Clear \/ Probe \/ Export \/ ListBackup \/ MarkOverwriting \/
           RecordError \/ CallFails \/ Crash \/ ExportAbandoned \/ OverwriteAbandoned
  BY <1>6 DEF Tick, StaleExportWrites, Begin, ListTables, MarkBackingUp, CreateTarget,
     CompareColumns, Clear, Probe, Export, ListBackup, MarkOverwriting, RecordError, CallFails,
     Crash, ExportAbandoned, OverwriteAbandoned, Fault
<1>7. CASE UNCHANGED vars
  BY <1>7 DEF vars
<1>. QED
  BY <1>1, <1>2, <1>3, <1>4, <1>5, <1>6, <1>7 DEF Next, Environment, Run, Faults

LEMMA TypeStep == IInv /\ [Next]_vars => TypeOK'
<1>. SUFFICES ASSUME IInv, [Next]_vars PROVE TypeOK'
  OBVIOUS
<1>1. StoreOK' /\ TargetOK' /\ StepOK' /\ RowOK'
  BY StoreStep, TargetStep, StepStep, RowStep
<1>. QED
  BY <1>1, Zenon DEF TypeOK, StoreOK, TargetOK, StepOK, RowOK

LEMMA Invariance == Spec => []IInv
<1>1. IInv /\ [Next]_vars => IInv'
  BY TypeStep, PastStep, BackupStep, OnTimeStep, WholeStep, SuccessStep DEF IInv
<1>. QED
  BY InitInv, <1>1, PTL DEF Spec

(* The row, the servers and the run keep their types: the row holds an     *)
(* error in its phase only, and a run that loads has a snapshot.           *)
THEOREM TypeCorrect == Spec => []TypeOK
  BY Invariance, PTL DEF IInv

(* The target holds what it held before or one whole content, each row     *)
(* once, whatever fails and whatever commits late.                         *)
THEOREM TargetCorrect == Spec => []TargetWhole
  BY Invariance, PTL DEF IInv

(* A recorded success is a content at least as new as its run's beginning. *)
THEOREM SuccessCorrect == Spec => []SuccessSound
  BY Invariance, PTL DEF IInv

(* Every step but a late overwrite's is one of Replica: whatever commits   *)
(* late, a run takes the target only to a content at least as new.         *)
THEOREM RefreshesCorrect == Spec => RefreshesForward
<1>1. IInv /\ [Next]_vars => [LateLoadCommits \/ Promise!Next \/ UNCHANGED Promise!vars]_vars
  <2>. SUFFICES ASSUME IInv, [Next]_vars, ~LateLoadCommits
                PROVE  Promise!Next \/ UNCHANGED Promise!vars
    OBVIOUS
  <2>. USE DEF Promise!vars, sourceVars, storeVars, targetVars, taskVars, runVars
  <2>1. CASE SourceChange
    BY <2>1 DEF SourceChange, Promise!Next, Promise!Write
  <2>2. CASE TargetDropped
    BY <2>2 DEF TargetDropped, Promise!Next, Promise!Lose
  <2>3. CASE Overwrite
    <3>1. snapshot \in shown..content /\ snapshot > 0 /\ LoadRows = RowsOf(snapshot)
      BY <2>3 DEF Overwrite, IInv, TypeOK, Contents, PastInv, Past, BackupInv, Exporting,
                  OnTimeInv, LoadRows
    <3>. QED
      BY <2>3, <3>1 DEF Overwrite, Overwritten, RowsOf, Promise!Next, Promise!Refresh,
                        Promise!Rows
  <2>4. CASE UNCHANGED <<sourceVars, target, shown>>
    BY <2>4
  <2>. QED
    BY <2>1, <2>2, <2>3, <2>4
    DEF Next, Environment, Run, Faults, Fault, vars, Tick, StaleExportWrites, Begin, ListTables,
        MarkBackingUp, CreateTarget, CompareColumns, Clear, Probe, Export, ListBackup,
        MarkOverwriting, Succeed, RecordError, CallFails, Crash, ExportAbandoned,
        OverwriteAbandoned
<1>. QED
  BY Invariance, <1>1, PTL DEF Spec, RefreshesForward
=============================================================================
