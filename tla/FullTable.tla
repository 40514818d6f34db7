----------------------------- MODULE FullTable -----------------------------
(***************************************************************************)
(* A recurring whole-table task: the part of cycleManagedHourly (hourly.go)*)
(* that runs due full-table tasks, and syncFullTable (fulltable.go), which *)
(* exports the table, overwrites the target table with it and keeps no     *)
(* checkpoint but the time of its last success and a phase.                *)
(*                                                                         *)
(* Tasks run one after another and share only the process, so one task is  *)
(* modelled; other tasks are time that passes while pc is "idle".  Every   *)
(* step is one call to a server or one update of the task's row.           *)
(*                                                                         *)
(* The content of the source table is a number, counted up at each change. *)
(* The rows of content i are the set {i}, or {} if the table was empty.    *)
(*                                                                         *)
(* A definition with an underscore in its name is a slip one could make in *)
(* the definition after it; the properties tell the two apart.             *)
(***************************************************************************)
EXTENDS Naturals, Sequences, FiniteSets

CONSTANTS Gens,         \* names of export prefixes, full_table/full/<random id>/
          Interval,     \* hours from one success to the next run
          MaxContent,   \* bound: contents the source table goes through
          MaxFaults,    \* bound: errors, crashes and external drops
          MaxStale      \* bound: abandoned OUTFILE statements in flight

ASSUME ConstantsAssumption ==
  /\ Interval \in Nat \ {0}
  /\ MaxContent \in Nat \ {0} /\ MaxFaults \in Nat /\ MaxStale \in Nat

Contents == 1..MaxContent
Rows     == SUBSET (0..MaxContent)

VARIABLES
  content,      \* the content of the source table now
  empties,      \* the contents without rows
  store,        \* object store: prefix -> contents with files there
  staleExports, \* OUTFILE statements given up by the client, still to write
  exists,       \* whether the target table exists
  target,       \* loads the target table's rows come from, <<>> before any
  late,         \* overwrites given up by the client, still to commit
  task,         \* the task's row
  wait,         \* hours until the task is due
  pc,           \* next step of the run, "idle" between runs
  known,        \* whether the target table was there when the run listed it
  gen,          \* prefix of the run
  snapshot,     \* content the run exported, or found to be empty
  begun,        \* history: content at the time the run began
  promised,     \* history: begun, of the last run recorded as a success
  shown,        \* history: content the target was last overwritten with
  overtaken,    \* history: that overwrite had been given up, and committed late
  faults

sourceVars == <<content, empties>>
storeVars  == <<store, staleExports>>
targetVars == <<exists, target, late, shown, overtaken>>
taskVars   == <<task, wait, promised>>
runVars    == <<known, gen, snapshot, begun>>
vars == <<sourceVars, storeVars, targetVars, taskVars, runVars, pc, faults>>

RowsOf(i) == {i} \ empties

Init == /\ content = 1
        /\ empties \in SUBSET {1}
        /\ store = [g \in Gens |-> {}]
        /\ staleExports = {}
        /\ exists \in BOOLEAN
        /\ target \in {<<>>} \cup (IF exists THEN {<<{0}>>} ELSE {})
        /\ late = {}
        /\ task = [phase |-> "queued", error |-> FALSE]
        /\ wait = 0
        /\ pc = "idle"
        /\ known = FALSE
        /\ gen \in Gens
        /\ snapshot = 0
        /\ begun = 0
        /\ promised = 0
        /\ shown = 0
        /\ overtaken = FALSE
        /\ faults = 0

-----------------------------------------------------------------------------
(***************************************************************************)
(* The surroundings.                                                       *)
(***************************************************************************)
SourceChange ==
  /\ content < MaxContent
  /\ content' = content + 1
  /\ empties' \in {empties, empties \cup {content + 1}}
  /\ UNCHANGED <<storeVars, targetVars, taskVars, runVars, pc, faults>>

Tick ==
  /\ wait > 0
  /\ wait' = wait - 1
  /\ UNCHANGED <<sourceVars, storeVars, targetVars, task, promised, runVars, pc, faults>>

TargetDropped ==
  /\ faults < MaxFaults
  /\ faults' = faults + 1
  /\ exists
  /\ exists' = FALSE
  /\ target' = <<>>
  /\ overtaken' = FALSE
  /\ UNCHANGED <<sourceVars, storeVars, late, shown, taskVars, runVars, pc>>

StaleExportWrites ==
  \E e \in staleExports :
    /\ staleExports' = staleExports \ {e}
    /\ store' = [store EXCEPT ![e.gen] = @ \cup e.rows]
    /\ UNCHANGED <<sourceVars, targetVars, taskVars, runVars, pc, faults>>

(* INSERT OVERWRITE TABLE replaces all rows at once.                       *)
Overwritten_Appended(rows) == Append(target, rows)

Overwritten(rows) == <<rows>>

LateLoadCommits ==
  \E l \in late :
    /\ late' = late \ {l}
    /\ IF exists
       THEN target' = Overwritten(l.rows) /\ shown' = l.content /\ overtaken' = TRUE
       ELSE UNCHANGED <<target, shown, overtaken>>
    /\ UNCHANGED <<sourceVars, storeVars, exists, taskVars, runVars, pc, faults>>

-----------------------------------------------------------------------------
(***************************************************************************)
(* One run of the task.                                                    *)
(***************************************************************************)

(* fullTableDue: at once if the task never succeeded, else when its        *)
(* interval is over.                                                       *)
Due_NotAfterError == wait = 0 /\ task.phase # "error"

Due == wait = 0

Begin ==
  /\ pc = "idle"
  /\ Due
  /\ begun' = content
  /\ pc' = "listTables"
  /\ UNCHANGED <<sourceVars, storeVars, targetVars, taskVars, known, gen, snapshot, faults>>

ListTables ==
  /\ pc = "listTables"
  /\ known' = exists
  /\ pc' = "markBackingUp"
  /\ UNCHANGED <<sourceVars, storeVars, targetVars, taskVars, gen, snapshot, begun, faults>>

MarkBackingUp_KeepsError ==
  /\ pc = "markBackingUp"
  /\ task' = [task EXCEPT !.phase = "backing_up"]
  /\ pc' = IF known THEN "columns" ELSE "create"
  /\ UNCHANGED <<sourceVars, storeVars, targetVars, wait, promised, runVars, faults>>

MarkBackingUp ==
  /\ pc = "markBackingUp"
  /\ task' = [phase |-> "backing_up", error |-> FALSE]
  /\ pc' = IF known THEN "columns" ELSE "create"
  /\ UNCHANGED <<sourceVars, storeVars, targetVars, wait, promised, runVars, faults>>

CreateTarget ==
  /\ pc = "create"
  /\ exists' = TRUE
  /\ pc' = "columns"
  /\ UNCHANGED <<sourceVars, storeVars, target, late, shown, overtaken, taskVars, runVars, faults>>

(* The columns of both tables are compared; a dropped table has none.      *)
CompareColumns ==
  /\ pc = "columns"
  /\ pc' = IF exists THEN "clear" ELSE "failed"
  /\ UNCHANGED <<sourceVars, storeVars, targetVars, taskVars, runVars, faults>>

(* The backups of earlier runs are removed.                                *)
Clear ==
  /\ pc = "clear"
  /\ store' = [g \in Gens |-> {}]
  /\ pc' = "probe"
  /\ UNCHANGED <<sourceVars, staleExports, targetVars, taskVars, runVars, faults>>

(* An empty table is not exported.                                         *)
Probe ==
  /\ pc = "probe"
  /\ IF RowsOf(content) = {}
     THEN snapshot' = content /\ pc' = "markOverwriting"
     ELSE pc' = "export" /\ UNCHANGED snapshot
  /\ UNCHANGED <<sourceVars, storeVars, targetVars, taskVars, known, gen, begun, faults>>

(* The prefix is drawn at random: nothing was or will be written to it.    *)
Unused_Fixed(g) == g = CHOOSE h \in Gens : TRUE

Unused(g) == store[g] = {} /\ \A e \in staleExports : e.gen # g

Export ==
  /\ pc = "export"
  /\ \E g \in Gens :
       /\ Unused(g)
       /\ gen' = g
       /\ store' = [store EXCEPT ![g] = @ \cup RowsOf(content)]
  /\ snapshot' = content
  /\ pc' = "listBackup"
  /\ UNCHANGED <<sourceVars, staleExports, targetVars, taskVars, known, begun, faults>>

(* The table was not empty when probed, so there must be files.            *)
ListBackup ==
  /\ pc = "listBackup"
  /\ pc' = IF store[gen] = {} THEN "failed" ELSE "markOverwriting"
  /\ UNCHANGED <<sourceVars, storeVars, targetVars, taskVars, runVars, faults>>

MarkOverwriting ==
  /\ pc = "markOverwriting"
  /\ task' = [phase |-> "overwriting", error |-> FALSE]
  /\ pc' = "overwrite"
  /\ UNCHANGED <<sourceVars, storeVars, targetVars, wait, promised, runVars, faults>>

(* The statement reads every file under the prefix, or is an empty select. *)
LoadRows == IF RowsOf(snapshot) = {} THEN {} ELSE store[gen]

Overwrite ==
  /\ pc = "overwrite"
  /\ IF exists
     THEN /\ target' = Overwritten(LoadRows) /\ shown' = snapshot /\ overtaken' = FALSE
          /\ pc' = "succeeded"
     ELSE pc' = "failed" /\ UNCHANGED <<target, shown, overtaken>>
  /\ UNCHANGED <<sourceVars, storeVars, exists, late, taskVars, runVars, faults>>

(* The result goes to the row; the interval starts over after a success.   *)
Succeed ==
  /\ pc = "succeeded"
  /\ task' = [phase |-> "waiting", error |-> FALSE]
  /\ wait' = Interval
  /\ promised' = begun
  /\ pc' = "idle"
  /\ UNCHANGED <<sourceVars, storeVars, targetVars, runVars, faults>>

RecordError_Completed ==
  /\ pc = "failed"
  /\ task' = [phase |-> "error", error |-> TRUE]
  /\ wait' = Interval
  /\ promised' = begun
  /\ pc' = "idle"
  /\ UNCHANGED <<sourceVars, storeVars, targetVars, runVars, faults>>

RecordError ==
  /\ pc = "failed"
  /\ task' = [phase |-> "error", error |-> TRUE]
  /\ pc' = "idle"
  /\ UNCHANGED <<sourceVars, storeVars, targetVars, wait, promised, runVars, faults>>

-----------------------------------------------------------------------------
(***************************************************************************)
(* A call that fails, or an overwrite whose answer is lost, is recorded as *)
(* an error of the task; a crash, or a row that cannot be saved, ends the  *)
(* process and leaves the row as it is.                                    *)
(***************************************************************************)
Fault == faults < MaxFaults /\ faults' = faults + 1

CallFails ==
  /\ Fault
  /\ pc \in {"listTables", "create", "columns", "clear", "probe", "export", "listBackup",
             "overwrite", "succeeded"}
  /\ pc' = "failed"
  /\ UNCHANGED <<sourceVars, storeVars, targetVars, taskVars, runVars>>

Crash ==
  /\ Fault
  /\ pc # "idle"
  /\ pc' = "idle"
  /\ UNCHANGED <<sourceVars, storeVars, targetVars, taskVars, runVars>>

(* A statement may run on in the server after its client is gone.          *)
ExportAbandoned ==
  /\ Fault
  /\ pc = "export"
  /\ Cardinality(staleExports) < MaxStale
  /\ \E g \in Gens :
       /\ Unused(g)
       /\ staleExports' = staleExports \cup {[gen |-> g, rows |-> RowsOf(content)]}
  /\ pc' \in {"failed", "idle"}
  /\ UNCHANGED <<sourceVars, store, targetVars, taskVars, runVars>>

OverwriteAbandoned ==
  /\ Fault
  /\ pc = "overwrite"
  /\ late' = late \cup {[rows |-> LoadRows, content |-> snapshot]}
  /\ pc' \in {"failed", "idle"}
  /\ UNCHANGED <<sourceVars, storeVars, exists, target, shown, overtaken, taskVars, runVars>>

-----------------------------------------------------------------------------
Environment == SourceChange \/ TargetDropped \/ StaleExportWrites \/ LateLoadCommits

Run == \/ Begin \/ ListTables \/ MarkBackingUp \/ CreateTarget \/ CompareColumns
       \/ Clear \/ Probe \/ Export \/ ListBackup \/ MarkOverwriting \/ Overwrite
       \/ Succeed \/ RecordError

Faults == CallFails \/ Crash \/ ExportAbandoned \/ OverwriteAbandoned

Next == Environment \/ Tick \/ Run \/ Faults

Spec == Init /\ [][Next]_vars

(* Time passes, and the service runs one cycle after another; a prefix not *)
(* in use can always be drawn.                                             *)
FairSpec == Spec /\ WF_vars(Tick) /\ WF_vars(Run)

-----------------------------------------------------------------------------
Steps == {"idle", "listTables", "markBackingUp", "create", "columns", "clear", "probe",
          "export", "listBackup", "markOverwriting", "overwrite", "succeeded", "failed"}

(* The type invariant; a run in its later steps has a snapshot, and the    *)
(* row holds an error message in phase "error" only.                       *)
TypeOK ==
  /\ content \in Contents
  /\ empties \subseteq Contents
  /\ store \in [Gens -> Rows]
  /\ staleExports \subseteq [gen : Gens, rows : Rows]
  /\ exists \in BOOLEAN
  /\ target \in Seq(Rows)
  /\ late \subseteq [rows : Rows, content : Contents]
  /\ task \in [phase : {"queued", "backing_up", "overwriting", "waiting", "error"}, error : BOOLEAN]
  /\ task.error <=> task.phase = "error"
  /\ wait \in 0..Interval
  /\ pc \in Steps
  /\ pc \in {"listBackup", "markOverwriting", "overwrite", "succeeded"} => snapshot \in Contents
  /\ known \in BOOLEAN
  /\ gen \in Gens
  /\ snapshot \in 0..MaxContent
  /\ begun \in 0..MaxContent /\ promised \in 0..MaxContent /\ shown \in 0..MaxContent
  /\ overtaken \in BOOLEAN
  /\ faults \in 0..MaxFaults

(* The target table holds what it held before, or one whole content of the *)
(* source, each row once, whatever fails and whatever commits late.        *)
TargetWhole ==
  \/ target \in {<<>>, <<{0}>>}
  \/ \E i \in 1..content : target = <<RowsOf(i)>>

(* After a recorded success the target shows a content at least as new as  *)
(* the source had when that run began, until the table is dropped or an    *)
(* overwrite given up in an earlier run commits; the next success ends that*)
(* exception (lastSuccessAt).                                              *)
SuccessSound ==
  promised > 0 => \/ overtaken
                  \/ target = <<>>
                  \/ shown >= promised /\ target = <<RowsOf(shown)>>

(* The table is refreshed for good once the source stays the same and      *)
(* errors end: every failed run is tried again.                            *)
EventuallyRefreshed == <>[](target = <<RowsOf(content)>>)

(* Each step of a run keeps the promise of Replica, the table taken as its *)
(* only partition: the target is refreshed from one content, no older than *)
(* the one shown, or left alone.  Only an overwrite that was given up and  *)
(* commits late goes back, and the next run makes up for it.               *)
Promise == INSTANCE Replica WITH source <- content, blank <- empties,
                                 position <- shown, shown <- target

RefreshesForward == [][LateLoadCommits \/ Promise!Next \/ UNCHANGED Promise!vars]_vars
=============================================================================
