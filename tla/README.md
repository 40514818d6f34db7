# Verification of doris-sync

doris-sync (`src/`) is a Go service that copies tables from one Apache Doris
cluster to another: the source exports rows as Parquet files to an object store
(`OUTFILE`), the target loads them (`INSERT ... SELECT FROM S3`), and a SQLite
file keeps checkpoints. It runs against servers that change, fail, time out
and finish statements nobody waits for any longer. These modules model its
control flow in TLA+: TLC checks small instances, and TLAPS proves the main
results for every instance.

## The system

| Component (source) | State | Operations |
|---|---|---|
| Partition synchroniser, overwrite mode (`main.go` 684-850) | a checkpoint row per partition: source identity, ready flag, backup identity, prefix and objects, imported identity, in-progress flag | skip if up to date; export under a fresh prefix; verify; overwrite or insert; confirm |
| time-window mode (`incremental.go`) | the same row, with watermark and pending delta | decide between replacement and delta; seed the watermark |
| Hourly-window mode (`hourly.go`) | a row per table: cursor `next_start`, pending window | open a window; export; verify; append; complete |
| Full-table tasks (`fulltable.go`, `hourly.go` 229-278) | a row per task: phase, last success, last error | when due: export, overwrite the table, record |
| Cycle and version scan (`main.go` 311-660) | a hash of columns and a count of partitions per table; the lists held by the loops, the time of the next scan | check or create every table; loop over tables and partitions; scan imported partitions in between |
| Forced overwrite plan (`overwrite_plan.go`) | the plan, the table at hand | preflight of all tables; then one table after another |
| State file, settings, tasks (`state.go`, `tasks.go`, `taskcli.go`) | metadata and task rows, a lock file | check and record mode, time field, hourly settings; register tasks |
| Target tables and DDL (`sql.go`, `main.go` 397-469) | none | create or compare the target table |
| Partition matching (`database.go`) | none | find the target partition of a source partition by bounds or name |
| Reports (`status.go`, `taskstatus.go`) | none | derive phases and counts from the rows |
| Clients (`database.go`, `objectstore.go`) | none | queries, retries of metadata queries, list and clear of prefixes |
| Configuration (`config.go`) | none | parse and validate |

One service process works through its tables sequentially. What makes it hard
is around it: source partitions get new versions at any moment; a statement
whose client timed out may still run and take effect later; every call may fail
and the process may end between any two; target partitions and tables are
dropped behind its back; the version scan runs in the middle of a table's loop
and synchronises the partition the loop holds an old listing of; task commands
write the state file beside the service; and the local clock is changed twice a
year. `PROJECT.json` lists these hazards at their lines ("hazards") with the
properties that cover them.

What makes each component correct:

* a backup called ready is a snapshot, and stays it; a partition recorded as
  imported is in the target; the target never mixes versions, never doubles
  rows, and ends up equal to the source;
* no hour is appended twice or skipped; the cursor tells what is in doubt;
* a cycle creates all tables before it copies a partition, reports an error if
  anything it owed is missing, and no table waits for ever behind another one;
* a full-table task leaves the old content or a whole new one;
* a forced plan overwrites nothing before all of it was checked and nothing
  after an error;
* a state file keeps its mode, settings and task kinds.

## The modules

| Module | Models | Runs |
|---|---|---|
| `Replica` | the promise: a target that is missing or shows one whole snapshot, and only moves forward | as property |
| `HourlyCopy` | the promise of an hourly table: windows in order, one append at most for each, and none after one of unknown outcome | as property |
| `PartitionSync` | `syncPartition` with its two callers, the servers, faults, and the reported phase | `sync`, `sync_live`, `sync_incompatible` |
| `PartitionSyncProofs` | its theorems | |
| `Cycle` | `cycle`, `ensureTargetTable`, `syncTable` and `maybeScanCompleted` over several tables, with schema changes, migrations, restarts, and the counts of a status report | `cycle`, `cycle_migrated` |
| `TimeWindow` | `syncPartitionByMode` and `seedWatermark`; extends `PartitionSync` | `time_window`, `time_window_delta` |
| `HourlyWindow` | `syncHourlyTable`, `syncHourlyWindow`, `finishHourly`, with time zones | `hourly`, `hourly_east` |
| `HourlyWindowProofs` | its theorems | |
| `FullTable` | one task in `cycleManagedHourly`, and `syncFullTable` | `full_table` |
| `ForcedPlan` | `cycleOverwritePlan` with the parts of `ensureTargetTable` and `syncTable` it goes through | `forced_plan` |
| `StateFile` | start-up checks and task registration of several processes on one state file | `state_file` |
| `TimeWindowProofs`, `FullTableProofs`, `ForcedPlanProofs`, `CycleProofs`, `StateFileProofs` | the theorems of those modules | |
| `PartitionMatch` | `matchTargetPartition` as a function of a partition and a list | evaluated before `sync` |
| `PartitionMatchProofs` | its theorems, for all lists | |
| `MCPartitionMatch` | the same facts on all short lists, as an assumption TLC evaluates; part of `MCPartitionSync` | |
| `MC*` | the instances: option records, time zones, plan, symmetry | |

`TimeWindow` composes with `PartitionSync`: its steps call `Start` and continue
when `SyncPartition` returns. `PartitionSync` and `ForcedPlan` take it for granted that a partition
has at most one match and shares it with no other, which is what `PartitionMatch`
is about. `PartitionSync`, `TimeWindow` and `FullTable`
implement `Replica`, and `HourlyWindow` implements `HourlyCopy`: a replica is
replaced as a whole and may be loaded again at will, while an hourly window is
appended and may not. `ForcedPlan` takes the synchronisation of one partition as
one step, and `Cycle` as three (backup, load, confirmation, between which the
source and the target's columns may change), which is what `PartitionSync`
describes in detail. `PartitionSync` sees one partition and the lists two
callers hold; `Cycle` has those callers, with all tables and partitions.

Conventions. An action is one call to a server or one save of a row; everything
between two calls belongs to the action before. `pc` names the next call. The
row in memory equals the row on disk between actions, since a failed save ends
the process (`persistenceError`). A definition with an underscore
(`Unused_Fixed`) is a plausible slip in the definition that follows it; it is
used by no specification, and putting it in that place breaks the property
`PROJECT.json` pairs it with ("mutants").

### How data is abstracted

* The identity of a source partition (`id:visibleVersion`) is a counter: the
  code only compares identities for equality. 0 is the empty string. The
  rows at identity *i* are the set {*i*}, or {} if the partition was empty then.
  So a target `<<{2}>>` holds version 2 once, `<<{2}, {2}>>` doubled rows, and
  `<<{1, 2}>>` a mix. In `FullTable` the same is said of whole tables.
* A backup is a set of identities under a prefix; prefixes are random ids that
  are only compared, so a prefix not in use by the row or by a running export
  is always available, and generation names are symmetric.
* Target partitions are matched or not; `auto` says whether the table creates
  missing ones, `compatible` whether they then match.
* In `Cycle` the versions of a partition and the columns of a table are numbers
  in the order the source goes through them, a hash of columns is the number,
  and partitions are pairs of a table and a name, since names are what the
  options select by and what the check at the end of the preflight counts.
* Hours are integers. A zone gives the local hour each absolute hour shows and
  the absolute hour Go reads a local hour as.
* Arguments on the command line are values compared for equality.

### Reductions

Partitions and tables share no row, no prefix and no target range, and the
process works on one at a time. So one partition, table or task is modelled at
a time and the others are time that passes while `pc` is "idle". Where the
shared process matters (the version scan, the lists, the plan, the lock), it is
modelled. Two tasks with different source databases and the same target table
would break this reduction; the code does not exclude them (hazard tasks.go:69).

### Faults

Fault bounds count errors, crashes and external drops together. A failed call
returns with the row as last saved; a crash also loses the lists the callers
hold. An abandoned `OUTFILE` may write at any later moment, or never. An
abandoned load may commit at any later moment, in `PartitionSync` when the
option `lateLoads` allows it; without the option an abandoned load has either
committed when its client goes on (the action and then a fault) or never does.
The history variable `overtaken` tells that the target was last changed by a
load that committed late. It holds from that commit until a call replaces the
rows again, and it is the only exception the properties make.

## What the runs show

| Run | Instance | Result |
|---|---|---|
| `sync` | 3 prefixes, 3 versions, 2 faults, 1 stale export; forced or not, AUTO PARTITION or not, late loads or not | `BackupSound`, `CheckpointSound`, `MonitoredShown`, `TargetWhole`, `RefreshesForward` hold |
| `sync_live` | 3 prefixes, 2 versions, 2 faults, 1 stale export | `ImplementsReplica` and `EventuallySynced` hold |
| `sync_incompatible` | one version, no fault | `StopsWhenUnmatched` is violated |
| `cycle` | 2 tables, 3 partitions, 2 versions, 2 layouts of columns, 2 changes, 1 fault; a missing target table, a partition to come, selection of all or of one name | `CreatedFirst`, `CleanCycle`, `RecordedShown`, `LoopAsRecorded`, `OnlySelected`, `EventuallySynced`, `ProgressCompletes` hold |
| `cycle_migrated` | the same, 1 change, no fault | `MigratedResumes` is violated |
| `time_window` | 2 versions, 1 fault, 1 stale export | the replica's promise and `EventuallyMonitored` hold; no delta is ever taken |
| `time_window_delta` | 2 versions, no fault | `AdvancedByDelta` is violated |
| `hourly` | 3 rows in 2 hours, 6 hours, 2 faults; fixed zone, hour left out, hour repeated (west) | `AtMostOnce`, `NoRowLost`, `CursorCovers`, `ImplementsCopy`, `CatchesUp` hold |
| `hourly_east` | the same, hour repeated as read east of Greenwich | `NoRowLost` is violated |
| `full_table` | 3 contents, 2 prefixes, interval 2, 2 faults, late overwrites | `TargetWhole`, `SuccessSound`, `RefreshesForward`, `EventuallyRefreshed` hold |
| `forced_plan` | 2 tables, 3 partitions, 2 versions, 1 fault | `CheckedFirst`, `StoppedByError`, `DoneComplete` hold |
| `state_file` | 2 processes, 2 arguments, any commands | `OneTaskModeApart`, `KindsApart`, `ServiceAgrees`, `SettingsFixed` hold |

Why the bounds are enough. With three prefixes there is one in the row, one an
abandoned export still writes to and one to draw; a stale export of version 1,
a backup of version 2 and a load of version 3 can meet. Two faults allow a
fault in the recovery from a fault: an abandoned export or load, then a crash
or a dropped partition in the retry. Six hours leave two complete windows after
the repeated or missing hour. In `full_table` two contents besides the first
suffice for a late overwrite of the first between two later successes. In
`forced_plan` one table has two partitions and one has a single one, so there is
a later partition in the same table and a table after it; runs repeat without
bound, and the one fault is a drop or a failing call at any step. In
`cycle` one table has two partitions, so that a scan can cut in between them and
act on the other one or on the other table; one table starts missing and one
partition is added; the two changes may be two versions, columns and a version,
or a partition that comes and goes, at any step of a cycle, and the fault is an
error or a restart with another selection. Two processes
suffice for the races on the state file since each check concerns one row.

### Fairness

The service loop runs a cycle, waits, and runs the next, and each statement
returns or fails (connections have timeouts). So there is weak fairness on the
listing that begins a cycle, on the calls and on their steps, and on the clock.
In `Cycle` there is weak fairness on the steps of the
service together: it never stands still while it has a step, and which tables
and partitions get their turn follows from its loops alone.
Nothing is owed to the source, to statements given up, to the version scan or
to faults, of which there are finitely many in each behaviour. Every check that
a liveness property holds is therefore about retries: a partial row, a cleared
prefix or an error text must never keep later cycles from getting on.

### Disagreements

* **Deltas are never taken** (`time_window_delta`). `maxTime` reads
  `rows[0]["max_time"]` (incremental.go:47), but `query` stores columns under
  normalised names without underscores (database.go:131, 155), so the maximum
  is always "". `startDelta`, `resumeDelta` and `finishDelta` are unreachable,
  which `DeltaUnreached` checks; they have no actions.
* **A repeated plain INSERT** (`sync_incompatible`). If the partition an
  AUTO PARTITION table creates does not match, the error leaves the row such
  that each cycle inserts the same rows again; README.md:204 of the repository
  says the tool stops for that partition.
* **A repeated hour east of Greenwich** (`hourly_east`). `hourlyCutoff` rebuilds
  the present hour from local fields; in the first occurrence of a repeated
  hour it takes the second, so a window that just ended counts as settled. The
  repository's README advises fixed-offset zones; the code accepts any.
* **A migrated table is refused for ever** (`cycle_migrated`). `syncTable`
  compares the hash of the source columns with the recorded one first
  (main.go:589) and records a hash only after that went well (main.go:611). So
  when columns changed and the target table was migrated as the message and
  README.md:205 ask, the table still fails in every later cycle.

Observations that are no run of their own:

* The version scan does not look at the recorded hash (main.go:517-540): it
  loads changed partitions of a table whose columns have changed with the
  columns the table has at that moment, where the loop would refuse it. So
  `LoopAsRecorded` speaks of the loop only.
* Rows and counts of dropped partitions stay in the state file while the
  inventory shrinks, so a status report may show more than 100 percent;
  `ProgressCompletes` is about sources from which nothing was dropped.
* Two task commands at once can register a table in both task modes, since
  check and INSERT are separate statements without a lock (tasks.go:58, 69;
  fulltable.go:35, 46). `OneTaskModeApart` exempts processes that start up at
  the same time.
* A partition that vanishes between the preflight of a forced plan and its
  table's turn is passed over (main.go:578, 615) and the run ends well;
  `DoneComplete` speaks of the others.
* A name selected that only occurs in tables that fail their check ends every
  cycle before its first partition (main.go:370), whatever other tables need;
  `EventuallySynced` of `Cycle` assumes names of tables in order.

* The loop of a table passes on a stale identity if a version scan imported the
  partition in an earlier iteration. The call then marks the good backup not
  ready, clears it and exports again before it finds the identity has changed:
  lost work. `ImplementsReplica` shows that the target is not hurt. Until the
  next backup is ready the row's phase may also be "incremental_monitoring" for
  an identity the target no longer shows, and the status report counts the
  partition as current; this is why `MonitoredShown` asks for a ready backup.
* A load that commits late can bring back an older version in overwrite mode,
  and doubles rows where a plain INSERT was used; no code addresses it, since
  the statement carries no label. What can be said is said for all loads:
  `CheckpointSound` and `MonitoredShown` exempt a target while it is
  `overtaken`, `TargetWhole` one of an AUTO PARTITION table only, and
  `RefreshesForward` says that late commits are the one kind of step that goes
  back: every other one is a step of `Replica`, also in the presence of late
  loads, but for a plain INSERT beside rows a late one has put there. So the
  next load that replaces the rows ends the exception. `ImplementsReplica`
  itself is for options without late loads. `FullTable` has the same
  exception in `SuccessSound` and `RefreshesForward`.

## What is proved

All safety properties the passing runs check are theorems, and so are the
three refinements: they hold for every number of prefixes, versions, faults, rows, hours, zones, tables, partitions, processes and arguments. The assumptions are those the
modules name: bounds are naturals; the empty prefix and the empty string are
none of the values they are compared with; tables, partitions and rows are
finitely many; a zone reads equal local hours equally. Where an option
admits what the code does not guard against (loads that commit late, processes
that start up together), the property says so itself. `Implements` and
`WindowImplements` have loads on time as an assumption of the theorem, and
`NoneLost` and `CopyCorrect` steady time zones. None of the invariants is inductive
alone; each module joins them to a stronger one, whose parts are named and
commented there, and whose preservation has a step per action.

`PartitionSyncProofs`:

| Theorem | Statement |
|---|---|
| `TypeCorrect` | `Spec => []TypeOK` |
| `BackupCorrect` | `Spec => []BackupSound` |
| `CheckpointCorrect` | `Spec => []CheckpointSound` |
| `MonitoredCorrect` | `Spec => []MonitoredShown` |
| `TargetCorrect` | `Spec => []TargetWhole` |
| `ForwardCorrect` | `Spec => RefreshesForward` |
| `Implements` | if no option record has late loads, `Spec => ImplementsReplica` |

`IInv` joins the invariants with

* `PastInv`: every identity held anywhere, in the row, a list, a call or a late
  load, is one the source has shown;
* `BackupInv` and `ReadyInv`: from the new generation on, the row is not ready,
  no stale export writes to the prefix, and what is stored is the source at
  *some* moment since the call's identity was current. `ConfirmBackup` turns
  "some moment" into "the identity" because nothing changed in between;
* `VerifiedInv`: after the checks the backup is of the identity at hand, which
  is no older than the one imported, the one shown, or any a late load still
  carries;
* `TargetInv`: while nothing late has overtaken it, a load not matched finds no
  partition, so even a plain INSERT replaces; what the row calls imported is
  shown if it is current; and the target shows the identity of the last load.
  This gives the refinement its `Refresh` step;
* `KindInv`: without AUTO PARTITION only named partitions are overwritten, which
  carries `TargetWhole` through late commits;
* `SourceInv` and `MonitorInv`: the row names the identity of a backup in the
  making, and what is reported as monitored is shown.

Each part has a lemma with a step per action. `Invariance` joins them.
`Implements` maps each action to a step of `Replica` or a stutter, and
`ForwardCorrect` does so for all options, leaving out the late commits
themselves: `VerifiedInv` has to speak of the loads still under way for that,
since one that commits between two steps of a call becomes what is shown.

`HourlyWindowProofs`:

| Theorem | Statement |
|---|---|
| `TypeCorrect` | `Spec => []TypeOK` |
| `NoDuplicates` | `Spec => []AtMostOnce` |
| `CursorCorrect` | `Spec => []CursorCovers` |
| `NoneLost` | in steady zones, `Spec => []NoRowLost` |
| `CopyCorrect` | in steady zones, `Spec => ImplementsCopy` |

The invariant of the first three says that prefixes in files, stale exports and the pending
window were drawn before (`PrefixInv`), that the window starts at the cursor
(`WindowInv`), that once verified its files are one export of rows in the
window and nothing stale shares the prefix (`BackupInv`), and that until the
import started no row of the window is in the target, nor about to be
(`LoadInv`). An import that started and did not return leaves `started` set,
which `Refuse` never passes.

`NoneLost` is `Spec => []NoRowLost` for zones that are `Steady`: the local time
never goes back and a repeated hour is read as its first occurrence. TLC
evaluates that the zones of `hourly` are and the one of `hourly_east` is not,
where the property is violated. Whatever the cursor passes is then settled, that
is, over for an hour by the absolute clock (`SettledInv`); a row can no longer
arrive in time, so the backup of the window has all such rows, and the import
of that backup brings them (`HeldInv`).

`CopyCorrect` joins the two. A window is under way in `HourlyCopy` from the
save that marks its import as started until its cursor is saved, whatever
restarts lie between (`Phase`). What is appended, in time or late, was exported
from the source for the window at hand (`CopyInv`), so by `HeldInv` it has
every timely row, and a started import whose answer is missing is the phase no
step leaves. Steps on files, listings and probes are invisible there
(`UnseenStep`); an append, in time or late, is `AppendStep`.

`TimeWindowProofs` (`DeltaCorrect`, `SeedCorrect`, `WindowImplements`) reuses
the lemmas of `PartitionSyncProofs`: each step of the mode is a step of
`PartitionSync` or changes its lists only, so the invariant there carries over.
`SeedInv` adds that `syncPartitionByMode` waits while `syncPartition` runs, on
the identity a watermark is to be recorded for.

`FullTableProofs` (`TypeCorrect`, `TargetCorrect`, `SuccessCorrect`,
`RefreshesCorrect`): from the export on the prefix holds the exported content,
and nothing stale will be written there (`BackupInv`); a pending late overwrite
carries one content of the past (`PastInv`); during a run neither the target nor
any late overwrite has a content newer than the run's beginning, and what the
run has loaded is shown unless a late one overtook it (`OnTimeInv`).
`Replica`'s step follows from these.

`ForcedPlanProofs` (`TypeCorrect`, `PreflightCorrect`, `OrderCorrect`,
`DoneCorrect`): what has been found is what the plan names in the tables passed
(`FoundInv`), and the tables before the one at hand are dealt with
(`HandledInv`). Order rests on a plan naming each table once (`PlanFacts`) and
on partitions leaving the list lowest first.

`CycleProofs` (`TypeCorrect`, `CreatedCorrect`, `CleanCorrect`,
`RecordedCorrect`, `NeverBack`, `ColumnsCorrect`, `SelectionCorrect`): queues hold selected partitions of the
table at hand (`QueueInv`), which answers for the scan too; a table that is
ready is there and any other has failed (`ReadyInv`); and what a cycle still
owes is in the tables left to it or in its list, unless something failed
(`OwedInv`). The last part is what a scan in the middle of a list could break:
it may only bring a row closer to its source. `ShownInv` orders what is
imported, what is shown and what the source has, and says that the backup about
to be loaded is of the version at hand; so a load never goes back (`NeverBack`,
which is no property of a run), and a row that is up to date is shown
(`RecordedCorrect`), since it cannot have been imported in a version newer
than the one shown.

`StateFileProofs` (`TypeCorrect`, `OneMode`, `KindsCorrect`, `ServiceCorrect`,
`SettingsCorrect`): a process is at a step of its command (`ControlInv`), a
service past its first step holding the lock; what a process has found in
the file is still so, as long as it starts up alone (`FoundInv`, `AloneInv`).

`PartitionMatchProofs`: rows never go to a target partition of other bounds
(`BoundsCorrect`); two source partitions never match the same target partition,
if names and bounds are distinct in each table and the source shows bounds for
all partitions or for none (`ApartCorrect`); there is one match and a partition
with the bounds is it (`OneCorrect`), in whatever order the list comes
(`OrderCorrect`).

Only model-checked: the liveness properties (`EventuallySynced`,
`EventuallyMonitored`, `CatchesUp`, `EventuallyRefreshed`, `ProgressCompletes`),
since fairness and ENABLED are beyond the prover.

## What is not modelled

Parsing and validation of flags, configuration and plans; rewriting of DDL
text; the wording of logs and reports; the task reports and row comparisons,
which only read; retries of metadata queries, which are part of one call;
objects removed from the bucket by others, after which the code refuses the
import until a new version appears; target partitions and tables dropped by
others while `Cycle` runs (they are in `PartitionSync`); async views and other tables
that are passed over.

## Plan

Done: the modules above, their safety properties and refinements checked and
proved, their liveness checked. Next, in this order:

1. One contract for the synchronisation of a partition, as an abstract
   specification of a row and a target partition, implemented by
   `PartitionSync` and, for each partition, by `Cycle`: the rows a call that
   fails may leave (`Attempts`) are so far taken from the code twice.
2. In `ForcedPlan` what a partition shows, and that it only goes forward from
   run to run.
3. The ranks by which a forced run and a cycle end, as action properties: what
   liveness needs besides fairness.
4. The delta procedures of `incremental.go`, under an option by which `maxTime`
   answers: they are unreachable today, so the module would describe the code
   as it is meant, with the stale-prefix hazard (incremental.go:143).
5. Several tasks in one loop of `cycleManagedHourly`, with the reports of
   `taskstatus.go`: a failing task must not keep others from their turn.
6. `PartitionMatch` as part of a run: lists of names and bounds in the target
   in place of the options `auto` and `compatible`, with partitions dropped and
   made again under other bounds.
