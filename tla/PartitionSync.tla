--------------------------- MODULE PartitionSync ---------------------------
(***************************************************************************)
(* The synchronisation of one partition in overwrite mode: syncPartition   *)
(* of main.go, called by the table loop of a cycle and by the version scan *)
(* that runs in the middle of a cycle, against a source that changes at    *)
(* any time, an object store, a target partition and a checkpoint row in   *)
(* SQLite.                                                                 *)
(*                                                                         *)
(* Partitions are handled one at a time and share no state but the process *)
(* (one row, one bucket prefix and one target range each), so one          *)
(* partition is modelled; the work on others is time that passes while pc  *)
(* is "idle".  Every step is one call to a server or one save of the row.  *)
(* The entry in memory equals the row on disk between steps, because a     *)
(* failed save ends the process.                                           *)
(*                                                                         *)
(* The identity of the source partition (id and visible version) is a      *)
(* number, counted up at each change: the code only compares identities,   *)
(* and 0 is its empty string.  The rows of identity i are the set {i}, or  *)
(* {} if the partition was empty then.  A backup is the set of identities  *)
(* whose files are stored under its prefix.                                *)
(*                                                                         *)
(* A definition with an underscore in its name is a slip one could make in *)
(* the definition after it; the properties tell the two apart.             *)
(***************************************************************************)
EXTENDS Naturals, Sequences, FiniteSets

CONSTANTS Gens,         \* names of backup generations, full/<random id>/
          NoGen,        \* the empty prefix
          Options,      \* the option records a behaviour may start with
          MaxVersion,   \* bound: identities the source goes through
          MaxFaults,    \* bound: errors, crashes and external drops
          MaxStale      \* bound: abandoned OUTFILE statements in flight

ASSUME GensAssumption  == NoGen \notin Gens
ASSUME BoundAssumption == MaxVersion \in Nat \ {0} /\ MaxFaults \in Nat /\ MaxStale \in Nat

(***************************************************************************)
(* force      : --force-overwrite                                          *)
(* auto       : the target table uses AUTO PARTITION                       *)
(* compatible : a partition the target creates by itself has the bounds of *)
(*              the source partition                                       *)
(* lateLoads  : a load the client has given up may still commit later      *)
(***************************************************************************)
OptionRecords == [force : BOOLEAN, auto : BOOLEAN, compatible : BOOLEAN, lateLoads : BOOLEAN]

ASSUME OptionsAssumption == Options \subseteq OptionRecords

Identity == 1..MaxVersion
Rows     == SUBSET (0..MaxVersion)
Callers  == {"cycle", "scan"}

VARIABLES
  opts,         \* the options, fixed
  ident,        \* identity the source partition has now
  empties,      \* identities at which the source partition has no rows
  store,        \* object store: generation -> identities with files there
  staleExports, \* OUTFILE statements given up by the client, still to write
  target,       \* loads the matching target partition's rows come from;
                \* <<>> when no target partition matches
  stray,        \* loads that went to target partitions that do not match
  lateLoads,    \* INSERT statements given up by the client, still to commit
  entry,        \* the checkpoint row
  pc,           \* next step of syncPartition, "idle" between calls
  part,         \* identity syncPartition was called with, 0 when idle
  listed,       \* objects as listed by the last step
  matched,      \* whether a target partition matched before the load
  seen,         \* identity in the partition list each caller holds, 0 if none
  shown,        \* history: identity of the last load the target took
  overtaken,    \* history: a late load changed the target since a call last replaced its rows
  faults        \* number of errors, crashes and drops so far

sourceVars == <<opts, ident, empties>>
storeVars  == <<store, staleExports>>
targetVars == <<target, stray, lateLoads, shown, overtaken>>
callVars   == <<pc, part, listed, matched>>
vars == <<sourceVars, storeVars, targetVars, callVars, entry, seen, faults>>

RowsOf(i) == {i} \ empties

NoEntry == [source |-> 0, ready |-> FALSE, backup |-> 0, prefix |-> NoGen,
            objects |-> {}, imported |-> 0, inProgress |-> FALSE]

Init == /\ opts \in Options
        /\ ident = 1
        /\ empties \in SUBSET {1}
        /\ store = [g \in Gens |-> {}]
        /\ staleExports = {}
        /\ target \in {<<>>, <<{}>>, <<{0}>>}
        /\ stray = <<>>
        /\ lateLoads = {}
        /\ entry = NoEntry
        /\ pc = "idle"
        /\ part = 0
        /\ listed = {}
        /\ matched = FALSE
        /\ seen = [c \in Callers |-> 0]
        /\ shown = 0
        /\ overtaken = FALSE
        /\ faults = 0

-----------------------------------------------------------------------------
(***************************************************************************)
(* The surroundings.                                                       *)
(***************************************************************************)

(* The source partition gets a new version, or is replaced by a new        *)
(* partition of the same name.                                             *)
SourceChange ==
  /\ ident < MaxVersion
  /\ ident' = ident + 1
  /\ empties' \in {empties, empties \cup {ident + 1}}
  /\ UNCHANGED <<opts, storeVars, targetVars, callVars, entry, seen, faults>>

(* The matching target partition is dropped behind the program's back.     *)
TargetDropped ==
  /\ faults < MaxFaults
  /\ faults' = faults + 1
  /\ target # <<>>
  /\ target' = <<>>
  /\ overtaken' = FALSE
  /\ UNCHANGED <<sourceVars, storeVars, stray, lateLoads, shown, callVars, entry, seen>>

(* An OUTFILE statement nobody waits for writes its files after all.       *)
StaleExportWrites ==
  \E e \in staleExports :
    /\ staleExports' = staleExports \ {e}
    /\ store' = [store EXCEPT ![e.gen] = @ \cup e.rows]
    /\ UNCHANGED <<sourceVars, targetVars, callVars, entry, seen, faults>>

(* What a load does.  Doris commits it as a whole: INSERT OVERWRITE of a    *)
(* named partition or of PARTITION( * ) replaces the rows, a plain INSERT   *)
(* adds to them.  A missing partition is created by the load, inside the    *)
(* range of the source partition only if the table's partitioning agrees.   *)
LoadEffect(kind, rows, i) ==
  IF target # <<>> \/ opts.compatible
  THEN /\ target' = IF kind = "append" THEN Append(target, rows) ELSE <<rows>>
       /\ shown' = i
       /\ UNCHANGED stray
  ELSE /\ stray' = IF kind = "append" THEN Append(stray, rows) ELSE <<rows>>
       /\ UNCHANGED <<target, shown>>

(* A load nobody waits for commits after all, or fails because the         *)
(* partition it names is gone.                                             *)
LateLoadCommits ==
  \E l \in lateLoads :
    /\ lateLoads' = lateLoads \ {l}
    /\ IF l.kind = "partition" /\ target = <<>>
       THEN UNCHANGED <<target, stray, shown>>
       ELSE LoadEffect(l.kind, l.rows, l.id)
    /\ overtaken' = (target' # <<>>)
    /\ UNCHANGED <<sourceVars, storeVars, callVars, entry, seen, faults>>

-----------------------------------------------------------------------------
(***************************************************************************)
(* The callers of syncPartition.                                           *)
(***************************************************************************)

(* syncTable lists the partitions of a table once, before its loop, and    *)
(* reads the list again for the partition at hand when a version scan ran  *)
(* in that iteration of the loop.  A forced run, --once, has no scans.     *)
ListTable ==
  /\ pc = "idle"
  /\ seen["cycle"] = 0 /\ seen["scan"] = 0
  /\ seen' = [seen EXCEPT !["cycle"] = ident]
  /\ UNCHANGED <<sourceVars, storeVars, targetVars, callVars, entry, faults>>

RefreshListed ==
  /\ pc = "idle"
  /\ ~opts.force
  /\ seen["cycle"] \notin {0, ident} /\ seen["scan"] = 0
  /\ seen' = [seen EXCEPT !["cycle"] = ident]
  /\ UNCHANGED <<sourceVars, storeVars, targetVars, callVars, entry, faults>>

(* maybeScanCompleted picks the partitions imported before whose identity  *)
(* moved on or whose import was cut short.                                 *)
ScanPicks ==
  /\ pc = "idle"
  /\ ~opts.force
  /\ seen["scan"] = 0
  /\ entry.imported # 0
  /\ entry.imported # ident \/ entry.inProgress
  /\ seen' = [seen EXCEPT !["scan"] = ident]
  /\ UNCHANGED <<sourceVars, storeVars, targetVars, callVars, entry, faults>>

-----------------------------------------------------------------------------
(***************************************************************************)
(* syncPartition.                                                          *)
(***************************************************************************)

Return == pc' = "idle" /\ part' = 0 /\ listed' = {} /\ matched' = FALSE

(* The partition needs no work if its target partition is still there.     *)
UpToDate(i) ==
  /\ ~opts.force
  /\ entry.ready
  /\ entry.prefix # NoGen
  /\ entry.imported = i
  /\ ~entry.inProgress

NeedsBackup_AnyReady(i) == opts.force \/ ~entry.ready \/ entry.prefix = NoGen

NeedsBackup(i) ==
  \/ opts.force
  \/ entry.backup # i
  \/ ~entry.ready
  \/ entry.prefix = NoGen

BackupOrVerify(i) == IF NeedsBackup(i) THEN "newGeneration" ELSE "verifyObjects"

(* A call for the identity a caller holds; the loop of the cycle waits for *)
(* the scan it called.                                                     *)
Called_NotFound(c) == pc = "idle" /\ (c = "cycle" => seen["scan"] = 0)

Called(c) == pc = "idle" /\ seen[c] # 0 /\ (c = "cycle" => seen["scan"] = 0)

(* An up-to-date partition without objects is skipped at once.             *)
SkipEmpty(c) ==
  /\ Called(c)
  /\ UpToDate(seen[c])
  /\ entry.objects = {}
  /\ seen' = [seen EXCEPT ![c] = 0]
  /\ UNCHANGED <<sourceVars, storeVars, targetVars, callVars, entry, faults>>

Start(c) ==
  /\ Called(c)
  /\ ~(UpToDate(seen[c]) /\ entry.objects = {})
  /\ pc' = IF UpToDate(seen[c]) THEN "checkTarget" ELSE BackupOrVerify(seen[c])
  /\ part' = seen[c]
  /\ seen' = [seen EXCEPT ![c] = 0]
  /\ UNCHANGED <<sourceVars, storeVars, targetVars, listed, matched, entry, faults>>

(* An up-to-date partition is skipped if the target still has it; else     *)
(* what was imported is forgotten, and the backup imported again.          *)
SkipUnchanged ==
  /\ pc = "checkTarget"
  /\ target # <<>>
  /\ Return
  /\ UNCHANGED <<sourceVars, storeVars, targetVars, entry, seen, faults>>

ForgetImport ==
  /\ pc = "checkTarget"
  /\ target = <<>>
  /\ entry' = [entry EXCEPT !.imported = 0]
  /\ pc' = BackupOrVerify(part)
  /\ UNCHANGED <<sourceVars, storeVars, targetVars, part, listed, matched, seen, faults>>

(* A backup starts under a prefix never used before: not the one of the    *)
(* last backup, nor one an abandoned statement still writes to.            *)
Unused_Fixed(g) == g = CHOOSE h \in Gens : TRUE

Unused(g) == g # entry.prefix /\ \A e \in staleExports : e.gen # g

NewGeneration ==
  /\ pc = "newGeneration"
  /\ \E g \in Gens :
       /\ Unused(g)
       /\ store' = [store EXCEPT ![g] = {}]
       /\ entry' = [entry EXCEPT !.source = part, !.ready = FALSE, !.backup = 0,
                                 !.prefix = g, !.objects = {}, !.inProgress = FALSE]
  /\ pc' = "clear"
  /\ UNCHANGED <<sourceVars, staleExports, targetVars, part, listed, matched, seen, faults>>

(* store.clear removes every earlier backup of the partition.              *)
Clear ==
  /\ pc = "clear"
  /\ store' = [g \in Gens |-> {}]
  /\ pc' = "export"
  /\ UNCHANGED <<sourceVars, staleExports, targetVars, part, listed, matched, entry, seen, faults>>

(* OUTFILE writes the rows the source has when it runs, under the prefix.  *)
Export ==
  /\ pc = "export"
  /\ store' = [store EXCEPT ![entry.prefix] = @ \cup RowsOf(ident)]
  /\ pc' = "listBackup"
  /\ UNCHANGED <<sourceVars, staleExports, targetVars, part, listed, matched, entry, seen, faults>>

ListBackup ==
  /\ pc = "listBackup"
  /\ listed' = store[entry.prefix]
  /\ pc' = IF listed' = {} THEN "probe" ELSE "confirmBackup"
  /\ UNCHANGED <<sourceVars, storeVars, targetVars, part, matched, entry, seen, faults>>

(* Nothing was exported: the source partition must be empty.               *)
Probe_EmptyIsError ==
  /\ pc = "probe"
  /\ Return
  /\ UNCHANGED <<sourceVars, storeVars, targetVars, entry, seen, faults>>

Probe ==
  /\ pc = "probe"
  /\ IF RowsOf(ident) = {}
     THEN pc' = "confirmBackup" /\ UNCHANGED <<part, listed, matched>>
     ELSE Return
  /\ UNCHANGED <<sourceVars, storeVars, targetVars, entry, seen, faults>>

(* The backup counts only if the identity is still the same after it.      *)
ConfirmBackup ==
  /\ pc = "confirmBackup"
  /\ IF part = ident
     THEN /\ entry' = [entry EXCEPT !.backup = part, !.objects = listed, !.ready = TRUE]
          /\ pc' = "verifyObjects"
          /\ UNCHANGED <<part, listed, matched>>
     ELSE Return /\ UNCHANGED entry
  /\ UNCHANGED <<sourceVars, storeVars, targetVars, seen, faults>>

VerifyObjects ==
  /\ pc = "verifyObjects"
  /\ IF store[entry.prefix] = entry.objects
     THEN pc' = "verifySource" /\ UNCHANGED <<part, listed, matched>>
     ELSE Return
  /\ UNCHANGED <<sourceVars, storeVars, targetVars, entry, seen, faults>>

VerifySource ==
  /\ pc = "verifySource"
  /\ IF part = ident
     THEN pc' = "matchTarget" /\ UNCHANGED <<part, listed, matched>>
     ELSE Return
  /\ UNCHANGED <<sourceVars, storeVars, targetVars, entry, seen, faults>>

(* The target partition is looked up; the row says that an import began    *)
(* before it does.                                                         *)
MatchTarget ==
  /\ pc = "matchTarget"
  /\ IF target # <<>> \/ opts.auto
     THEN /\ matched' = (target # <<>>)
          /\ entry' = [entry EXCEPT !.inProgress = TRUE]
          /\ pc' = "load"
          /\ UNCHANGED <<part, listed>>
     ELSE Return /\ UNCHANGED entry
  /\ UNCHANGED <<sourceVars, storeVars, targetVars, seen, faults>>

LoadKind_AlwaysInsert == "append"

LoadKind == IF matched THEN "partition" ELSE IF opts.force THEN "auto" ELSE "append"

(* The statement reads every file under the prefix, or is an empty select. *)
LoadRows == IF entry.objects = {} THEN {} ELSE store[entry.prefix]

(* A missing partition needs no load if there is nothing to put in it.     *)
Loads == pc = "load" /\ (matched \/ entry.objects # {})

AfterLoad == IF entry.objects = {} THEN "finish" ELSE "confirmTarget"

SkipLoad ==
  /\ pc = "load"
  /\ ~matched
  /\ entry.objects = {}
  /\ pc' = "finish"
  /\ UNCHANGED <<sourceVars, storeVars, targetVars, part, listed, matched, entry, seen, faults>>

Load ==
  /\ Loads
  /\ matched => target # <<>>
  /\ LoadEffect(LoadKind, LoadRows, part)
  /\ overtaken' = (overtaken /\ target # <<>> /\ LoadKind = "append")
  /\ pc' = AfterLoad
  /\ UNCHANGED <<sourceVars, storeVars, lateLoads, part, listed, matched, entry, seen, faults>>

(* The partition was dropped since it was looked up.                       *)
LoadRejected ==
  /\ Loads
  /\ matched /\ target = <<>>
  /\ Return
  /\ UNCHANGED <<sourceVars, storeVars, targetVars, entry, seen, faults>>

ConfirmTarget ==
  /\ pc = "confirmTarget"
  /\ IF target # <<>>
     THEN pc' = "finish" /\ UNCHANGED <<part, listed, matched>>
     ELSE Return
  /\ UNCHANGED <<sourceVars, storeVars, targetVars, entry, seen, faults>>

Finish ==
  /\ pc = "finish"
  /\ entry' = IF part = ident
              THEN [entry EXCEPT !.imported = part, !.inProgress = FALSE]
              ELSE entry
  /\ Return
  /\ UNCHANGED <<sourceVars, storeVars, targetVars, seen, faults>>

-----------------------------------------------------------------------------
(***************************************************************************)
(* Errors and crashes.  A call that fails returns from syncPartition with  *)
(* the row as last saved; a crash, or a row that cannot be saved, also     *)
(* ends the process, and the partition lists it held are gone.             *)
(***************************************************************************)
GiveUp ==
  /\ faults < MaxFaults
  /\ faults' = faults + 1
  /\ Return
  /\ seen' \in {seen, [c \in Callers |-> 0]}

Fail ==
  /\ pc # "idle"
  /\ GiveUp
  /\ UNCHANGED <<sourceVars, storeVars, targetVars, entry>>

(* OUTFILE runs on in the source after its client is gone.                 *)
ExportAbandoned ==
  /\ pc = "export"
  /\ Cardinality(staleExports) < MaxStale
  /\ staleExports' = staleExports \cup {[gen |-> entry.prefix, rows |-> RowsOf(ident)]}
  /\ GiveUp
  /\ UNCHANGED <<sourceVars, store, targetVars, entry>>

(* A load runs on in the target after its client is gone.                  *)
LoadAbandoned ==
  /\ opts.lateLoads
  /\ Loads
  /\ lateLoads' = lateLoads \cup {[kind |-> LoadKind, rows |-> LoadRows, id |-> part]}
  /\ GiveUp
  /\ UNCHANGED <<sourceVars, storeVars, target, stray, shown, overtaken, entry>>

-----------------------------------------------------------------------------
Environment == SourceChange \/ TargetDropped \/ StaleExportWrites \/ LateLoadCommits

Listing == ListTable \/ RefreshListed \/ ScanPicks

Call(c) == SkipEmpty(c) \/ Start(c)

SyncPartition ==
  \/ SkipUnchanged \/ ForgetImport
  \/ NewGeneration \/ Clear \/ Export \/ ListBackup \/ Probe \/ ConfirmBackup
  \/ VerifyObjects \/ VerifySource \/ MatchTarget
  \/ SkipLoad \/ Load \/ LoadRejected \/ ConfirmTarget \/ Finish

Faults == Fail \/ ExportAbandoned \/ LoadAbandoned

Next == Environment \/ Listing \/ (\E c \in Callers : Call(c)) \/ SyncPartition \/ Faults

Spec == Init /\ [][Next]_vars

(***************************************************************************)
(* The service runs one cycle after another and every statement returns or *)
(* fails in time; it owes nothing to the refreshes and the version scan,   *)
(* which depend on the clock.                                              *)
(***************************************************************************)
Fairness == /\ WF_vars(ListTable)
            /\ \A c \in Callers : WF_vars(Call(c))
            /\ WF_vars(SyncPartition)

FairSpec == Spec /\ Fairness

-----------------------------------------------------------------------------
Steps == {"idle", "checkTarget", "newGeneration", "clear", "export", "listBackup",
          "probe", "confirmBackup", "verifyObjects", "verifySource", "matchTarget",
          "load", "confirmTarget", "finish"}

Entries == [source : 0..MaxVersion, ready : BOOLEAN, backup : 0..MaxVersion,
            prefix : Gens \cup {NoGen}, objects : Rows, imported : 0..MaxVersion,
            inProgress : BOOLEAN]

StaleExports == [gen : Gens, rows : Rows]
LateLoads == [kind : {"partition", "auto", "append"}, rows : Rows, id : Identity]

(* The type invariant of the checkpoint row, the servers and the call.     *)
TypeOK ==
  /\ opts \in Options
  /\ ident \in Identity
  /\ empties \subseteq Identity
  /\ store \in [Gens -> Rows]
  /\ staleExports \subseteq StaleExports
  /\ target \in Seq(Rows)
  /\ stray \in Seq(Rows)
  /\ lateLoads \subseteq LateLoads
  /\ entry \in Entries
  /\ pc \in Steps
  /\ part \in IF pc = "idle" THEN {0} ELSE Identity
  /\ listed \in Rows
  /\ matched \in BOOLEAN
  /\ seen \in [Callers -> 0..MaxVersion]
  /\ shown \in 0..MaxVersion
  /\ overtaken \in BOOLEAN
  /\ faults \in 0..MaxFaults

(* A backup the row calls ready holds the rows of the identity it is       *)
(* recorded for and nothing else, and no abandoned OUTFILE can still write *)
(* to it (syncPartition's fresh generation, its check of the identity      *)
(* after the export; a stale OUTFILE never contaminates an import).        *)
BackupSound ==
  entry.ready => /\ entry.backup \in Identity
                 /\ entry.objects = RowsOf(entry.backup)
                 /\ store[entry.prefix] = entry.objects
                 /\ \A e \in staleExports : e.gen # entry.prefix

(* When the row says that the present identity was imported, a target      *)
(* partition, if there is one, shows the rows of that identity, each once: *)
(* this is what skipping the partition as unchanged relies on.  Only a load *)
(* that commits late can make it wrong, until a call replaces the rows.    *)
CheckpointSound ==
  /\ ~overtaken
  /\ entry.ready
  /\ entry.imported = ident
  /\ ~entry.inProgress
  /\ target # <<>>
  => target = <<RowsOf(ident)>>

(* The phase --status reports for the row.                                 *)
StatusPhase_AnyVersion ==
  IF entry.imported # 0 /\ entry.prefix # NoGen /\ ~entry.inProgress
  THEN "incremental_monitoring" ELSE "incremental_syncing"

StatusPhase ==
  CASE entry.imported # 0 /\ entry.imported = entry.source /\ entry.prefix # NoGen
         /\ ~entry.inProgress -> "incremental_monitoring"
    [] entry.imported # 0 -> "incremental_syncing"
    [] OTHER -> IF entry.ready THEN "initial_import" ELSE "initial_backup"

(* A partition reported as monitored, its backup being ready, shows in the *)
(* target the version reported as imported, whatever the source has come   *)
(* to by now, if no late load has put its rows there since.                *)
MonitoredShown ==
  /\ ~overtaken
  /\ entry.ready
  /\ StatusPhase = "incremental_monitoring"
  /\ target # <<>>
  => target = <<RowsOf(entry.imported)>>

(* The target partition shows rows of a single load, that of one whole     *)
(* snapshot of the source: no mix of versions and no row twice, whatever   *)
(* call failed and wherever the process crashed.  Late commits can break   *)
(* it only where a plain INSERT is used, on a table with automatic         *)
(* partitioning, and only until a call replaces the rows.                  *)
TargetWhole ==
  \/ opts.auto /\ overtaken
  \/ target \in {<<>>, <<{}>>, <<{0}>>}
  \/ \E i \in 1..ident : target = <<RowsOf(i)>>

(* The row and the target agree with the source as it is now.              *)
Synced == /\ entry.ready
          /\ entry.imported = ident
          /\ ~entry.inProgress
          /\ IF RowsOf(ident) = {} THEN target \in {<<>>, <<{}>>}
                                   ELSE target = <<RowsOf(ident)>>

(* Once the source stays the same and errors end, the partition of a table *)
(* with automatic partitioning is imported for good: the cycle retries     *)
(* whatever was cut short, and every error it meets on its way is undone.  *)
EventuallySynced == (opts.auto /\ opts.compatible /\ ~opts.force) => <>[]Synced

(* If the target partition cannot be matched after the import, the tool    *)
(* stops for that partition to prevent duplicate writes, says README.md:   *)
(* the rows that went to partitions that do not match are there once.      *)
StopsWhenUnmatched == Len(stray) <= 1

(* The synchroniser implements its promise: every step refreshes the       *)
(* target from a snapshot no older than the one shown, or leaves it alone. *)
Promise == INSTANCE Replica WITH source <- ident, blank <- empties,
                                 position <- shown, shown <- target

ImplementsReplica == Promise!Spec

(* Where loads may commit late, only such a commit itself brings back      *)
(* older rows, and what the program does next keeps the promise again.     *)
RefreshesForward ==
  [][LateLoadCommits \/ (opts.auto /\ overtaken) \/ Promise!Next \/ UNCHANGED Promise!vars]_vars
=============================================================================
