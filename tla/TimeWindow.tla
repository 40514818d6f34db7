----------------------------- MODULE TimeWindow -----------------------------
(***************************************************************************)
(* time-window mode for one partition: syncPartitionByMode decides whether *)
(* the partition is replaced as a whole by syncPartition, which            *)
(* PartitionSync models, or gets the rows past its watermark only, and     *)
(* seedWatermark records MAX(time_field) after a replacement.              *)
(*                                                                         *)
(* maxTime looks for the column max_time in a row that query has stored    *)
(* under maxtime, so it always answers "".  startDelta, resumeDelta and    *)
(* finishDelta are therefore never reached (DeltaUnreached) and have no    *)
(* actions here; no row ever holds a pending delta.                        *)
(*                                                                         *)
(* A definition with an underscore in its name is a slip one could make in *)
(* the definition after it, or in one case the mending of it.              *)
(***************************************************************************)
EXTENDS PartitionSync

VARIABLES
  advanced,       \* identities at which the latest time moved on
  watermark,      \* the checkpoint row's watermark, 0 for ""
  watermarkReady, \* whether it was recorded
  step,           \* next step of syncPartitionByMode, "idle" outside of it
                  \* and while syncPartition runs
  caller,         \* caller of syncPartitionByMode
  seedFor,        \* identity to record a watermark for after syncPartition
  newMax          \* what maxTime answered

rowVars    == <<watermark, watermarkReady>>
stepVars   == <<step, caller, seedFor, newMax>>
windowVars == <<vars, advanced, rowVars, stepVars>>

NoCaller == "none"

WindowInit == /\ Init
              /\ advanced = {}
              /\ watermark = 0
              /\ watermarkReady = FALSE
              /\ step = "idle"
              /\ caller = NoCaller
              /\ seedFor = 0
              /\ newMax = 0

-----------------------------------------------------------------------------
(***************************************************************************)
(* Times are counted by how often the latest one moved on; a partition     *)
(* without rows has none.                                                  *)
(***************************************************************************)
Newest(i) == IF RowsOf(i) = {} THEN 0 ELSE 1 + Cardinality(advanced \cap (1..i))

(* query stores each value under its column's name in lower case, without  *)
(* underscores and blanks.                                                 *)
normalizeHeader_Kept(name) == name

normalizeHeader(name) == CASE name = "max_time" -> "maxtime"

QueryMax == [h \in {normalizeHeader("max_time")} |-> Newest(ident)]

(* maxTime: a missing value and NULL read as "".                           *)
maxTime == IF "max_time" \in DOMAIN QueryMax THEN QueryMax["max_time"] ELSE 0

-----------------------------------------------------------------------------
(* The partition was imported and its watermark recorded.                  *)
Seeded == /\ entry.ready
          /\ ~entry.inProgress
          /\ entry.imported # 0
          /\ watermarkReady

StartFull(c) == /\ Start(c)
                /\ seedFor' = seen[c]
                /\ UNCHANGED step

(* Else it is imported as a whole, or found to be imported already.        *)
ImportFirst(c) ==
  /\ step = "idle"
  /\ ~Seeded
  /\ \/ StartFull(c)
     \/ SkipEmpty(c) /\ seedFor' = seen[c] /\ step' = "seed"
  /\ UNCHANGED <<advanced, rowVars, caller, newMax>>

(* An imported identity is only checked for its target partition.          *)
CheckCurrent(c) ==
  /\ step = "idle"
  /\ Seeded
  /\ entry.imported = seen[c]
  /\ Call(c)
  /\ UNCHANGED <<advanced, rowVars, stepVars>>

(* A partition with a new id is replaced; whether the id is new is open.   *)
ReplaceNewID(c) ==
  /\ step = "idle"
  /\ Seeded
  /\ entry.imported # seen[c]
  /\ StartFull(c)
  /\ UNCHANGED <<advanced, rowVars, caller, newMax>>

SameID(c) ==
  /\ step = "idle"
  /\ Seeded
  /\ Called(c)
  /\ entry.imported # seen[c]
  /\ step' = "matchTarget"
  /\ caller' = c
  /\ UNCHANGED <<vars, advanced, rowVars, seedFor, newMax>>

(* A missing target partition is restored as a whole.                      *)
MatchForDelta ==
  /\ step = "matchTarget"
  /\ step' = IF target = <<>> THEN "full" ELSE "maxTime"
  /\ UNCHANGED <<vars, advanced, rowVars, caller, seedFor, newMax>>

(* Rows are appended if the latest time moved on past the watermark; else  *)
(* the partition is replaced.                                              *)
ChooseDelta ==
  /\ step = "maxTime"
  /\ step' = IF watermark # 0 /\ maxTime # 0 /\ maxTime > watermark THEN "startDelta" ELSE "full"
  /\ UNCHANGED <<vars, advanced, rowVars, caller, seedFor, newMax>>

Replace ==
  /\ step = "full"
  /\ Start(caller)
  /\ seedFor' = seen[caller]
  /\ caller' = NoCaller
  /\ step' = "idle"
  /\ UNCHANGED <<advanced, rowVars, newMax>>

-----------------------------------------------------------------------------
(* syncPartition returns without an error.                                 *)
Succeeds_Always == TRUE

Succeeds == pc = "checkTarget" \/ (pc = "finish" /\ part = ident)

SyncStep ==
  /\ SyncPartition
  /\ step' = IF pc' = "idle" /\ Succeeds /\ seedFor # 0 THEN "seed" ELSE step
  /\ seedFor' = IF pc' = "idle" /\ ~Succeeds THEN 0 ELSE seedFor
  /\ UNCHANGED <<advanced, rowVars, caller, newMax>>

(* seedWatermark records what MAX was if the identity is still the same.   *)
SeedQuery ==
  /\ step = "seed"
  /\ newMax' = maxTime
  /\ step' = "confirmSeed"
  /\ UNCHANGED <<vars, advanced, rowVars, caller, seedFor>>

ConfirmSeed_Unchecked ==
  /\ step = "confirmSeed"
  /\ step' = "idle"
  /\ seedFor' = 0
  /\ newMax' = 0
  /\ UNCHANGED <<vars, advanced, rowVars, caller>>

ConfirmSeed ==
  /\ step = "confirmSeed"
  /\ IF seedFor = ident
     THEN watermark' = newMax /\ watermarkReady' = TRUE
     ELSE UNCHANGED rowVars
  /\ step' = "idle"
  /\ seedFor' = 0
  /\ newMax' = 0
  /\ UNCHANGED <<vars, advanced, caller>>

-----------------------------------------------------------------------------
(* The surroundings, the lists of the callers and what fails.              *)
WindowEnvironment ==
  /\ Environment
  /\ advanced' \in {advanced} \cup (IF ident' # ident THEN {advanced \cup {ident'}} ELSE {})
  /\ UNCHANGED <<rowVars, stepVars>>

(* A version scan also picks a partition without a watermark.              *)
ScanUnseeded ==
  /\ pc = "idle"
  /\ seen["scan"] = 0
  /\ entry.imported # 0
  /\ ~watermarkReady
  /\ seen' = [seen EXCEPT !["scan"] = ident]
  /\ UNCHANGED <<sourceVars, storeVars, targetVars, callVars, entry, faults>>

WindowListing(list) ==
  /\ step = "idle"
  /\ list
  /\ UNCHANGED <<advanced, rowVars, stepVars>>

SyncFails ==
  /\ Faults
  /\ seedFor' = 0
  /\ UNCHANGED <<advanced, rowVars, step, caller, newMax>>

StepFails ==
  /\ step # "idle"
  /\ faults < MaxFaults
  /\ faults' = faults + 1
  /\ step' = "idle"
  /\ caller' = NoCaller
  /\ seedFor' = 0
  /\ newMax' = 0
  /\ seen' \in {[c \in Callers |-> IF c = caller THEN 0 ELSE seen[c]], [c \in Callers |-> 0]}
  /\ UNCHANGED <<sourceVars, storeVars, targetVars, callVars, entry, advanced, rowVars>>

ByMode(c) == ImportFirst(c) \/ CheckCurrent(c) \/ ReplaceNewID(c) \/ SameID(c)

Steppings == \/ MatchForDelta \/ ChooseDelta \/ Replace
             \/ SyncStep \/ SeedQuery \/ ConfirmSeed

WindowNext == \/ WindowEnvironment
              \/ WindowListing(Listing \/ ScanUnseeded)
              \/ \E c \in Callers : ByMode(c)
              \/ Steppings
              \/ SyncFails \/ StepFails

WindowSpec == WindowInit /\ [][WindowNext]_windowVars

(* As for PartitionSync.                                                   *)
WindowFairSpec == /\ WindowSpec
                  /\ WF_windowVars(WindowListing(ListTable))
                  /\ \A c \in Callers : WF_windowVars(ByMode(c))
                  /\ WF_windowVars(Steppings)

-----------------------------------------------------------------------------
(* In time-window mode too the target partition shows one snapshot of the  *)
(* source, each row once, and no older one after a newer one.              *)
WindowImplementsReplica == Promise!Spec

(* No partition ever gets a watermark or a delta (maxTime against query).  *)
DeltaUnreached == watermark = 0 /\ newMax = 0 /\ step # "startDelta"

(* A watermark is only ever recorded for a partition that was imported as  *)
(* a whole, and the decision for a delta or against it is only taken for a *)
(* version that is not imported (syncPartitionByMode, whose fields syncs   *)
(* cut short leave behind).                                                *)
SeedFollowsImport ==
  /\ step \in {"seed", "confirmSeed"} =>
       pc = "idle" /\ entry.ready /\ entry.imported = seedFor /\ ~entry.inProgress
  /\ step \in {"matchTarget", "maxTime", "full"} =>
       pc = "idle" /\ Seeded /\ seen[caller] \notin {0, entry.imported}

(* Once the source stays the same and errors end, the partition is up to   *)
(* date, its watermark recorded, and stays so.                             *)
EventuallyMonitored == opts.auto => <>[](Synced /\ watermarkReady)

(* When the version of a partition changes and its latest time moved on,   *)
(* README.md says, the rows in between are exported and appended; only if  *)
(* the maximum time does not advance is the partition replaced.            *)
AdvancedByDelta ==
  [][step = "maxTime" /\ step' = "full" =>
       Newest(entry.imported) = 0 \/ Newest(ident) <= Newest(entry.imported)]_windowVars
=============================================================================
