---------------------------- MODULE HourlyWindow ----------------------------
(***************************************************************************)
(* hourly-window mode for one table: hourly.go exports the rows of one     *)
(* hour after another by a time field and appends them to the target, with *)
(* a cursor and a pending window in one SQLite row.  Tables are handled    *)
(* one at a time and keep separate rows, so one table is modelled.         *)
(*                                                                         *)
(* Absolute time is counted in hours; the cursor, like the time field of a *)
(* row, is a local time without zone, and a zone says which local hour     *)
(* each absolute hour shows.  Only the hour of a row matters.              *)
(*                                                                         *)
(* Every step is one call to a server or one save of the SQLite row, which *)
(* is read anew in each cycle; a failed save ends the process.             *)
(*                                                                         *)
(* A definition with an underscore in its name is a slip one could make in *)
(* the definition after it; the properties tell the two apart.             *)
(***************************************************************************)
EXTENDS Integers, FiniteSets

CONSTANTS Rows,       \* rows that may turn up in the source table
          HourOf,     \* the local hour each row's time field lies in
          Zones,      \* the time zones a behaviour may run in
          MaxHour,    \* bound: the last absolute hour
          MaxFaults   \* bound: errors and crashes

Hours == 0..MaxHour

(***************************************************************************)
(* local : the local hour shown by each absolute hour                      *)
(* read  : the absolute hour that local hour is read as by Go's time.Date  *)
(*         and time.ParseInLocation, which know the local hour only; the   *)
(*         documentation of package time leaves open which of two          *)
(*         occurrences they take (the later one in zones east of Greenwich *)
(*         and the earlier one west of it)                                 *)
(***************************************************************************)
ASSUME HourAssumption  == MaxHour \in Nat /\ MaxFaults \in Nat
ASSUME RowsAssumption  == IsFiniteSet(Rows) /\ HourOf \in [Rows -> Int]
ASSUME ZonesAssumption == \A z \in Zones :
  /\ z.local \in [Hours -> Int] /\ z.read \in [Hours -> Hours]
  /\ \A h, k \in Hours : z.local[h] = z.local[k] => z.read[h] = z.read[k]
  /\ \A h \in Hours : z.local[z.read[h]] = z.local[h]

NoWindow == [open |-> FALSE, from |-> 0, to |-> 0, prefix |-> 0,
             ready |-> FALSE, started |-> FALSE, objects |-> {}]

VARIABLES
  zone,      \* the time zone, fixed
  clock,     \* the present absolute hour
  source,    \* the rows in the source table
  inTime,    \* history: rows that were there an hour after theirs had ended
  files,     \* object store: files with their prefix, export and rows
  stale,     \* OUTFILE statements given up by the client, still to write
  target,    \* copies of each row in the target table
  late,      \* files of an INSERT given up by the client, still to commit
  next,      \* the cursor: first local hour not yet completed
  pending,   \* the window being worked on
  pc,        \* next step of syncHourlyWindow, "idle" between windows
  prefixes,  \* prefixes drawn so far
  exports,   \* OUTFILE statements issued so far
  faults     \* errors and crashes so far

outside    == <<zone, clock, source, inTime>>
storeVars  == <<files, stale, exports>>
targetVars == <<target, late>>
cursorVars == <<next, pending, prefixes>>
vars == <<outside, storeVars, targetVars, cursorVars, pc, faults>>

Init == /\ zone \in Zones
        /\ clock = 0
        /\ source = {}
        /\ inTime = {}
        /\ files = {}
        /\ stale = {}
        /\ target = [r \in Rows |-> 0]
        /\ late = {}
        /\ next = zone.local[0]
        /\ pending = NoWindow
        /\ pc = "idle"
        /\ prefixes = 0
        /\ exports = 0
        /\ faults = 0

-----------------------------------------------------------------------------
(***************************************************************************)
(* Time and the source table.                                              *)
(***************************************************************************)
Tick == /\ clock < MaxHour
        /\ clock' = clock + 1
        /\ UNCHANGED <<zone, source, inTime, storeVars, targetVars, cursorVars, pc, faults>>

(* The absolute hours that show a local hour.                              *)
Showing(l) == {h \in Hours : zone.local[h] = l}

(* A row is committed in the source, in its hour or any time after.        *)
Arrive(r) ==
  /\ r \notin source
  /\ \E h \in Showing(HourOf[r]) : h <= clock
  /\ source' = source \cup {r}
  /\ inTime' = IF \E h \in Showing(HourOf[r]) : clock < h + 2
               THEN inTime \cup {r} ELSE inTime
  /\ UNCHANGED <<zone, clock, storeVars, targetVars, cursorVars, pc, faults>>

-----------------------------------------------------------------------------
(***************************************************************************)
(* The loop over windows, syncHourlyTable.                                 *)
(***************************************************************************)

(* The absolute hour a local hour is read as.                              *)
Resolve(l) == zone.read[CHOOSE h \in Showing(l) : TRUE]

(* hourlyCutoff: the start of the present local hour, less one hour.       *)
Cutoff_NoSlack == Resolve(zone.local[clock])

Cutoff == Resolve(zone.local[clock]) - 1

(* The window at the cursor can be imported: the cursor is an hour of the  *)
(* zone, the local time moves on in the window, and it ended by the cutoff.*)
Eligible ==
  /\ Showing(next) # {}
  /\ LET start == Resolve(next)
     IN  /\ start + 1 <= Cutoff
         /\ zone.local[start + 1] > zone.local[start]

WindowEnd == zone.local[Resolve(next) + 1]

(* A window is opened in the row before anything is done for it; one left  *)
(* from before is taken up where it stood.                                 *)
OpenWindow ==
  /\ pc = "idle"
  /\ Eligible
  /\ ~pending.open
  /\ pending' = [NoWindow EXCEPT !.open = TRUE, !.from = next, !.to = WindowEnd]
  /\ pc' = "newPrefix"
  /\ UNCHANGED <<outside, storeVars, targetVars, next, prefixes, faults>>

ResumeWindow ==
  /\ pc = "idle"
  /\ Eligible
  /\ pending.open
  /\ pending.from = next /\ pending.to = WindowEnd
  /\ pc' = IF pending.ready THEN "verify" ELSE "newPrefix"
  /\ UNCHANGED <<outside, storeVars, targetVars, cursorVars, faults>>

(* The loop ends at a window that is not over for an hour; it also ends, in *)
(* an error, where the local time does not move on.                        *)
NothingEligible == pc = "idle" /\ ~Eligible /\ UNCHANGED vars

-----------------------------------------------------------------------------
(***************************************************************************)
(* One window, syncHourlyWindow.                                           *)
(***************************************************************************)
InWindow(w, r) == w.from <= HourOf[r] /\ HourOf[r] < w.to

WindowRows(w) == {r \in source : InWindow(w, r)}

(* Each attempt exports to a prefix of its own.                            *)
FreshPrefix_Fixed == 1

FreshPrefix == prefixes + 1

NewPrefix ==
  /\ pc = "newPrefix"
  /\ prefixes' = prefixes + 1
  /\ pending' = [pending EXCEPT !.prefix = FreshPrefix, !.objects = {}]
  /\ pc' = "probe"
  /\ UNCHANGED <<outside, storeVars, targetVars, next, faults>>

(* finishHourly: the cursor moves to the end of the window in the same     *)
(* transaction that removes the window.                                    *)
Complete ==
  /\ next' = pending.to
  /\ pending' = NoWindow
  /\ UNCHANGED prefixes

(* A window without rows is completed at once.                             *)
ProbeEmpty_NoReturn ==
  /\ pc = "probe"
  /\ WindowRows(pending) = {}
  /\ Complete
  /\ pc' = "export"
  /\ UNCHANGED <<outside, storeVars, targetVars, faults>>

ProbeEmpty ==
  /\ pc = "probe"
  /\ WindowRows(pending) = {}
  /\ Complete
  /\ pc' = "idle"
  /\ UNCHANGED <<outside, storeVars, targetVars, faults>>

ProbeRows ==
  /\ pc = "probe"
  /\ WindowRows(pending) # {}
  /\ pc' = "export"
  /\ UNCHANGED <<outside, storeVars, targetVars, cursorVars, faults>>

(* The file OUTFILE writes: names never clash, so two exports to the same  *)
(* prefix would add up.                                                    *)
Exported == [prefix |-> pending.prefix, export |-> exports + 1, rows |-> WindowRows(pending)]

Export ==
  /\ pc = "export"
  /\ files' = files \cup {Exported}
  /\ exports' = exports + 1
  /\ pc' = "list"
  /\ UNCHANGED <<outside, stale, targetVars, cursorVars, faults>>

Stored(p) == {f \in files : f.prefix = p}

ListBackup ==
  /\ pc = "list"
  /\ Stored(pending.prefix) # {}
  /\ pending' = [pending EXCEPT !.objects = Stored(pending.prefix), !.ready = TRUE]
  /\ pc' = "verify"
  /\ UNCHANGED <<outside, storeVars, targetVars, next, prefixes, faults>>

Trusted_AnyOutcome == Stored(pending.prefix) = pending.objects

Trusted == Stored(pending.prefix) = pending.objects /\ ~pending.started

(* The files are gone or others were added, or an earlier import of this   *)
(* window may have committed: the window waits for an operator.            *)
Refuse ==
  /\ pc = "verify"
  /\ ~Trusted
  /\ pc' = "idle"
  /\ UNCHANGED <<outside, storeVars, targetVars, cursorVars, faults>>

(* The row says that the import started before it does.                    *)
MarkStarted_NotSaved ==
  /\ pc = "verify"
  /\ Trusted
  /\ pc' = "load"
  /\ UNCHANGED <<outside, storeVars, targetVars, cursorVars, faults>>

MarkStarted ==
  /\ pc = "verify"
  /\ Trusted
  /\ pending' = [pending EXCEPT !.started = TRUE]
  /\ pc' = "load"
  /\ UNCHANGED <<outside, storeVars, targetVars, next, prefixes, faults>>

(* A plain INSERT adds the rows of every file once more.                   *)
Inserted(fs) == [r \in Rows |-> target[r] + Cardinality({f \in fs : r \in f.rows})]

Load ==
  /\ pc = "load"
  /\ target' = Inserted(Stored(pending.prefix))
  /\ pc' = "finish"
  /\ UNCHANGED <<outside, storeVars, late, cursorVars, faults>>

Finish ==
  /\ pc = "finish"
  /\ Complete
  /\ pc' = "idle"
  /\ UNCHANGED <<outside, storeVars, targetVars, faults>>

-----------------------------------------------------------------------------
(***************************************************************************)
(* Errors and crashes leave the row as last saved.                         *)
(***************************************************************************)
GiveUp == /\ faults < MaxFaults
          /\ faults' = faults + 1
          /\ pc # "idle"
          /\ pc' = "idle"

Fail == /\ GiveUp
        /\ UNCHANGED <<outside, storeVars, targetVars, cursorVars>>

(* A statement may run on in the server after its client is gone.          *)
ExportAbandoned ==
  /\ pc = "export"
  /\ GiveUp
  /\ stale' = stale \cup {Exported}
  /\ exports' = exports + 1
  /\ UNCHANGED <<outside, files, targetVars, cursorVars>>

StaleExportWrites ==
  \E f \in stale :
    /\ stale' = stale \ {f}
    /\ files' = files \cup {f}
    /\ UNCHANGED <<outside, exports, targetVars, cursorVars, pc, faults>>

LoadAbandoned ==
  /\ pc = "load"
  /\ GiveUp
  /\ late' = Stored(pending.prefix)
  /\ UNCHANGED <<outside, storeVars, target, cursorVars>>

LateLoadCommits ==
  /\ late # {}
  /\ target' = Inserted(late)
  /\ late' = {}
  /\ UNCHANGED <<outside, storeVars, cursorVars, pc, faults>>

-----------------------------------------------------------------------------
Window == \/ NothingEligible
          \/ OpenWindow \/ ResumeWindow \/ NewPrefix \/ ProbeEmpty \/ ProbeRows
          \/ Export \/ ListBackup \/ Refuse \/ MarkStarted \/ Load \/ Finish

Faults == Fail \/ ExportAbandoned \/ LoadAbandoned \/ StaleExportWrites \/ LateLoadCommits

Next == Tick \/ (\E r \in Rows : Arrive(r)) \/ Window \/ Faults

Spec == Init /\ [][Next]_vars

(* Time passes, and the service runs one cycle after another.              *)
FairSpec == Spec /\ WF_vars(Tick) /\ WF_vars(Window)

-----------------------------------------------------------------------------
Steps == {"idle", "newPrefix", "probe", "export", "list", "verify", "load", "finish"}

Files == [prefix : Nat, export : Nat, rows : SUBSET Rows]

Windows == [open : BOOLEAN, from : Int, to : Int, prefix : Nat,
            ready : BOOLEAN, started : BOOLEAN, objects : SUBSET Files]

(* The type invariant; a step on a window happens only while one is open.  *)
TypeOK ==
  /\ zone \in Zones
  /\ clock \in Hours
  /\ inTime \subseteq source /\ source \subseteq Rows
  /\ files \subseteq Files /\ stale \subseteq Files /\ late \subseteq Files
  /\ target \in [Rows -> Nat]
  /\ next \in Int
  /\ pending \in Windows
  /\ pc \in Steps
  /\ pc # "idle" => pending.open
  /\ prefixes \in Nat /\ exports \in Nat
  /\ faults \in 0..MaxFaults

(* No source row is appended to the target twice, whatever call failed,    *)
(* wherever the process crashed and however late an abandoned OUTFILE or   *)
(* INSERT takes effect: an import of unknown outcome is never repeated.    *)
AtMostOnce == \A r \in Rows : target[r] <= 1

(* The local time never goes back, hours that repeat included, and a       *)
(* repeated hour is read as its first occurrence: so it is at fixed        *)
(* offsets, and where clocks are changed by an hour west of Greenwich.     *)
Steady(z) == /\ \A h, k \in Hours : h <= k => z.local[h] <= z.local[k]
             /\ \A h \in Hours : z.read[h] <= h

(* Nothing behind the cursor is missing: a row that was in the source by   *)
(* the time its hour had been over for an hour is in the target once the   *)
(* cursor is past its hour (no window is skipped or exported too soon).    *)
NoRowLost == \A r \in inTime :
               zone.local[0] <= HourOf[r] /\ HourOf[r] < next => target[r] >= 1

(* Nothing ahead of the cursor is in the target but rows of the pending    *)
(* window whose import started, so the cursor tells what an operator has   *)
(* to verify.                                                              *)
CursorCovers == \A r \in Rows :
  target[r] > 0 => HourOf[r] < next \/ (pending.started /\ InWindow(pending, r))

(* How far the copy of the window at the cursor is: an INSERT is under way,*)
(* has returned, or has started and nobody knows; and how far it reaches.  *)
Phase == IF ~pending.started THEN "none"
         ELSE IF pc = "load" \/ late # {} THEN "importing"
         ELSE IF pc = "finish" THEN "imported" ELSE "unknown"

Reach == IF pending.started THEN pending.to ELSE next

(* Every behaviour is one of HourlyCopy: whatever files and statements were*)
(* left behind, each window is appended at most once, in order and with    *)
(* every row that came in time, or the table waits for an operator.        *)
Promise == INSTANCE HourlyCopy WITH
  timely <- inTime, cursor <- next, end <- Reach, phase <- Phase

ImplementsCopy == Promise!Spec

(* The service catches up: in the end the cursor stands at a window that   *)
(* is not over, at a repeated hour, or at one whose import was cut short.  *)
CatchesUp == <>[](~Eligible \/ pending.started)
=============================================================================
