----------------------------- MODULE StateFile -----------------------------
(***************************************************************************)
(* The settings and tasks in a SQLite state file, and the processes that   *)
(* use the file: the service in one of its modes (run of main.go), which   *)
(* holds the lock file, and "task add" commands (runTaskCommand of         *)
(* taskcli.go), which do not.  Each SQL statement, or transaction, is a    *)
(* step, as is opening the file, which reads the mode and time field and   *)
(* compares them at once.                                                  *)
(*                                                                         *)
(* The tasks are those for one source table and target database: the tasks *)
(* of others are rows of their own.  An argument stands for a time field,  *)
(* a first window and a time zone, which are only compared.                *)
(*                                                                         *)
(* A definition with an underscore in its name is a slip one could make in *)
(* the definition after it; the properties tell the two apart.             *)
(***************************************************************************)
EXTENDS Naturals, FiniteSets

CONSTANTS Procs,     \* processes
          Args,      \* arguments they may be started with
          None,      \* an absent value
          Overlap    \* whether a process may start while another starts up: set of BOOLEAN

AddCommands == {"addHourly", "addFull"}
Services    == {"overwrite", "time-window", "static", "managed"}
Keys        == {"hourly_start", "time_zone"}

ASSUME ConstantsAssumption ==
  /\ None \notin Args \cup Procs \cup AddCommands \cup Services \cup {"hourly-window"}
  /\ Overlap \subseteq BOOLEAN

VARIABLES
  overlap,    \* whether a process may start while another starts up, fixed
  mode,       \* metadata: mode
  timeField,  \* metadata: time_field
  managed,    \* metadata: hourly_managed is there
  settings,   \* metadata: hourly_start and time_zone
  hourly,     \* whether hourly_task has a row for the table
  full,       \* whether full_table_task has a row for the table
  lock,       \* process that holds the lock file
  cmd,        \* what each process runs
  arg,        \* its argument
  pc          \* its next step

metadata == <<mode, timeField, managed, settings>>
tasks    == <<hourly, full>>
procVars == <<cmd, arg>>
vars == <<overlap, metadata, tasks, lock, procVars, pc>>

Init == /\ overlap \in Overlap
        /\ mode = None
        /\ timeField = None
        /\ managed = FALSE
        /\ settings = [k \in Keys |-> None]
        /\ hourly = FALSE
        /\ full = FALSE
        /\ lock = None
        /\ cmd = [p \in Procs |-> None]
        /\ arg = [p \in Procs |-> None]
        /\ pc = [p \in Procs |-> "idle"]

Goto(p, s) == pc' = [pc EXCEPT ![p] = s]

(* The process ends, and with it its hold on the lock file.                *)
End(p) ==
  /\ Goto(p, "idle")
  /\ cmd' = [cmd EXCEPT ![p] = None]
  /\ arg' = [arg EXCEPT ![p] = None]
  /\ lock' = IF lock = p THEN None ELSE lock

ModeOf(c) == IF c \in {"overwrite", "time-window"} THEN c ELSE "hourly-window"

FieldOf(p) == IF cmd[p] \in {"time-window", "static"} THEN arg[p] ELSE None

-----------------------------------------------------------------------------
(* A process is started.                                                   *)
Launch(p) ==
  /\ pc[p] = "idle"
  /\ overlap \/ \A q \in Procs : pc[q] \in {"idle", "running"}
  /\ \E c \in AddCommands \cup Services, a \in Args :
       /\ cmd' = [cmd EXCEPT ![p] = c]
       /\ arg' = [arg EXCEPT ![p] = a]
       /\ Goto(p, IF c \in Services THEN "lock" ELSE "open")
  /\ UNCHANGED <<overlap, metadata, tasks, lock>>

(* The service takes the lock file or ends.                                *)
Lock_Shared(p) ==
  /\ pc[p] = "lock"
  /\ lock' = p
  /\ Goto(p, "open")
  /\ UNCHANGED <<procVars, overlap, metadata, tasks>>

Lock(p) ==
  /\ pc[p] = "lock"
  /\ IF lock = None
     THEN lock' = p /\ Goto(p, "open") /\ UNCHANGED procVars
     ELSE End(p)
  /\ UNCHANGED <<overlap, metadata, tasks>>

(* What the file recorded must agree with the command.                     *)
Agrees_AnyMode(p) == cmd[p] \in AddCommands \/ timeField \in {None, FieldOf(p)}

Agrees(p) == /\ mode \in {None, ModeOf(cmd[p])}
             /\ cmd[p] \in AddCommands \/ timeField \in {None, FieldOf(p)}

AfterOpen(c) == CASE c \in AddCommands \cup {"managed"} -> "checkStatic"
                  [] c = "static"                      -> "checkManaged"
                  [] OTHER                             -> "saveMetadata"

Open(p) ==
  /\ pc[p] = "open"
  /\ IF Agrees(p)
     THEN Goto(p, AfterOpen(cmd[p])) /\ UNCHANGED <<lock, procVars>>
     ELSE End(p)
  /\ UNCHANGED <<overlap, metadata, tasks>>

(* checkManagedHourlySettings: the file must not be one of the static mode.*)
IsStatic_Never == FALSE

IsStatic == settings["hourly_start"] # None

CheckStatic(p) ==
  /\ pc[p] = "checkStatic"
  /\ IF IsStatic
     THEN End(p)
     ELSE Goto(p, "recordManaged") /\ UNCHANGED <<lock, procVars>>
  /\ UNCHANGED <<overlap, metadata, tasks>>

RecordManaged(p) ==
  /\ pc[p] = "recordManaged"
  /\ managed' = TRUE
  /\ Goto(p, IF cmd[p] \in AddCommands THEN "checkOther" ELSE "saveMetadata")
  /\ UNCHANGED <<overlap, mode, timeField, settings, tasks, lock, procVars>>

(* checkHourlySettings: the file must not be one of managed tasks, and the *)
(* settings recorded, in either order, must be those of the command.       *)
CheckManaged(p) ==
  /\ pc[p] = "checkManaged"
  /\ IF managed
     THEN End(p)
     ELSE Goto(p, "recordSettings") /\ UNCHANGED <<lock, procVars>>
  /\ UNCHANGED <<overlap, metadata, tasks>>

Recorded_Replaced(k, p) == arg[p]

Recorded(k, p) == IF settings[k] = None THEN arg[p] ELSE settings[k]

RecordSetting(p) ==
  /\ pc[p] = "recordSettings"
  /\ \E k \in Keys :
       /\ settings' = [settings EXCEPT ![k] = Recorded(k, p)]
       /\ IF settings'[k] # arg[p]
          THEN End(p)
          ELSE /\ Goto(p, IF settings'[CHOOSE l \in Keys \ {k} : TRUE] = arg[p]
                          THEN "saveMetadata" ELSE "recordSettings")
               /\ UNCHANGED <<lock, procVars>>
  /\ UNCHANGED <<overlap, mode, timeField, managed, tasks>>

(* addHourlyTask and addFullTableTask: the table must have no task of the  *)
(* other kind.                                                             *)
HasOther_Never(p) == FALSE

HasOther(p) == IF cmd[p] = "addHourly" THEN full ELSE hourly

CheckOther(p) ==
  /\ pc[p] = "checkOther"
  /\ IF HasOther(p)
     THEN End(p)
     ELSE Goto(p, "saveMetadata") /\ UNCHANGED <<lock, procVars>>
  /\ UNCHANGED <<overlap, metadata, tasks>>

(* One transaction saves mode and time field.                              *)
SaveMetadata(p) ==
  /\ pc[p] = "saveMetadata"
  /\ mode' = ModeOf(cmd[p])
  /\ timeField' = FieldOf(p)
  /\ Goto(p, IF cmd[p] \in AddCommands THEN "insert" ELSE "running")
  /\ UNCHANGED <<overlap, managed, settings, tasks, lock, procVars>>

(* A second row for the table would have the same key.                     *)
InsertTask(p) ==
  /\ pc[p] = "insert"
  /\ IF cmd[p] = "addHourly"
     THEN hourly' = TRUE /\ UNCHANGED full
     ELSE full' = TRUE /\ UNCHANGED hourly
  /\ End(p)
  /\ UNCHANGED <<overlap, metadata>>

(* A process is stopped, fails or crashes.                                 *)
Stop(p) ==
  /\ pc[p] # "idle"
  /\ End(p)
  /\ UNCHANGED <<overlap, metadata, tasks>>

Next == \E p \in Procs :
  \/ Launch(p) \/ Lock(p) \/ Open(p) \/ CheckStatic(p) \/ RecordManaged(p)
  \/ CheckManaged(p) \/ RecordSetting(p) \/ CheckOther(p) \/ SaveMetadata(p)
  \/ InsertTask(p) \/ Stop(p)

Spec == Init /\ [][Next]_vars

-----------------------------------------------------------------------------
Steps == {"idle", "lock", "open", "checkStatic", "recordManaged", "checkManaged",
          "recordSettings", "checkOther", "saveMetadata", "insert", "running"}

(* The type invariant; a service past its first step holds the lock.       *)
TypeOK ==
  /\ overlap \in Overlap
  /\ mode \in {None, "overwrite", "time-window", "hourly-window"}
  /\ timeField \in Args \cup {None}
  /\ managed \in BOOLEAN
  /\ settings \in [Keys -> Args \cup {None}]
  /\ hourly \in BOOLEAN /\ full \in BOOLEAN
  /\ lock \in Procs \cup {None}
  /\ cmd \in [Procs -> AddCommands \cup Services \cup {None}]
  /\ arg \in [Procs -> Args \cup {None}]
  /\ pc \in [Procs -> Steps]
  /\ \A p \in Procs : cmd[p] \in Services /\ pc[p] # "lock" => lock = p

(* A table is not accepted in two task modes.                              *)
OneTaskMode == ~(hourly /\ full)

OneTaskModeApart == ~overlap => OneTaskMode

(* Managed and static hourly modes use separate state files, as long as no *)
(* two processes start up at the same time.                                *)
KindsApart == ~overlap => ~(managed /\ settings["hourly_start"] # None)

(* While a service runs, what the file records is what it was started      *)
(* with: a command that registers tasks or a second service never changes  *)
(* the ground under it, again unless they start up at the same time.       *)
ServiceAgrees ==
  \A p \in Procs :
    ~overlap /\ pc[p] = "running" =>
      /\ mode = ModeOf(cmd[p]) /\ timeField = FieldOf(p)
      /\ cmd[p] = "managed" => managed
      /\ cmd[p] = "static" => \A k \in Keys : settings[k] = arg[p]

(* Mode, time field and settings cannot be changed on restart.             *)
SettingsFixed ==
  [][/\ ~overlap /\ mode # None => mode' = mode
     /\ ~overlap /\ timeField # None => timeField' = timeField
     /\ \A k \in Keys : settings[k] # None => settings'[k] = settings[k]]_vars
=============================================================================
