-------------------------- MODULE StateFileProofs --------------------------
(***************************************************************************)
(* Proofs about StateFile, for any processes and arguments.                *)
(***************************************************************************)
EXTENDS StateFile, TLAPS

(***************************************************************************)
(* The inductive invariant.  A process knows its command until it ends,    *)
(* and is at one of the steps of that command.                             *)
(***************************************************************************)
ForManaged(p) == cmd[p] \in AddCommands \cup {"managed"}

ControlInv ==
  \A p \in Procs :
    /\ pc[p] = "idle" <=> cmd[p] = None
    /\ pc[p] # "idle" => arg[p] \in Args
    /\ pc[p] \in {"lock", "running"} => cmd[p] \in Services
    /\ pc[p] \in {"checkStatic", "recordManaged"} => ForManaged(p)
    /\ pc[p] \in {"checkManaged", "recordSettings"} => cmd[p] = "static"
    /\ pc[p] \in {"checkOther", "insert"} => cmd[p] \in AddCommands

(* Processes start up one at a time, if they are told to.                  *)
Starting(p) == pc[p] \notin {"idle", "running"}

AloneInv == ~overlap => \A p, q \in Procs : Starting(p) /\ Starting(q) => p = q

(* What a process has found in the file is still so.                       *)
Opened == {"checkStatic", "recordManaged", "checkManaged", "recordSettings", "checkOther",
           "saveMetadata"}

FoundInv ==
  ~overlap =>
    \A p \in Procs :
      /\ pc[p] \in Opened => Agrees(p)
      /\ ForManaged(p) =>
           /\ pc[p] \in {"recordManaged", "checkOther", "saveMetadata", "insert"} => ~IsStatic
           /\ pc[p] \in {"checkOther", "saveMetadata", "insert"} => managed
      /\ cmd[p] = "static" =>
           /\ pc[p] \in {"recordSettings", "saveMetadata"} => ~managed
           /\ pc[p] = "saveMetadata" => \A k \in Keys : settings[k] = arg[p]
      /\ cmd[p] \in AddCommands /\ pc[p] \in {"saveMetadata", "insert"} => ~HasOther(p)

(* A time field is recorded in two of the modes.                           *)
FieldInv ==
  ~overlap /\ timeField # None =>
    mode = "time-window" \/ (mode = "hourly-window" /\ IsStatic)

IInv == /\ TypeOK /\ ControlInv /\ AloneInv /\ FoundInv /\ FieldInv
        /\ OneTaskModeApart /\ KindsApart /\ ServiceAgrees

Step(p) ==
  \/ Launch(p) \/ Lock(p) \/ Open(p) \/ CheckStatic(p) \/ RecordManaged(p)
  \/ CheckManaged(p) \/ RecordSetting(p) \/ CheckOther(p) \/ SaveMetadata(p)
  \/ InsertTask(p) \/ Stop(p)

-----------------------------------------------------------------------------
LEMMA InitInv == Init => IInv
  BY ConstantsAssumption
  DEF Init, IInv, TypeOK, ControlInv, AloneInv, FoundInv, FieldInv, OneTaskModeApart,
      OneTaskMode, KindsApart, ServiceAgrees, Starting, ForManaged, Opened, Steps,
      AddCommands, Services, Keys

(* There are two keys.                                                     *)
Other(k) == CHOOSE l \in Keys \ {k} : TRUE

LEMMA OtherKey == \A k \in Keys : Keys = {k, Other(k)}
<1>. SUFFICES ASSUME NEW k \in Keys PROVE Keys = {k, Other(k)}
  OBVIOUS
<1>1. \E l \in Keys \ {k} : TRUE
  BY DEF Keys
<1>2. Other(k) \in Keys \ {k}
  BY <1>1 DEF Other
<1>. QED
  BY <1>2 DEF Keys


LEMMA TypeStep ==
  ASSUME IInv, [Next]_vars
  PROVE  TypeOK'
<1>. USE ConstantsAssumption DEF IInv, TypeOK, ControlInv, End, Goto, Steps, AddCommands, Services
<1>1. CASE UNCHANGED vars
  BY <1>1 DEF vars, metadata, tasks, procVars
<1>2. ASSUME NEW p \in Procs, Step(p) PROVE TypeOK'
  <2>1. CASE Launch(p)
    BY <2>1 DEF Launch, metadata, tasks, procVars
  <2>2. CASE Lock(p)
    BY <2>2 DEF Lock, metadata, tasks, procVars
  <2>3. CASE Open(p)
    BY <2>3 DEF Open, metadata, tasks, procVars, AfterOpen
  <2>4. CASE CheckStatic(p)
    BY <2>4 DEF CheckStatic, metadata, tasks, procVars
  <2>5. CASE RecordManaged(p)
    BY <2>5 DEF RecordManaged, metadata, tasks, procVars
  <2>6. CASE CheckManaged(p)
    BY <2>6 DEF CheckManaged, metadata, tasks, procVars
  <2>7. CASE RecordSetting(p)
    BY <2>7 DEF RecordSetting, metadata, tasks, procVars, Recorded, Keys
  <2>8. CASE CheckOther(p)
    BY <2>8 DEF CheckOther, metadata, tasks, procVars
  <2>9. CASE SaveMetadata(p)
    BY <2>9 DEF SaveMetadata, metadata, tasks, procVars, ModeOf, FieldOf
  <2>10. CASE InsertTask(p)
    BY <2>10 DEF InsertTask, metadata, tasks, procVars
  <2>11. CASE Stop(p)
    BY <2>11 DEF Stop, metadata, tasks, procVars
  <2>. QED
    BY <1>2, <2>1, <2>2, <2>3, <2>4, <2>5, <2>6, <2>7, <2>8, <2>9, <2>10, <2>11 DEF Step
<1>. QED
  BY <1>1, <1>2 DEF Next, Step


LEMMA ControlStep ==
  ASSUME IInv, [Next]_vars
  PROVE  ControlInv'
<1>. USE ConstantsAssumption DEF IInv, TypeOK, ControlInv, End, Goto, Steps, AddCommands, Services, ForManaged
<1>1. CASE UNCHANGED vars
  BY <1>1 DEF vars, metadata, tasks, procVars
<1>2. ASSUME NEW p \in Procs, Step(p) PROVE ControlInv'
  <2>1. CASE Launch(p)
    BY <2>1 DEF Launch, metadata, tasks, procVars
  <2>2. CASE Lock(p)
    BY <2>2 DEF Lock, metadata, tasks, procVars
  <2>3. CASE Open(p)
    BY <2>3 DEF Open, metadata, tasks, procVars, AfterOpen
  <2>4. CASE CheckStatic(p)
    BY <2>4 DEF CheckStatic, metadata, tasks, procVars
  <2>5. CASE RecordManaged(p)
    BY <2>5 DEF RecordManaged, metadata, tasks, procVars
  <2>6. CASE CheckManaged(p)
    BY <2>6 DEF CheckManaged, metadata, tasks, procVars
  <2>7. CASE RecordSetting(p)
    BY <2>7 DEF RecordSetting, metadata, tasks, procVars
  <2>8. CASE CheckOther(p)
    BY <2>8 DEF CheckOther, metadata, tasks, procVars
  <2>9. CASE SaveMetadata(p)
    BY <2>9 DEF SaveMetadata, metadata, tasks, procVars
  <2>10. CASE InsertTask(p)
    BY <2>10 DEF InsertTask, metadata, tasks, procVars
  <2>11. CASE Stop(p)
    BY <2>11 DEF Stop, metadata, tasks, procVars
  <2>. QED
    BY <1>2, <2>1, <2>2, <2>3, <2>4, <2>5, <2>6, <2>7, <2>8, <2>9, <2>10, <2>11 DEF Step
<1>. QED
  BY <1>1, <1>2 DEF Next, Step


LEMMA AloneStep ==
  ASSUME IInv, [Next]_vars
  PROVE  AloneInv'
<1>. USE ConstantsAssumption DEF IInv, TypeOK, ControlInv, AloneInv, Starting, End, Goto
<1>1. CASE UNCHANGED vars
  BY <1>1 DEF vars, metadata, tasks, procVars
<1>2. ASSUME NEW p \in Procs, Step(p) PROVE AloneInv'
  <2>1. CASE Launch(p)
    BY <2>1 DEF Launch, metadata, tasks, procVars
  <2>2. CASE Lock(p)
    BY <2>2 DEF Lock, metadata, tasks, procVars
  <2>3. CASE Open(p)
    BY <2>3 DEF Open, metadata, tasks, procVars
  <2>4. CASE CheckStatic(p)
    BY <2>4 DEF CheckStatic, metadata, tasks, procVars
  <2>5. CASE RecordManaged(p)
    BY <2>5 DEF RecordManaged, metadata, tasks, procVars
  <2>6. CASE CheckManaged(p)
    BY <2>6 DEF CheckManaged, metadata, tasks, procVars
  <2>7. CASE RecordSetting(p)
    BY <2>7 DEF RecordSetting, metadata, tasks, procVars
  <2>8. CASE CheckOther(p)
    BY <2>8 DEF CheckOther, metadata, tasks, procVars
  <2>9. CASE SaveMetadata(p)
    BY <2>9 DEF SaveMetadata, metadata, tasks, procVars
  <2>10. CASE InsertTask(p)
    BY <2>10 DEF InsertTask, metadata, tasks, procVars
  <2>11. CASE Stop(p)
    BY <2>11 DEF Stop, metadata, tasks, procVars
  <2>. QED
    BY <1>2, <2>1, <2>2, <2>3, <2>4, <2>5, <2>6, <2>7, <2>8, <2>9, <2>10, <2>11 DEF Step
<1>. QED
  BY <1>1, <1>2 DEF Next, Step


LEMMA FoundStep ==
  ASSUME IInv, [Next]_vars
  PROVE  FoundInv'
<1>. USE ConstantsAssumption DEF IInv, TypeOK, ControlInv, AloneInv, Starting, FoundInv, Opened, ForManaged, End, Goto, AddCommands, Services, Agrees, ModeOf, FieldOf, IsStatic, HasOther
<1>1. CASE UNCHANGED vars
  BY <1>1 DEF vars, metadata, tasks, procVars
<1>2. ASSUME NEW p \in Procs, Step(p) PROVE FoundInv'
  <2>1. CASE Launch(p)
    BY <2>1 DEF Launch, metadata, tasks, procVars
  <2>2. CASE Lock(p)
    BY <2>2 DEF Lock, metadata, tasks, procVars
  <2>3. CASE Open(p)
    BY <2>3 DEF Open, metadata, tasks, procVars, AfterOpen
  <2>4. CASE CheckStatic(p)
    BY <2>4 DEF CheckStatic, metadata, tasks, procVars
  <2>5. CASE RecordManaged(p)
    BY <2>5 DEF RecordManaged, metadata, tasks, procVars
  <2>6. CASE CheckManaged(p)
    BY <2>6 DEF CheckManaged, metadata, tasks, procVars
  <2>7. CASE RecordSetting(p)
    <3>1. PICK k \in Keys :
            /\ settings' = [settings EXCEPT ![k] = Recorded(k, p)]
            /\ IF settings'[k] # arg[p]
               THEN End(p)
               ELSE /\ Goto(p, IF settings'[Other(k)] = arg[p]
                               THEN "saveMetadata" ELSE "recordSettings")
                    /\ UNCHANGED <<lock, procVars>>
      BY <2>7 DEF RecordSetting, Other
    <3>2. pc'[p] = "saveMetadata" => \A l \in Keys : settings'[l] = arg[p]
      BY <2>7, <3>1, OtherKey DEF RecordSetting
    <3>3. ASSUME NEW q \in Procs, ~overlap, q # p PROVE pc'[q] = pc[q] /\ pc[q] \in {"idle", "running"}
      BY <2>7, <3>1, <3>3 DEF RecordSetting
    <3>4. \/ cmd'[p] = cmd[p] /\ arg'[p] = arg[p]
          \/ pc'[p] = "idle" /\ cmd'[p] = None
      BY <3>1, <2>7 DEF RecordSetting, procVars
    <3>5. cmd[p] = "static" /\ UNCHANGED <<overlap, mode, timeField, managed, tasks>>
      BY <2>7 DEF RecordSetting
    <3>6. \A q \in Procs : q # p => cmd'[q] = cmd[q] /\ arg'[q] = arg[q]
      BY <3>1 DEF procVars
    <3>7. pc'[p] \in {"idle", "saveMetadata", "recordSettings"} /\ pc[p] = "recordSettings"
      BY <3>1, <2>7 DEF RecordSetting
    <3>. QED
      BY <3>2, <3>3, <3>4, <3>5, <3>6, <3>7 DEF tasks
  <2>8. CASE CheckOther(p)
    BY <2>8 DEF CheckOther, metadata, tasks, procVars
  <2>9. CASE SaveMetadata(p)
    BY <2>9 DEF SaveMetadata, metadata, tasks, procVars
  <2>10. CASE InsertTask(p)
    BY <2>10 DEF InsertTask, metadata, tasks, procVars
  <2>11. CASE Stop(p)
    BY <2>11 DEF Stop, metadata, tasks, procVars
  <2>. QED
    BY <1>2, <2>1, <2>2, <2>3, <2>4, <2>5, <2>6, <2>7, <2>8, <2>9, <2>10, <2>11 DEF Step
<1>. QED
  BY <1>1, <1>2 DEF Next, Step


LEMMA FieldStep ==
  ASSUME IInv, [Next]_vars
  PROVE  FieldInv'
<1>. USE ConstantsAssumption DEF IInv, TypeOK, ControlInv, FoundInv, FieldInv, Opened, ForManaged, End, Goto, AddCommands, Services, Agrees, ModeOf, FieldOf, IsStatic, Keys
<1>1. CASE UNCHANGED vars
  BY <1>1 DEF vars, metadata, tasks, procVars
<1>2. ASSUME NEW p \in Procs, Step(p) PROVE FieldInv'
  <2>1. CASE Launch(p)
    BY <2>1 DEF Launch, metadata, tasks, procVars
  <2>2. CASE Lock(p)
    BY <2>2 DEF Lock, metadata, tasks, procVars
  <2>3. CASE Open(p)
    BY <2>3 DEF Open, metadata, tasks, procVars
  <2>4. CASE CheckStatic(p)
    BY <2>4 DEF CheckStatic, metadata, tasks, procVars
  <2>5. CASE RecordManaged(p)
    BY <2>5 DEF RecordManaged, metadata, tasks, procVars
  <2>6. CASE CheckManaged(p)
    BY <2>6 DEF CheckManaged, metadata, tasks, procVars
  <2>7. CASE RecordSetting(p)
    BY <2>7 DEF RecordSetting, metadata, tasks, procVars, Recorded
  <2>8. CASE CheckOther(p)
    BY <2>8 DEF CheckOther, metadata, tasks, procVars
  <2>9. CASE SaveMetadata(p)
    BY <2>9 DEF SaveMetadata, metadata, tasks, procVars
  <2>10. CASE InsertTask(p)
    BY <2>10 DEF InsertTask, metadata, tasks, procVars
  <2>11. CASE Stop(p)
    BY <2>11 DEF Stop, metadata, tasks, procVars
  <2>. QED
    BY <1>2, <2>1, <2>2, <2>3, <2>4, <2>5, <2>6, <2>7, <2>8, <2>9, <2>10, <2>11 DEF Step
<1>. QED
  BY <1>1, <1>2 DEF Next, Step


LEMMA OneTaskStep ==
  ASSUME IInv, [Next]_vars
  PROVE  OneTaskModeApart'
<1>. USE ConstantsAssumption DEF IInv, TypeOK, ControlInv, FoundInv, OneTaskModeApart, OneTaskMode, End, HasOther, AddCommands
<1>1. CASE UNCHANGED vars
  BY <1>1 DEF vars, metadata, tasks, procVars
<1>2. ASSUME NEW p \in Procs, Step(p) PROVE OneTaskModeApart'
  <2>1. CASE Launch(p)
    BY <2>1 DEF Launch, metadata, tasks, procVars
  <2>2. CASE Lock(p)
    BY <2>2 DEF Lock, metadata, tasks, procVars
  <2>3. CASE Open(p)
    BY <2>3 DEF Open, metadata, tasks, procVars
  <2>4. CASE CheckStatic(p)
    BY <2>4 DEF CheckStatic, metadata, tasks, procVars
  <2>5. CASE RecordManaged(p)
    BY <2>5 DEF RecordManaged, metadata, tasks, procVars
  <2>6. CASE CheckManaged(p)
    BY <2>6 DEF CheckManaged, metadata, tasks, procVars
  <2>7. CASE RecordSetting(p)
    BY <2>7 DEF RecordSetting, metadata, tasks, procVars
  <2>8. CASE CheckOther(p)
    BY <2>8 DEF CheckOther, metadata, tasks, procVars
  <2>9. CASE SaveMetadata(p)
    BY <2>9 DEF SaveMetadata, metadata, tasks, procVars
  <2>10. CASE InsertTask(p)
    BY <2>10 DEF InsertTask, metadata, tasks, procVars
  <2>11. CASE Stop(p)
    BY <2>11 DEF Stop, metadata, tasks, procVars
  <2>. QED
    BY <1>2, <2>1, <2>2, <2>3, <2>4, <2>5, <2>6, <2>7, <2>8, <2>9, <2>10, <2>11 DEF Step
<1>. QED
  BY <1>1, <1>2 DEF Next, Step


LEMMA KindsStep ==
  ASSUME IInv, [Next]_vars
  PROVE  KindsApart'
<1>. USE ConstantsAssumption DEF IInv, TypeOK, ControlInv, FoundInv, KindsApart, End, IsStatic, ForManaged, AddCommands, Services, Keys
<1>1. CASE UNCHANGED vars
  BY <1>1 DEF vars, metadata, tasks, procVars
<1>2. ASSUME NEW p \in Procs, Step(p) PROVE KindsApart'
  <2>1. CASE Launch(p)
    BY <2>1 DEF Launch, metadata, tasks, procVars
  <2>2. CASE Lock(p)
    BY <2>2 DEF Lock, metadata, tasks, procVars
  <2>3. CASE Open(p)
    BY <2>3 DEF Open, metadata, tasks, procVars
  <2>4. CASE CheckStatic(p)
    BY <2>4 DEF CheckStatic, metadata, tasks, procVars
  <2>5. CASE RecordManaged(p)
    BY <2>5 DEF RecordManaged, metadata, tasks, procVars
  <2>6. CASE CheckManaged(p)
    BY <2>6 DEF CheckManaged, metadata, tasks, procVars
  <2>7. CASE RecordSetting(p)
    BY <2>7 DEF RecordSetting, metadata, tasks, procVars, Recorded
  <2>8. CASE CheckOther(p)
    BY <2>8 DEF CheckOther, metadata, tasks, procVars
  <2>9. CASE SaveMetadata(p)
    BY <2>9 DEF SaveMetadata, metadata, tasks, procVars
  <2>10. CASE InsertTask(p)
    BY <2>10 DEF InsertTask, metadata, tasks, procVars
  <2>11. CASE Stop(p)
    BY <2>11 DEF Stop, metadata, tasks, procVars
  <2>. QED
    BY <1>2, <2>1, <2>2, <2>3, <2>4, <2>5, <2>6, <2>7, <2>8, <2>9, <2>10, <2>11 DEF Step
<1>. QED
  BY <1>1, <1>2 DEF Next, Step


LEMMA ServiceStep ==
  ASSUME IInv, [Next]_vars
  PROVE  ServiceAgrees'
<1>. USE ConstantsAssumption DEF IInv, TypeOK, ControlInv, FoundInv, FieldInv, ServiceAgrees, Opened, ForManaged, End, Goto, AddCommands, Services, Agrees, ModeOf, FieldOf, IsStatic, Keys
<1>1. CASE UNCHANGED vars
  BY <1>1 DEF vars, metadata, tasks, procVars
<1>2. ASSUME NEW p \in Procs, Step(p) PROVE ServiceAgrees'
  <2>1. CASE Launch(p)
    BY <2>1 DEF Launch, metadata, tasks, procVars
  <2>2. CASE Lock(p)
    BY <2>2 DEF Lock, metadata, tasks, procVars
  <2>3. CASE Open(p)
    BY <2>3 DEF Open, metadata, tasks, procVars, AfterOpen
  <2>4. CASE CheckStatic(p)
    BY <2>4 DEF CheckStatic, metadata, tasks, procVars
  <2>5. CASE RecordManaged(p)
    BY <2>5 DEF RecordManaged, metadata, tasks, procVars
  <2>6. CASE CheckManaged(p)
    BY <2>6 DEF CheckManaged, metadata, tasks, procVars
  <2>7. CASE RecordSetting(p)
    BY <2>7 DEF RecordSetting, metadata, tasks, procVars, Recorded
  <2>8. CASE CheckOther(p)
    BY <2>8 DEF CheckOther, metadata, tasks, procVars
  <2>9. CASE SaveMetadata(p)
    BY <2>9 DEF SaveMetadata, metadata, tasks, procVars
  <2>10. CASE InsertTask(p)
    BY <2>10 DEF InsertTask, metadata, tasks, procVars
  <2>11. CASE Stop(p)
    BY <2>11 DEF Stop, metadata, tasks, procVars
  <2>. QED
    BY <1>2, <2>1, <2>2, <2>3, <2>4, <2>5, <2>6, <2>7, <2>8, <2>9, <2>10, <2>11 DEF Step
<1>. QED
  BY <1>1, <1>2 DEF Next, Step
LEMMA Invariance == Spec => []IInv
<1>1. IInv /\ [Next]_vars => IInv'
  BY TypeStep, ControlStep, AloneStep, FoundStep, FieldStep, OneTaskStep, KindsStep, ServiceStep
  DEF IInv
<1>. QED
  BY InitInv, <1>1, PTL DEF Spec

(* Modes, commands and steps are what they should be, and a service past   *)
(* its first step holds the lock, however many processes there are.        *)
THEOREM TypeCorrect == Spec => []TypeOK
  BY Invariance, PTL DEF IInv

(* A table never has two tasks of different modes, as long as processes    *)
(* start up one at a time.                                                 *)
THEOREM OneMode == Spec => []OneTaskModeApart
  BY Invariance, PTL DEF IInv

(* Managed and static settings do not meet in one file, under the same     *)
(* condition.                                                              *)
THEOREM KindsCorrect == Spec => []KindsApart
  BY Invariance, PTL DEF IInv

(* The file records what the running service was started with, under the   *)
(* same condition.                                                         *)
THEOREM ServiceCorrect == Spec => []ServiceAgrees
  BY Invariance, PTL DEF IInv

(* No restart, with whatever arguments, changes what the file records.     *)
THEOREM SettingsCorrect == Spec => SettingsFixed
<1>. DEFINE A == /\ ~overlap /\ mode # None => mode' = mode
                 /\ ~overlap /\ timeField # None => timeField' = timeField
                 /\ \A k \in Keys : settings[k] # None => settings'[k] = settings[k]
<1>1. IInv /\ [Next]_vars => [A]_vars
  <2>. SUFFICES ASSUME IInv, [Next]_vars PROVE [A]_vars
    OBVIOUS
  <2>. USE ConstantsAssumption DEF IInv, TypeOK
  <2>1. CASE UNCHANGED vars
    BY <2>1
  <2>2. ASSUME NEW p \in Procs, SaveMetadata(p), ~overlap PROVE A
    <3>1. Agrees(p) /\ cmd[p] # None /\ (ForManaged(p) => ~IsStatic)
      BY <2>2 DEF SaveMetadata, ControlInv, FoundInv, Opened
    <3>2. mode # None => mode' = mode
      BY <2>2, <3>1 DEF SaveMetadata, Agrees
    <3>3. timeField # None => timeField' = timeField
      BY <2>2, <3>1 DEF SaveMetadata, Agrees, FieldInv, ForManaged, ModeOf, FieldOf,
                        AddCommands, Services
    <3>. QED
      BY <2>2, <3>2, <3>3 DEF SaveMetadata
  <2>3. ASSUME NEW p \in Procs, RecordSetting(p) PROVE A
    BY <2>3 DEF RecordSetting, Recorded
  <2>4. ASSUME NEW p \in Procs, Step(p), ~RecordSetting(p), overlap \/ ~SaveMetadata(p)
        PROVE  A
    BY <2>4 DEF Step, Launch, Lock, Open, CheckStatic, RecordManaged, CheckManaged,
                CheckOther, SaveMetadata, InsertTask, Stop, metadata
  <2>. QED
    BY <2>1, <2>2, <2>3, <2>4 DEF Next, Step
<1>. QED
  BY Invariance, <1>1, PTL DEF Spec, SettingsFixed
=============================================================================
