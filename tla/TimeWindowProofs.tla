-------------------------- MODULE TimeWindowProofs --------------------------
(***************************************************************************)
(* Proofs about TimeWindow, from those about PartitionSync: time-window    *)
(* mode adds steps between the calls of syncPartition, and these only      *)
(* change the lists of the callers and the watermark.                      *)
(***************************************************************************)
EXTENDS TimeWindow, PartitionSyncProofs

(* Steps of a call by a caller, before syncPartition and after it.         *)
Choosing == {"matchTarget", "maxTime", "full"}
Seeding  == {"seed", "confirmSeed"}

(* syncPartitionByMode waits while syncPartition runs, which works on the  *)
(* identity a watermark is to be recorded for; its first check found that  *)
(* one imported, or its last step records it.                              *)
SeedInv ==
  /\ step \in Choosing \cup Seeding \cup {"idle"}
  /\ pc # "idle" => step = "idle" /\ seedFor \in {0, part}
  /\ pc = "idle" /\ step \notin Seeding => seedFor = 0
  /\ pc = "checkTarget" => entry.ready /\ entry.imported = part /\ ~entry.inProgress
  /\ step \in Choosing => caller \in Callers

WindowInv == IInv /\ DeltaUnreached /\ SeedInv /\ SeedFollowsImport

-----------------------------------------------------------------------------
(* maxTime looks for a column that query never stores.                     *)
LEMMA NeverAnswers == maxTime = 0
BY DEF maxTime, QueryMax, normalizeHeader

(* A step is one of PartitionSync, or changes only the lists the callers   *)
(* hold and the number of faults.                                          *)
ListsOnly ==
  /\ UNCHANGED <<sourceVars, storeVars, targetVars, callVars, entry>>
  /\ seen' \in [Callers -> Past]
  /\ faults' \in 0..MaxFaults

LEMMA WindowSteps ==
  ASSUME IInv, SeedInv, [WindowNext]_windowVars
  PROVE  [Next]_vars \/ ListsOnly
<1>0. seen \in [Callers -> Past] /\ ident \in Past /\ 0 \in Past /\ faults \in 0..MaxFaults
  BY DEF IInv, TypeOK, PastInv, Past, Identity
<1>1. CASE WindowEnvironment
  BY <1>1 DEF WindowEnvironment, Next
<1>2. CASE WindowListing(Listing \/ ScanUnseeded)
  <2>1. CASE Listing
    BY <2>1 DEF Next
  <2>2. CASE ScanUnseeded
    BY <1>0, <2>2 DEF ScanUnseeded, ListsOnly
  <2>. QED
    BY <1>2, <2>1, <2>2 DEF WindowListing
<1>3. ASSUME NEW c \in Callers, ByMode(c) PROVE [Next]_vars
  <2>1. Call(c) \/ UNCHANGED vars
    BY <1>3 DEF ByMode, ImportFirst, StartFull, CheckCurrent, ReplaceNewID, SameID, Call
  <2>. QED
    BY <2>1 DEF Next
<1>4. CASE Replace
  <2>1. caller \in Callers /\ Call(caller)
    BY <1>4 DEF Replace, SeedInv, Choosing, Call
  <2>. QED
    BY <2>1 DEF Next
<1>5. CASE MatchForDelta \/ ChooseDelta \/ SeedQuery \/ ConfirmSeed
  BY <1>5 DEF MatchForDelta, ChooseDelta, SeedQuery, ConfirmSeed
<1>6. CASE SyncStep \/ SyncFails
  BY <1>6 DEF SyncStep, SyncFails, Next
<1>7. CASE StepFails
  <2>1. faults' \in 0..MaxFaults
    BY <1>0, <1>7, BoundAssumption DEF StepFails
  <2>2. seen' \in [Callers -> Past]
    BY <1>0, <1>7 DEF StepFails
  <2>. QED
    BY <1>7, <2>1, <2>2 DEF StepFails, ListsOnly
<1>8. CASE UNCHANGED windowVars
  BY <1>8 DEF windowVars
<1>. QED
  BY <1>1, <1>2, <1>3, <1>4, <1>5, <1>6, <1>7, <1>8 DEF WindowNext, Steppings

(* The invariant of PartitionSync asks of a list only that it was shown.   *)
LEMMA ListsOnlyKeep ==
  ASSUME IInv, ListsOnly
  PROVE  IInv'
<1>. USE DEF ListsOnly, sourceVars, storeVars, targetVars, callVars
<1>1. RowsOf(1)' = RowsOf(1) /\ \A i : RowsOf(i)' = RowsOf(i)
  BY DEF RowsOf
<1>2. TypeOK'
  <2>1. seen' \in [Callers -> 0..MaxVersion]
    BY BoundAssumption DEF Past, IInv, TypeOK, Identity
  <2>. QED
    BY <2>1 DEF IInv, TypeOK
<1>3. PastInv'
  BY <1>1 DEF IInv, PastInv, Past
<1>4. BackupInv' /\ ReadyInv' /\ BackupSound'
  BY <1>1 DEF IInv, BackupInv, ReadyInv, BackupSound, Snapshot
<1>5. VerifiedInv' /\ KindInv' /\ SourceInv'
  BY DEF IInv, VerifiedInv, KindInv, SourceInv
<1>6. TargetInv' /\ MonitorInv' /\ TargetWhole'
  BY <1>1 DEF IInv, TargetInv, MonitorInv, TargetWhole, Shows
<1>. QED
  BY <1>2, <1>3, <1>4, <1>5, <1>6 DEF IInv

LEMMA SyncInvStep == IInv /\ SeedInv /\ [WindowNext]_windowVars => IInv'
BY WindowSteps, ListsOnlyKeep, Inductive

-----------------------------------------------------------------------------
(* The watermark.                                                          *)
LEMMA DeltaStep == DeltaUnreached /\ [WindowNext]_windowVars => DeltaUnreached'
<1>. SUFFICES ASSUME DeltaUnreached, [WindowNext]_windowVars PROVE DeltaUnreached'
  OBVIOUS
<1>. USE DEF DeltaUnreached, rowVars, stepVars
<1>1. CASE ChooseDelta
  BY <1>1, NeverAnswers DEF ChooseDelta
<1>2. CASE SeedQuery
  BY <1>2, NeverAnswers DEF SeedQuery
<1>3. CASE ConfirmSeed
  BY <1>3 DEF ConfirmSeed
<1>4. CASE WindowEnvironment \/ WindowListing(Listing \/ ScanUnseeded) \/ UNCHANGED windowVars
  BY <1>4 DEF WindowEnvironment, WindowListing, windowVars
<1>5. ASSUME NEW c \in Callers, ByMode(c) PROVE DeltaUnreached'
  BY <1>5 DEF ByMode, ImportFirst, StartFull, CheckCurrent, ReplaceNewID, SameID
<1>6. CASE MatchForDelta \/ Replace \/ SyncStep \/ SyncFails \/ StepFails
  BY <1>6 DEF MatchForDelta, Replace, SyncStep, SyncFails, StepFails
<1>. QED
  BY <1>1, <1>2, <1>3, <1>4, <1>5, <1>6 DEF WindowNext, Steppings

-----------------------------------------------------------------------------
(* What a watermark is recorded for.                                       *)
LEMMA StartKeeps ==
  ASSUME IInv, NEW c \in Callers, Start(c), step' = "idle", seedFor' \in {0, seen[c]}
  PROVE  SeedInv' /\ SeedFollowsImport'
<1>1. /\ pc' = IF UpToDate(seen[c]) THEN "checkTarget" ELSE BackupOrVerify(seen[c])
      /\ part' = seen[c] /\ entry' = entry
  BY DEF Start
<1>2. pc' # "idle" /\ (pc' = "checkTarget" => UpToDate(seen[c]))
  BY <1>1 DEF BackupOrVerify
<1>. QED
  BY <1>1, <1>2 DEF SeedInv, SeedFollowsImport, UpToDate, Choosing, Seeding

(* How syncPartition moves.                                                *)
LEMMA SyncMoves ==
  ASSUME IInv, SeedInv, SyncPartition
  PROVE  /\ pc # "idle"
         /\ \/ pc' # "idle" /\ pc' # "checkTarget" /\ part' = part
            \/ pc' = "idle" /\ ~Succeeds
            \/ pc' = "idle" /\ entry'.ready /\ entry'.imported = part /\ ~entry'.inProgress
<1>1. CASE SkipUnchanged
  BY <1>1 DEF SkipUnchanged, Return, SeedInv
<1>2. CASE Finish
  <2>1. pc = "finish" /\ pc' = "idle" /\ entry.ready /\ entry \in Entries
    BY <1>2 DEF Finish, Return, IInv, VerifiedInv, ImportSteps, TypeOK
  <2>2. CASE part = ident
    <3>1. entry' = [entry EXCEPT !.imported = part, !.inProgress = FALSE]
      BY <1>2, <2>2 DEF Finish
    <3>. QED
      BY <2>1, <3>1 DEF Entries
  <2>3. CASE part # ident
    BY <2>1, <2>3 DEF Succeeds
  <2>. QED
    BY <2>2, <2>3
<1>3. CASE ForgetImport \/ NewGeneration \/ Clear \/ Export \/ ListBackup \/ Probe \/ ConfirmBackup
  BY <1>3 DEF ForgetImport, NewGeneration, Clear, Export, ListBackup, Probe, ConfirmBackup, Return,
     Succeeds, BackupOrVerify
<1>4. CASE \/ VerifyObjects \/ VerifySource \/ MatchTarget \/ SkipLoad \/ Load \/ LoadRejected
           \/ ConfirmTarget
  BY <1>4 DEF VerifyObjects, VerifySource, MatchTarget, SkipLoad, Load, LoadRejected, Loads,
     ConfirmTarget, Return, Succeeds, AfterLoad
<1>. QED
  BY <1>1, <1>2, <1>3, <1>4 DEF SyncPartition

LEMMA SeedStep ==
  IInv /\ SeedInv /\ SeedFollowsImport /\ [WindowNext]_windowVars => SeedInv' /\ SeedFollowsImport'
<1>. SUFFICES ASSUME IInv, SeedInv, SeedFollowsImport, [WindowNext]_windowVars
              PROVE  SeedInv' /\ SeedFollowsImport'
  OBVIOUS
<1>. USE DEF rowVars, stepVars, callVars, Choosing, Seeding
<1>1. CASE UNCHANGED <<pc, part, entry, seen, watermarkReady, step, seedFor, caller>>
  BY <1>1 DEF SeedInv, SeedFollowsImport, Seeded
<1>2. CASE WindowEnvironment
  <2>1. UNCHANGED <<pc, part, entry, seen>>
    BY <1>2 DEF WindowEnvironment, Environment, SourceChange, TargetDropped, StaleExportWrites,
       LateLoadCommits
  <2>. QED
    BY <1>1, <1>2, <2>1 DEF WindowEnvironment
<1>3. CASE WindowListing(Listing \/ ScanUnseeded)
  <2>1. UNCHANGED <<pc, part, entry>>
    BY <1>3 DEF WindowListing, Listing, ListTable, RefreshListed, ScanPicks, ScanUnseeded
  <2>2. step = "idle" /\ UNCHANGED <<watermarkReady, step, seedFor, caller>>
    BY <1>3 DEF WindowListing
  <2>. QED
    BY <2>1, <2>2 DEF SeedInv, SeedFollowsImport
<1>4. ASSUME NEW c \in Callers, ImportFirst(c) PROVE SeedInv' /\ SeedFollowsImport'
  <2>1. CASE StartFull(c)
    BY <1>4, <2>1, StartKeeps DEF ImportFirst, StartFull
  <2>2. CASE SkipEmpty(c) /\ seedFor' = seen[c] /\ step' = "seed"
    <3>1. pc = "idle" /\ UNCHANGED <<pc, part, entry>> /\ UpToDate(seen[c])
      BY <2>2 DEF SkipEmpty, Called
    <3>. QED
      BY <2>2, <3>1 DEF SeedInv, SeedFollowsImport, UpToDate
  <2>. QED
    BY <1>4, <2>1, <2>2 DEF ImportFirst
<1>5. ASSUME NEW c \in Callers, CheckCurrent(c) PROVE SeedInv' /\ SeedFollowsImport'
  <2>1. step = "idle" /\ pc = "idle" /\ UNCHANGED <<step, seedFor, caller>> /\ seedFor = 0
    BY <1>5 DEF CheckCurrent, Call, SkipEmpty, Start, Called, SeedInv
  <2>2. CASE Start(c)
    BY <2>1, <2>2, StartKeeps
  <2>3. CASE SkipEmpty(c)
    BY <2>1, <2>3 DEF SkipEmpty, SeedInv, SeedFollowsImport
  <2>. QED
    BY <1>5, <2>2, <2>3 DEF CheckCurrent, Call
<1>6. ASSUME NEW c \in Callers, ReplaceNewID(c) PROVE SeedInv' /\ SeedFollowsImport'
  BY <1>6, StartKeeps DEF ReplaceNewID, StartFull
<1>7. ASSUME NEW c \in Callers, SameID(c) PROVE SeedInv' /\ SeedFollowsImport'
  <2>1. /\ pc = "idle" /\ step' = "matchTarget" /\ caller' = c /\ seen[c] \notin {0, entry.imported}
        /\ UNCHANGED <<pc, part, entry, seen, watermarkReady, seedFor>> /\ Seeded /\ step = "idle"
    BY <1>7 DEF SameID, Called, vars
  <2>. QED
    BY <2>1 DEF SeedInv, SeedFollowsImport, Seeded
<1>8. CASE MatchForDelta \/ ChooseDelta
  <2>1. /\ step \in Choosing /\ step' \in Choosing
        /\ UNCHANGED <<pc, part, entry, seen, watermarkReady, seedFor, caller>>
    BY <1>8, NeverAnswers DEF MatchForDelta, ChooseDelta, vars
  <2>. QED
    BY <2>1 DEF SeedInv, SeedFollowsImport, Seeded
<1>9. CASE Replace
  <2>1. caller \in Callers
    BY <1>9 DEF Replace, SeedInv
  <2>. QED
    BY <1>9, <2>1, StartKeeps DEF Replace
<1>10. CASE SyncStep
  <2>1. /\ pc # "idle"
        /\ \/ pc' # "idle" /\ pc' # "checkTarget" /\ part' = part
           \/ pc' = "idle" /\ ~Succeeds
           \/ pc' = "idle" /\ entry'.ready /\ entry'.imported = part /\ ~entry'.inProgress
    BY <1>10, SyncMoves DEF SyncStep
  <2>2. step = "idle" /\ seedFor \in {0, part} /\ caller' = caller
    BY <1>10, <2>1 DEF SeedInv, SyncStep
  <2>3. /\ step' = IF pc' = "idle" /\ Succeeds /\ seedFor # 0 THEN "seed" ELSE step
        /\ seedFor' = IF pc' = "idle" /\ ~Succeeds THEN 0 ELSE seedFor
    BY <1>10 DEF SyncStep
  <2>. QED
    BY <2>1, <2>2, <2>3 DEF SeedInv, SeedFollowsImport
<1>11. CASE SeedQuery
  BY <1>11 DEF SeedQuery, SeedInv, SeedFollowsImport, vars
<1>12. CASE ConfirmSeed
  <2>1. step = "confirmSeed" /\ step' = "idle" /\ seedFor' = 0 /\ UNCHANGED <<pc, part, entry>>
    BY <1>12 DEF ConfirmSeed, vars
  <2>. QED
    BY <2>1 DEF SeedInv, SeedFollowsImport
<1>13. CASE SyncFails
  <2>1. pc # "idle" /\ pc' = "idle" /\ entry' = entry
    BY <1>13 DEF SyncFails, Faults, Fail, ExportAbandoned, LoadAbandoned, GiveUp, Return, Loads
  <2>. QED
    BY <1>13, <2>1 DEF SyncFails, SeedInv, SeedFollowsImport
<1>14. CASE StepFails
  <2>1. pc = "idle" /\ step' = "idle" /\ seedFor' = 0 /\ UNCHANGED <<pc, part, entry>>
    BY <1>14 DEF StepFails, SeedInv
  <2>. QED
    BY <2>1 DEF SeedInv, SeedFollowsImport
<1>15. CASE UNCHANGED windowVars
  BY <1>1, <1>15 DEF windowVars, vars
<1>. QED
  BY <1>2, <1>3, <1>4, <1>5, <1>6, <1>7, <1>8, <1>9, <1>10, <1>11, <1>12, <1>13, <1>14, <1>15
     DEF WindowNext, ByMode, Steppings

-----------------------------------------------------------------------------
LEMMA WindowInvariance == WindowSpec => []WindowInv
<1>1. WindowInit => WindowInv
  BY InitInv DEF WindowInit, WindowInv, Init, DeltaUnreached, SeedInv, SeedFollowsImport, Choosing,
     Seeding
<1>2. WindowInv /\ [WindowNext]_windowVars => WindowInv'
  BY SyncInvStep, DeltaStep, SeedStep DEF WindowInv
<1>. QED
  BY <1>1, <1>2, PTL DEF WindowSpec

(* startDelta is never reached and no watermark is ever recorded, whatever *)
(* the source does and however long it runs.                               *)
THEOREM DeltaCorrect == WindowSpec => []DeltaUnreached
<1>1. WindowInv => DeltaUnreached
  BY DEF WindowInv
<1>. QED
  BY <1>1, WindowInvariance, PTL

(* seedWatermark is only called for the identity just imported.            *)
THEOREM SeedCorrect == WindowSpec => []SeedFollowsImport
<1>1. WindowInv => SeedFollowsImport
  BY DEF WindowInv
<1>. QED
  BY <1>1, WindowInvariance, PTL

(* Time-window mode keeps the promise of overwrite mode.                   *)
THEOREM WindowImplements ==
  ASSUME \A o \in Options : ~o.lateLoads
  PROVE  WindowSpec => WindowImplementsReplica
<1>1. WindowInit => Promise!Init
  BY RefinesInit DEF WindowInit
<1>2. WindowInv => OnTime
  BY StaysOnTime DEF WindowInv
<1>3. WindowInv /\ OnTime /\ [WindowNext]_windowVars => [Promise!Next]_(Promise!vars)
  <2>1. ListsOnly => UNCHANGED Promise!vars
    BY DEF ListsOnly, sourceVars, targetVars, Promise!vars
  <2>. QED
    BY <2>1, WindowSteps, RefinesNext DEF WindowInv
<1>. QED
  BY <1>1, <1>2, <1>3, WindowInvariance, PTL
     DEF WindowSpec, WindowImplementsReplica, Promise!Spec
=============================================================================
