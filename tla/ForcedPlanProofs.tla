-------------------------- MODULE ForcedPlanProofs --------------------------
(***************************************************************************)
(* Proofs about ForcedPlan, for any plan over any tables and partitions.   *)
(***************************************************************************)
EXTENDS ForcedPlan, FiniteSetTheorems, FunctionTheorems, SequenceTheorems, WellFoundedInduction, TLAPS

(***************************************************************************)
(* The inductive invariant.  The preflight has found what the plan names   *)
(* of the tables before the one at hand, and then everything.              *)
(***************************************************************************)
Preflight == {"sourceTable", "targetTable", "listSource", "matchTarget"}

Named(t) == selected \cap PartsOf(t)

FoundInv ==
  /\ pc \in Preflight => /\ touched = {}
                         /\ \A i \in 1..(turn - 1) : Named(plan[i]) \subseteq found
  /\ pc \in {"listParts", "syncPart"} => selected \subseteq found

(* Tables before the one at hand, and the partitions of that one no longer *)
(* listed, are dealt with.                                                 *)
Handled == touched \cup absent

HandledInv ==
  /\ pc \in {"listParts", "syncPart"} => \A i \in 1..(turn - 1) : Named(plan[i]) \subseteq Handled
  /\ pc = "syncPart" => Named(table) \subseteq Listed \cup Handled
  /\ outcome = "done" => selected \subseteq Handled

(* Versions only grow until a partition is dropped.                        *)
VersionInv ==
  \A p \in Parts : /\ version[p] = 0 \/ version[p] >= asked[p]
                   /\ listed[p] = 0 \/ listed[p] >= asked[p]
                   /\ p \in touched => shown[p] >= asked[p]

(* The parts of the type invariant.                                        *)
PlanOK == plan \in Plans /\ selected \in Selections /\ auto \subseteq Tables

SetsOK ==
  /\ sourceTables \subseteq Tables /\ targetTables \subseteq Tables
  /\ targetParts \subseteq Parts
  /\ version \in Identities /\ shown \in Identities /\ asked \in Identities
  /\ listed \in Identities

StepOK ==
  /\ pc \in {"sourceTable", "targetTable", "listSource", "matchTarget", "listParts",
             "syncPart", "ended"}
  /\ turn \in DOMAIN plan
  /\ outcome \in {"none", "done", "failed"}
  /\ faults \in 0..MaxFaults

ScopeOK ==
  /\ Listed \cup found \cup absent \cup touched \subseteq selected
  /\ pc = "syncPart" => Listed # {} /\ Listed \subseteq PartsOf(table)

IInv == TypeOK /\ FoundInv /\ HandledInv /\ VersionInv /\ CheckedFirst /\ StoppedByError

-----------------------------------------------------------------------------
(* The plan is a list of the tables, each of them once.                    *)
LEMMA PlanFacts ==
  ASSUME plan \in Plans
  PROVE  /\ Len(plan) \in Nat \ {0}
         /\ DOMAIN plan = 1..Len(plan)
         /\ \A i \in 1..Len(plan) : plan[i] \in Tables
         /\ \A t \in Tables : \E i \in 1..Len(plan) : plan[i] = t
         /\ \A i, j \in 1..Len(plan) : plan[i] = plan[j] => i = j
<1>. DEFINE n == Cardinality(Tables)
<1>1. n \in Nat \ {0}
  BY ConstantsAssumption, FS_CardinalityType, FS_EmptySet
<1>2. plan \in [1..n -> Tables] /\ \A t \in Tables : \E i \in 1..n : plan[i] = t
  BY DEF Plans
<1>. HIDE DEF n
<1>3. plan \in Seq(Tables) /\ Len(plan) = n
  BY <1>1, <1>2
<1>4. plan \in Surjection(1..n, Tables)
  BY <1>2, Fun_IsSurj
<1>5. IsFiniteSet(1..n) /\ Cardinality(1..n) = n
  BY <1>1, FS_Interval
<1>6. plan \in Injection(1..n, Tables)
  BY <1>4, <1>5, FS_SurjSameCardinalityImpliesInj DEF n
<1>. QED
  BY <1>1, <1>2, <1>3, <1>6 DEF Injection, IsInjective

(* A set of numbers has a least element.                                   *)
Less == {p \in Nat \X Nat : p[1] < p[2]}

LEMMA LeastNumber ==
  ASSUME NEW S \in SUBSET Nat, S # {}
  PROVE  \E m \in S : \A k \in S : m <= k
<1>1. IsWellFoundedOn(Less, Nat)
  BY NatLessThanWellFounded DEF OpToRel, Less
<1>2. \A a, b \in Nat : a < b => <<a, b>> \in Less
  BY DEF Less
<1>3. PICK m \in S : \A k \in S : ~(<<k, m>> \in Less)
  BY <1>1, WFMin
<1>4. \A k \in S : ~(k < m)
  BY <1>2, <1>3
<1>. QED
  BY <1>4

LEMMA AtHandFirst ==
  ASSUME Listed # {}
  PROVE  AtHand \in Listed /\ \A q \in Listed : AtHand <= q
<1>1. Listed \in SUBSET Nat
  BY ConstantsAssumption DEF Listed
<1>2. \E m \in Listed : \A k \in Listed : m <= k
  BY <1>1, LeastNumber
<1>. QED
  BY <1>2 DEF AtHand

LEMMA Parted == TypeOK <=> PlanOK /\ SetsOK /\ StepOK /\ ScopeOK
  BY DEF TypeOK, PlanOK, SetsOK, StepOK, ScopeOK

(* The turn moves on to the next table, or starts over after the last.     *)
LEMMA TurnMoves ==
  ASSUME PlanOK, StepOK, NEW f, NEW s, NextTable(f, s)
  PROVE  /\ turn' \in 1..Len(plan)
         /\ \/ turn = Len(plan) /\ turn' = 1 /\ pc' = s
            \/ turn < Len(plan) /\ turn' = turn + 1 /\ pc' = f
  BY PlanFacts DEF PlanOK, StepOK, NextTable

-----------------------------------------------------------------------------
LEMMA InitInv == Init => IInv
<1>. SUFFICES ASSUME Init PROVE IInv
  OBVIOUS
<1>. USE ConstantsAssumption DEF Init
<1>1. PlanOK
  BY DEF PlanOK
<1>2. SetsOK
  BY DEF SetsOK, Identities, NoParts
<1>3. StepOK
  BY <1>1, PlanFacts DEF StepOK, PlanOK
<1>4. ScopeOK
  BY DEF ScopeOK, Listed, NoParts
<1>5. TypeOK
  BY <1>1, <1>2, <1>3, <1>4, Parted
<1>6. FoundInv /\ HandledInv /\ VersionInv /\ CheckedFirst /\ StoppedByError
  BY <1>2 DEF FoundInv, Preflight, HandledInv, VersionInv, CheckedFirst, StoppedByError,
     SetsOK, Identities, NoParts
<1>. QED
  BY <1>5, <1>6 DEF IInv

LEMMA PlanStep == IInv /\ [Next]_vars => PlanOK'
<1>. SUFFICES ASSUME IInv, [Next]_vars PROVE PlanOK'
  OBVIOUS
<1>1. UNCHANGED planVars
  BY DEF Next, Run, vars, Stops, GoesOn, TableDone, HandledNext, Failure, Ends, planVars,
     SourceChange, Dropped, Begin, CheckSourceTable, CheckTargetTable, ListSource, MatchTarget,
     ListParts, SyncPart, SyncPartFails, CallFails
<1>. QED
  BY <1>1, Parted DEF PlanOK, planVars, Plans, Selections, IInv

LEMMA SetsStep == IInv /\ [Next]_vars => SetsOK'
<1>. SUFFICES ASSUME IInv, [Next]_vars PROVE SetsOK'
  OBVIOUS
<1>. USE ConstantsAssumption DEF IInv, planVars, sourceVars, targetVars, history, runVars
<1>1. CASE SyncPart
  <2>1. AtHand \in Parts /\ listed[AtHand] \in 0..MaxVersion
    BY <1>1, Parted, AtHandFirst DEF SyncPart, SetsOK, ScopeOK, Identities, Listed
  <2>. QED
    BY <1>1, <2>1, Parted DEF SyncPart, SetsOK, Identities, Loaded, HandledNext
<1>2. CASE SyncPartFails \/ CallFails
  <2>1. pc = "syncPart" => AtHand \in Parts /\ listed[AtHand] \in 0..MaxVersion
    BY Parted, AtHandFirst DEF SetsOK, ScopeOK, Identities, Listed
  <2>. QED
    BY <1>2, <2>1, Parted DEF SyncPartFails, CallFails, SetsOK, Identities, Loaded, Failure, Stops
<1>3. CASE SourceChange
  BY <1>3, Parted DEF SourceChange, SetsOK, Identities
<1>4. CASE Dropped
  BY <1>4, Parted DEF Dropped, SetsOK, Identities
<1>5. CASE Begin \/ CheckSourceTable \/ CheckTargetTable \/ ListSource \/ MatchTarget \/
           ListParts
  BY <1>5, Parted DEF Begin, CheckSourceTable, CheckTargetTable, ListSource, MatchTarget, ListParts,
     SetsOK, Identities, NoParts, Listing, Stops, GoesOn, Ends
<1>6. CASE UNCHANGED vars
  BY <1>6, Parted DEF vars, SetsOK, Identities, NoParts, Listing, Stops, GoesOn, Ends
<1>. QED
  BY <1>1, <1>2, <1>3, <1>4, <1>5, <1>6 DEF Next, Run

LEMMA StepStep == IInv /\ [Next]_vars => StepOK'
<1>. SUFFICES ASSUME IInv, [Next]_vars PROVE StepOK'
  OBVIOUS
<1>. USE ConstantsAssumption DEF IInv, planVars, sourceVars, targetVars, history, runVars
<1>1. CASE Begin
  <2>1. 1 \in DOMAIN plan
    BY Parted, PlanFacts DEF PlanOK
  <2>. QED
    BY <1>1, <2>1, Parted DEF Begin, StepOK
<1>2. CASE MatchTarget
  <2>1. CASE NextTable("sourceTable", "listParts") /\ UNCHANGED outcome
    BY <1>2, <2>1, Parted, PlanFacts, TurnMoves DEF MatchTarget, StepOK, PlanOK
  <2>2. CASE Stops
    BY <1>2, <2>2, Parted DEF MatchTarget, StepOK, Stops, Ends
  <2>. QED
    BY <1>2, <2>1, <2>2 DEF MatchTarget
<1>3. CASE ListParts
  <2>1. CASE TableDone
    BY <1>3, <2>1, Parted, PlanFacts, TurnMoves DEF ListParts, TableDone, StepOK, PlanOK
  <2>2. CASE ~TableDone
    BY <1>3, <2>2, Parted DEF ListParts, StepOK, Ends
  <2>. QED
    BY <2>1, <2>2
<1>4. CASE SyncPart
  <2>1. CASE TableDone
    BY <1>4, <2>1, Parted, PlanFacts, TurnMoves DEF SyncPart, TableDone, StepOK, PlanOK
  <2>2. CASE UNCHANGED <<pc, turn, outcome>>
    BY <1>4, <2>2, Parted DEF SyncPart, StepOK
  <2>. QED
    BY <1>4, <2>1, <2>2 DEF SyncPart, HandledNext
<1>5. CASE Dropped \/ SourceChange
  BY <1>5, Parted DEF Dropped, SourceChange, StepOK
<1>6. CASE CheckSourceTable \/ CheckTargetTable \/ ListSource \/ SyncPartFails \/ CallFails
  BY <1>6, Parted DEF CheckSourceTable, CheckTargetTable, ListSource, SyncPartFails, CallFails, StepOK,
     Stops, GoesOn, Ends, Failure
<1>7. CASE UNCHANGED vars
  BY <1>7, Parted DEF vars, StepOK, Stops, GoesOn, Ends, Failure
<1>. QED
  BY <1>1, <1>2, <1>3, <1>4, <1>5, <1>6, <1>7 DEF Next, Run

LEMMA ScopeStep == IInv /\ [Next]_vars => ScopeOK'
<1>. SUFFICES ASSUME IInv, [Next]_vars PROVE ScopeOK'
  OBVIOUS
<1>. USE ConstantsAssumption DEF IInv, planVars, sourceVars, targetVars, history, runVars
<1>1. CASE SyncPart
  <2>1. AtHand \in Listed /\ Listed' = Listed \ {AtHand} /\ touched' = touched \cup {AtHand}
    BY <1>1, Parted, AtHandFirst DEF SyncPart, ScopeOK, SetsOK, Identities, Listed, HandledNext, Loaded
  <2>2. pc' = "syncPart" => Listed' # {} /\ table' = table
    BY <1>1, <2>1, Parted DEF SyncPart, HandledNext, TableDone, NextTable, table
  <2>. QED
    BY <1>1, <2>1, <2>2, Parted DEF SyncPart, ScopeOK, PartsOf
<1>2. CASE SyncPartFails \/ CallFails
  <2>1. pc = "syncPart" => AtHand \in Listed
    BY Parted, AtHandFirst DEF ScopeOK
  <2>2. touched' = touched \/ (pc = "syncPart" /\ touched' = touched \cup {AtHand})
    BY <1>2 DEF SyncPartFails, CallFails, Loaded
  <2>. QED
    BY <1>2, <2>1, <2>2, Parted DEF SyncPartFails, CallFails, Failure, Stops, Ends, ScopeOK, Listed
<1>3. CASE ListParts
  <2>1. Listed' = {p \in Named(table) : version[p] # 0} /\ Listed' \subseteq Named(table)
    BY <1>3, Parted DEF ListParts, Listed, Listing, Named, ScopeOK, PartsOf
  <2>2. pc' = "syncPart" => Listed' # {} /\ table' = table
    BY <1>3, <2>1 DEF ListParts, TableDone, NextTable, NoParts, Listed, table, Ends, Listing, Named, PartsOf
  <2>. QED
    BY <1>3, <2>1, <2>2, Parted DEF ListParts, ScopeOK, Named, PartsOf
<1>4. CASE ListSource
  <2>1. Listed' \subseteq Named(table)
    BY <1>4, Parted DEF ListSource, Listed, Listing, Named, PartsOf
  <2>. QED
    BY <1>4, <2>1, Parted DEF ListSource, ScopeOK, Named
<1>5. CASE MatchTarget
  <2>. QED
    BY <1>5, Parted DEF MatchTarget, ScopeOK, Listed, Stops, Ends, NextTable
<1>6. CASE Dropped \/ SourceChange
  BY <1>6, Parted DEF Dropped, SourceChange, ScopeOK, Listed, table
<1>7. CASE Begin \/ CheckSourceTable \/ CheckTargetTable
  BY <1>7, Parted DEF Begin, CheckSourceTable, CheckTargetTable, ScopeOK, Listed, NoParts, Stops,
     GoesOn, Ends, table
<1>8. CASE UNCHANGED vars
  BY <1>8, Parted DEF vars, ScopeOK, Listed, NoParts, Stops, GoesOn, Ends, table
<1>. QED
  BY <1>1, <1>2, <1>3, <1>4, <1>5, <1>6, <1>7, <1>8 DEF Next, Run

LEMMA TypeStep == IInv /\ [Next]_vars => TypeOK'
<1>. SUFFICES ASSUME IInv, [Next]_vars PROVE TypeOK'
  OBVIOUS
<1>1. PlanOK' /\ SetsOK' /\ StepOK' /\ ScopeOK'
  BY PlanStep, SetsStep, StepStep, ScopeStep
<1>. QED
  BY <1>1, Zenon DEF TypeOK, PlanOK, SetsOK, StepOK, ScopeOK

-----------------------------------------------------------------------------
(* Every partition of the plan is named under one of its tables.           *)
LEMMA AllNamed ==
  ASSUME PlanOK, NEW S, \A i \in 1..Len(plan) : Named(plan[i]) \subseteq S
  PROVE  selected \subseteq S
<1>. SUFFICES ASSUME NEW p \in selected PROVE p \in S
  OBVIOUS
<1>1. p \in Parts /\ TableOf[p] \in Tables
  BY ConstantsAssumption DEF PlanOK, Selections
<1>2. PICK i \in 1..Len(plan) : plan[i] = TableOf[p]
  BY <1>1, PlanFacts DEF PlanOK
<1>. QED
  BY <1>1, <1>2 DEF Named, PartsOf

LEMMA FoundStep == IInv /\ [Next]_vars => FoundInv'
<1>. SUFFICES ASSUME IInv, [Next]_vars PROVE FoundInv'
  OBVIOUS
<1>. USE ConstantsAssumption DEF IInv, planVars, sourceVars, targetVars, history, runVars
<1>1. CASE Begin
  <2>1. 1..(turn' - 1) = {}
    BY <1>1 DEF Begin
  <2>. QED
    BY <1>1, <2>1 DEF Begin, FoundInv, Preflight
<1>2. CASE MatchTarget
  <2>1. CASE Stops
    BY <1>2, <2>1 DEF MatchTarget, Stops, Ends, FoundInv, Preflight
  <2>2. CASE ~Stops
    <3>1. NextTable("sourceTable", "listParts") /\ touched' = {} /\ found' = found \cup Listed
          /\ Named(table) \subseteq Listed
      BY <1>2, <2>2 DEF MatchTarget, FoundInv, Preflight, Named
    <3>2. \A i \in 1..(turn - 1) : Named(plan[i]) \subseteq found'
      BY <1>2, <3>1 DEF MatchTarget, FoundInv, Preflight
    <3>3. turn \in 1..Len(plan) /\ Len(plan) \in Nat
      BY Parted, PlanFacts DEF StepOK, PlanOK
    <3>4. \A i \in 1..turn : Named(plan[i]) \subseteq found'
      BY <3>1, <3>2, <3>3 DEF table
    <3>5. plan' = plan /\ selected' = selected
      BY <1>2 DEF MatchTarget
    <3>6. CASE turn = Len(plan) /\ turn' = 1 /\ pc' = "listParts"
      BY <3>1, <3>4, <3>5, <3>6, AllNamed, Parted DEF FoundInv, Preflight
    <3>7. CASE turn < Len(plan) /\ turn' = turn + 1 /\ pc' = "sourceTable"
      BY <3>1, <3>3, <3>4, <3>5, <3>7 DEF FoundInv, Preflight, Named
    <3>. QED
      BY <3>1, <3>6, <3>7, TurnMoves, Parted
  <2>. QED
    BY <2>1, <2>2
<1>3. CASE ListParts \/ SyncPart
  <2>1. pc' \in {"listParts", "syncPart", "ended"} /\ pc \in {"listParts", "syncPart"}
    BY <1>3 DEF ListParts, SyncPart, HandledNext, TableDone, NextTable, Ends
  <2>. QED
    BY <1>3, <2>1 DEF ListParts, SyncPart, FoundInv, Preflight
<1>4. CASE SourceChange \/ Dropped
  BY <1>4 DEF SourceChange, Dropped, FoundInv, Preflight, Named, Stops, GoesOn, Ends, Failure
<1>5. CASE CheckSourceTable \/ CheckTargetTable \/ ListSource
  BY <1>5 DEF CheckSourceTable, CheckTargetTable, ListSource, FoundInv, Preflight, Named, Stops,
     GoesOn, Ends, Failure
<1>6. CASE SyncPartFails \/ CallFails
  BY <1>6 DEF SyncPartFails, CallFails, FoundInv, Preflight, Named, Stops, GoesOn, Ends, Failure
<1>7. CASE UNCHANGED vars
  BY <1>7 DEF vars, FoundInv, Preflight, Named, Stops, GoesOn, Ends, Failure
<1>. QED
  BY <1>1, <1>2, <1>3, <1>4, <1>5, <1>6, <1>7 DEF Next, Run

(* What a run adds to the partitions dealt with.                           *)
LEMMA TableHandled ==
  ASSUME IInv, TableDone, plan' = plan, selected' = selected,
         pc \in {"listParts", "syncPart"}, outcome # "done" \/ selected \subseteq Handled',
         Handled \subseteq Handled', Named(table) \subseteq Handled'
  PROVE  HandledInv'
<1>1. turn \in 1..Len(plan) /\ Len(plan) \in Nat
  BY Parted, PlanFacts DEF StepOK, PlanOK, IInv
<1>2. \A i \in 1..(turn - 1) : Named(plan[i]) \subseteq Handled'
  BY DEF IInv, HandledInv
<1>3. \A i \in 1..turn : Named(plan[i]) \subseteq Handled'
  BY <1>1, <1>2 DEF table
<1>4. CASE turn = Len(plan) /\ turn' = 1 /\ pc' = "ended"
  <2>1. selected \subseteq Handled'
    BY <1>3, <1>4, AllNamed, Parted DEF IInv
  <2>. QED
    BY <1>4, <2>1 DEF HandledInv
<1>5. CASE turn < Len(plan) /\ turn' = turn + 1 /\ pc' = "listParts"
  <2>1. outcome' = outcome
    BY <1>5 DEF TableDone
  <2>. QED
    BY <1>1, <1>3, <1>5, <2>1 DEF HandledInv, Named
<1>. QED
  BY <1>4, <1>5, TurnMoves, Parted DEF TableDone, IInv

LEMMA HandledStep == IInv /\ [Next]_vars => HandledInv'
<1>. SUFFICES ASSUME IInv, [Next]_vars PROVE HandledInv'
  OBVIOUS
<1>. USE ConstantsAssumption DEF IInv, planVars, sourceVars, targetVars, history, runVars
<1>1. CASE SourceChange \/ Dropped
  <2>1. UNCHANGED <<planVars, runVars>>
    BY <1>1 DEF SourceChange, Dropped
  <2>. QED
    BY <2>1 DEF planVars, runVars, history, HandledInv, Handled, Named, table, Listed
<1>2. CASE Begin
  BY <1>2 DEF Begin, HandledInv
<1>3. CASE MatchTarget
  <2>1. CASE Stops
    BY <1>3, <2>1 DEF MatchTarget, Stops, Ends, HandledInv
  <2>2. CASE ~Stops
    <3>1. NextTable("sourceTable", "listParts") /\ UNCHANGED <<outcome, touched, absent, selected, plan>>
      BY <1>3, <2>2 DEF MatchTarget
    <3>2. pc' = "sourceTable" \/ (pc' = "listParts" /\ 1..(turn' - 1) = {})
      BY <3>1, TurnMoves, Parted
    <3>. QED
      BY <3>1, <3>2 DEF HandledInv, Handled
  <2>. QED
    BY <2>1, <2>2
<1>4. CASE ListParts
  <2>1. Listed' = {p \in Named(table) : version[p] # 0}
    BY <1>4, Parted DEF ListParts, Listed, Listing, Named, PartsOf
  <2>2. /\ Handled \subseteq Handled'
        /\ Named(table) \subseteq Listed' \cup Handled'
    BY <1>4, <2>1 DEF ListParts, Handled, Named, PartsOf
  <2>3. outcome # "done" \/ selected \subseteq Handled'
    BY <2>2 DEF HandledInv
  <2>4. CASE listed' = NoParts /\ TableDone
    <3>1. Listed' = {}
      BY <2>4 DEF NoParts, Listed
    <3>. QED
      BY <1>4, <2>2, <2>3, <2>4, <3>1, TableHandled DEF ListParts
  <2>5. CASE Ends("failed")
    BY <1>4, <2>5 DEF ListParts, Ends, HandledInv
  <2>6. CASE pc' = "syncPart" /\ UNCHANGED <<turn, outcome>>
    <3>1. \A i \in 1..(turn - 1) : Named(plan[i]) \subseteq Handled'
      BY <1>4, <2>2 DEF ListParts, HandledInv
    <3>2. UNCHANGED <<plan, selected, table>>
      BY <1>4, <2>6 DEF ListParts, table
    <3>. QED
      BY <1>4, <2>2, <2>3, <2>6, <3>1, <3>2 DEF HandledInv, Named
  <2>. QED
    BY <1>4, <2>4, <2>5, <2>6 DEF ListParts
<1>5. CASE SyncPart
  <2>1. AtHand \in Listed /\ Listed' = Listed \ {AtHand} /\ touched' = touched \cup {AtHand}
    BY <1>5, Parted, AtHandFirst DEF SyncPart, ScopeOK, SetsOK, Identities, Listed, HandledNext, Loaded
  <2>2. /\ Handled \subseteq Handled'
        /\ Named(table) \subseteq Listed' \cup Handled'
    BY <1>5, <2>1 DEF SyncPart, Handled, HandledInv
  <2>3. outcome # "done" \/ selected \subseteq Handled'
    BY <2>2 DEF HandledInv
  <2>4. CASE Listed = {AtHand}
    <3>1. TableDone /\ Named(table) \subseteq Handled'
      BY <1>5, <2>1, <2>2, <2>4 DEF SyncPart, HandledNext
    <3>. QED
      BY <1>5, <2>2, <2>3, <3>1, TableHandled DEF SyncPart
  <2>5. CASE Listed # {AtHand}
    <3>1. UNCHANGED <<pc, turn, outcome, plan, selected, table>>
      BY <1>5, <2>5 DEF SyncPart, HandledNext, table
    <3>2. \A i \in 1..(turn - 1) : Named(plan[i]) \subseteq Handled'
      BY <1>5, <2>2 DEF SyncPart, HandledInv
    <3>. QED
      BY <1>5, <2>2, <2>3, <3>1, <3>2 DEF SyncPart, HandledInv, Named
  <2>. QED
    BY <2>4, <2>5
<1>6. CASE CheckSourceTable \/ CheckTargetTable
  BY <1>6 DEF CheckSourceTable, CheckTargetTable, HandledInv, Handled, Named, table, Listed,
     Stops, GoesOn, Ends, Failure
<1>7. CASE ListSource
  BY <1>7 DEF ListSource, HandledInv, Handled, Named, table, Listed, Stops, GoesOn, Ends,
     Failure
<1>8. CASE SyncPartFails \/ CallFails
  BY <1>8 DEF SyncPartFails, CallFails, HandledInv, Handled, Named, table, Listed, Stops,
     GoesOn, Ends, Failure
<1>9. CASE UNCHANGED vars
  BY <1>9 DEF vars, HandledInv, Handled, Named, table, Listed, Stops, GoesOn, Ends, Failure
<1>. QED
  BY <1>1, <1>2, <1>3, <1>4, <1>5, <1>6, <1>7, <1>8, <1>9 DEF Next, Run

LEMMA VersionStep == IInv /\ [Next]_vars => VersionInv'
<1>. SUFFICES ASSUME IInv, [Next]_vars PROVE VersionInv'
  OBVIOUS
<1>. USE ConstantsAssumption DEF IInv, planVars, sourceVars, targetVars, history, runVars
<1>1. CASE SourceChange
  <2>1. \A p \in Parts : version'[p] = version[p] \/ (version[p] # 0 /\ version'[p] = version[p] + 1)
    BY <1>1, Parted DEF SourceChange, SetsOK, Identities
  <2>2. UNCHANGED <<listed, asked, shown, touched>>
    BY <1>1 DEF SourceChange
  <2>. QED
    BY <2>1, <2>2, Parted DEF VersionInv, SetsOK, Identities
<1>2. CASE Dropped
  BY <1>2, Parted DEF Dropped, VersionInv, SetsOK, Identities
<1>3. CASE Begin
  BY <1>3, Parted DEF Begin, VersionInv, SetsOK, Identities, NoParts
<1>4. CASE ListSource
  BY <1>4 DEF ListSource, VersionInv, Listing
<1>5. CASE ListParts
  BY <1>5 DEF ListParts, VersionInv, Listing
<1>6. CASE SyncPart \/ SyncPartFails \/ CallFails
  <2>1. pc = "syncPart" => AtHand \in Parts /\ listed[AtHand] >= asked[AtHand]
    BY Parted, AtHandFirst DEF ScopeOK, Listed, VersionInv
  <2>2. UNCHANGED <<version, asked>> /\ \A p \in Parts : listed'[p] \in {0, listed[p]}
    BY <1>6, Parted DEF SyncPart, SyncPartFails, CallFails, HandledNext, Failure, Stops, SetsOK, Identities
  <2>3. \/ UNCHANGED <<touched, shown>>
        \/ pc = "syncPart" /\ Loaded(AtHand)
    BY <1>6 DEF SyncPart, SyncPartFails, CallFails
  <2>. QED
    BY <2>1, <2>2, <2>3, Parted DEF Loaded, VersionInv, SetsOK, Identities
<1>7. CASE CheckSourceTable \/ CheckTargetTable \/ MatchTarget
  BY <1>7 DEF CheckSourceTable, CheckTargetTable, MatchTarget, VersionInv, Stops, GoesOn
<1>8. CASE UNCHANGED vars
  BY <1>8 DEF vars, VersionInv, Stops, GoesOn
<1>. QED
  BY <1>1, <1>2, <1>3, <1>4, <1>5, <1>6, <1>7, <1>8 DEF Next, Run

LEMMA CheckedStep == IInv /\ [Next]_vars => CheckedFirst'
<1>. SUFFICES ASSUME IInv, [Next]_vars, touched' # {} PROVE found' = selected'
  BY DEF CheckedFirst
<1>. USE DEF IInv
<1>1. CASE SourceChange \/ Dropped \/ Begin
  BY <1>1 DEF SourceChange, Dropped, Begin, planVars, targetVars, history, runVars, CheckedFirst
<1>2. CASE CheckSourceTable \/ CheckTargetTable \/ ListSource \/ MatchTarget
  BY <1>2 DEF CheckSourceTable, CheckTargetTable, ListSource, MatchTarget, history, FoundInv,
     Preflight
<1>3. CASE ListParts \/ SyncPart \/ SyncPartFails
  <2>1. selected \subseteq found /\ UNCHANGED <<found, selected>>
    BY <1>3 DEF ListParts, SyncPart, SyncPartFails, planVars, FoundInv, Failure, Stops
  <2>. QED
    BY <2>1, Parted DEF ScopeOK
<1>4. CASE CallFails
  <2>1. UNCHANGED <<found, selected>> /\ (pc = "syncPart" \/ UNCHANGED touched)
    BY <1>4 DEF CallFails, planVars, Stops
  <2>2. pc = "syncPart" => selected \subseteq found
    BY DEF FoundInv
  <2>. QED
    BY <2>1, <2>2, Parted DEF ScopeOK, CheckedFirst
<1>5. CASE UNCHANGED vars
  BY <1>5 DEF vars, planVars, history, CheckedFirst
<1>. QED
  BY <1>1, <1>2, <1>3, <1>4, <1>5 DEF Next, Run

(* What comes before the partition at hand is dealt with.                  *)
LEMMA InOrder ==
  ASSUME IInv, pc = "syncPart", NEW q \in selected, Before(q, AtHand)
  PROVE  q \in touched \cup absent
<1>. USE DEF IInv
<1>1. AtHand \in Listed /\ TableOf[AtHand] = table /\ \A p \in Listed : AtHand <= p
  BY Parted, AtHandFirst DEF ScopeOK, PartsOf
<1>2. turn \in 1..Len(plan) /\ DOMAIN plan = 1..Len(plan) /\ Len(plan) \in Nat
  BY Parted, PlanFacts DEF StepOK, PlanOK
<1>3. PICK i, j \in 1..Len(plan) :
        plan[i] = TableOf[q] /\ plan[j] = TableOf[AtHand] /\ (i < j \/ (i = j /\ q < AtHand))
  BY <1>2 DEF Before
<1>4. j = turn
  BY <1>1, <1>2, <1>3, Parted, PlanFacts DEF table, PlanOK
<1>5. q \in Parts /\ q \in Nat /\ AtHand \in Nat
  BY <1>1, Parted, ConstantsAssumption DEF PlanOK, Selections, Listed
<1>6. q \in Named(plan[i])
  BY <1>3, <1>5 DEF Named, PartsOf
<1>7. CASE i < turn
  BY <1>2, <1>3, <1>6, <1>7 DEF HandledInv, Handled
<1>8. CASE i = turn
  <2>1. q \notin Listed
    BY <1>1, <1>3, <1>4, <1>5, <1>8
  <2>. QED
    BY <1>6, <1>8, <2>1 DEF HandledInv, Handled, table
<1>. QED
  BY <1>2, <1>3, <1>4, <1>7, <1>8

LEMMA StoppedStep == IInv /\ [Next]_vars => StoppedByError'
<1>. SUFFICES ASSUME IInv, [Next]_vars PROVE StoppedByError'
  OBVIOUS
<1>. USE DEF IInv
<1>1. UNCHANGED planVars
  BY DEF Next, Run, vars, Stops, GoesOn, TableDone, HandledNext, Failure, Ends, planVars,
     SourceChange, Dropped, Begin, CheckSourceTable, CheckTargetTable, ListSource, MatchTarget,
     ListParts, SyncPart, SyncPartFails, CallFails
<1>2. /\ \A q, p : Before(q, p)' <=> Before(q, p)
      /\ selected' = selected
  BY <1>1 DEF planVars, Before
<1>3. CASE Begin
  BY <1>3 DEF Begin, StoppedByError
<1>4. CASE touched' = touched /\ absent \subseteq absent'
  BY <1>2, <1>4 DEF StoppedByError
<1>5. CASE touched' = touched \cup {AtHand} /\ pc = "syncPart" /\ absent' = absent
  BY <1>2, <1>5, InOrder DEF StoppedByError
<1>6. SourceChange \/ Dropped \/ CheckSourceTable \/ CheckTargetTable \/ ListSource
      \/ MatchTarget \/ ListParts \/ UNCHANGED vars => touched' = touched /\ absent \subseteq absent'
  BY DEF SourceChange, Dropped, CheckSourceTable, CheckTargetTable, ListSource, MatchTarget,
     ListParts, vars, history, runVars, Stops, GoesOn
<1>7. SyncPart \/ SyncPartFails \/ CallFails =>
        /\ absent' = absent
        /\ \/ touched' = touched
           \/ touched' = touched \cup {AtHand} /\ pc = "syncPart"
  BY DEF SyncPart, SyncPartFails, CallFails, Loaded, Failure, Stops
<1>. QED
  BY <1>3, <1>4, <1>5, <1>6, <1>7 DEF Next, Run

-----------------------------------------------------------------------------
LEMMA Invariance == Spec => []IInv
<1>1. IInv /\ [Next]_vars => IInv'
  BY TypeStep, FoundStep, HandledStep, VersionStep, CheckedStep, StoppedStep DEF IInv
<1>. QED
  BY InitInv, <1>1, PTL DEF Spec

(* The run only ever lists or changes what its plan names, and is between  *)
(* two steps of cycleOverwritePlan and syncTable, for any plan.            *)
THEOREM TypeCorrect == Spec => []TypeOK
<1>1. IInv => TypeOK
  BY DEF IInv
<1>. QED
  BY Invariance, <1>1, PTL

(* The preflight of cycleOverwritePlan has found every partition of every  *)
(* table before the target is changed.                                     *)
THEOREM PreflightCorrect == Spec => []CheckedFirst
<1>1. IInv => CheckedFirst
  BY DEF IInv
<1>. QED
  BY Invariance, <1>1, PTL

(* The partitions a failed run has changed are the first of its plan, but  *)
(* for those that were gone from the source.                               *)
THEOREM OrderCorrect == Spec => []StoppedByError
<1>1. IInv => StoppedByError
  BY DEF IInv
<1>. QED
  BY Invariance, <1>1, PTL

(* A forced overwrite that reports success has loaded everything there was *)
(* in the source, at its version of the beginning or a later one.          *)
THEOREM DoneCorrect == Spec => []DoneComplete
<1>1. IInv => DoneComplete
  <2>. SUFFICES ASSUME IInv, outcome = "done", NEW p \in selected \ absent
                PROVE  p \in touched /\ shown[p] >= asked[p]
    BY DEF DoneComplete
  <2>1. p \in touched /\ p \in Parts
    BY Parted DEF IInv, HandledInv, Handled, PlanOK, Selections
  <2>. QED
    BY <2>1 DEF IInv, VersionInv
<1>. QED
  BY Invariance, <1>1, PTL
=============================================================================
