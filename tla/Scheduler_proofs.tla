--------------------------- MODULE Scheduler_proofs ---------------------------
(***************************************************************************)
(* Proofs about Scheduler, for any actors, any checkpoints and plans and   *)
(* any bounds: its types, the safety properties that follow from the       *)
(* inductive invariant of SchedulerInvariant, what it reports, and that    *)
(* its calls are those of ExecutionInterface.                              *)
(***************************************************************************)
EXTENDS SchedulerInvariant, SchedulerCalls, TLAPS

\* A plan is a sequence of intervals.
LEMMA PlanTypes ==
    ASSUME TypeOK
    PROVE  /\ Len(plan) \in Nat /\ DOMAIN plan = 1..Len(plan)
           /\ plan \in Seq([actor : Actors \cup {Undeclared}, checkpoint : Names])
<1>1. plan \in Seq([actor : Actors \cup {Undeclared}, checkpoint : Names])
  BY PlansAssumption DEF TypeOK, WorldTypes
<1>. QED  BY <1>1

\* The interval advance asks for belongs to a declared actor, because only an
\* admissible plan is ever executed.
LEMMA CurrentActor ==
    ASSUME TypeOK, Inductive, ~closed, cpc # "admit", next # Len(plan)
    PROVE  Current.actor \in Actors
<1>1. next + 1 \in DOMAIN plan
  BY PlanTypes DEF TypeOK, ControllerTypes, Inductive, PlanAdmitted
<1>. QED  BY <1>1 DEF Inductive, PlanAdmitted, Admissible, Current

\* A row appended to the evidence is a row.
LEMMA RetainEventTypes ==
    ASSUME TypeOK, NEW kind \in {"permit", "arrival"}, NEW a \in Actors,
           RetainEvent(kind, a)
    PROVE  events' \in Seq(Rows) /\ evidence_bytes' \in Nat
<1>1. [kind |-> kind, step |-> next, actor |-> a, checkpoint |-> checkpoint[a]] \in Rows
  BY DEF TypeOK, ControllerTypes, WorkerTypes, Rows
<1>. QED  BY <1>1 DEF RetainEvent, TypeOK, RowTypes

\* A cleanup attempt is recorded as one.
LEMMA AttemptTypes ==
    ASSUME TypeOK, NEW status \in CleanupStates, NEW remaining \in SUBSET Actors,
           Attempt(status, remaining)
    PROVE  cleanup_attempts' \in Seq(AttemptRows)
<1>1. [cleanup |-> status, remaining |-> remaining] \in AttemptRows
  BY DEF AttemptRows
<1>. QED  BY <1>1 DEF Attempt, TypeOK, ReportTypes

USE DEF Fail, NoFailure, NotifyAll, world, shared, verdict, control, threads,
        report, actors, rows, workers

(***************************************************************************)
(* Every step keeps the types.  The invariant is needed for one reason:    *)
(* the actor of an interval in progress must be a declared one.            *)
(***************************************************************************)
\* Acquiring an execution keeps the types.
LEMMA StartTypes ==
    ASSUME TypeOK, Inductive, Start
    PROVE  TypeOK'
<1>. USE DEF TypeOK
<1>1. CASE \E reentry, identityMatches, boundsValid \in BOOLEAN :
               Admit(reentry, identityMatches, boundsValid)
  <2>1. WorldTypes'  BY <1>1 DEF Admit, Refusal, WorldTypes
  <2>2. ReportTypes'  BY <1>1 DEF Admit, Refusal, ReportTypes, Failures
  <2>3. RowTypes'  BY <1>1 DEF Admit, Refusal, RowTypes
  <2>4. ControllerTypes'  BY <1>1 DEF Admit, Refusal, ControllerTypes
  <2>5. WorkerTypes'  BY <1>1 DEF Admit, Refusal, WorkerTypes, Names
  <2>. QED  BY <2>1, <2>2, <2>3, <2>4, <2>5
<1>2. CASE FactoryRefuses
  <2>1. WorldTypes'  BY <1>2 DEF FactoryRefuses, WorldTypes
  <2>2. ReportTypes'  BY <1>2 DEF FactoryRefuses, ReportTypes, Failures
  <2>3. RowTypes'  BY <1>2 DEF FactoryRefuses, RowTypes
  <2>4. ControllerTypes'  BY <1>2 DEF FactoryRefuses, ControllerTypes
  <2>5. WorkerTypes'  BY <1>2 DEF FactoryRefuses, WorkerTypes, Names
  <2>. QED  BY <2>1, <2>2, <2>3, <2>4, <2>5
<1>3. CASE \E workerSetMatches \in BOOLEAN : FactoryReturns(workerSetMatches)
  <2>1. WorldTypes'  BY <1>3 DEF FactoryReturns, WorldTypes
  <2>2. ReportTypes'  BY <1>3 DEF FactoryReturns, ReportTypes, Failures
  <2>3. RowTypes'  BY <1>3 DEF FactoryReturns, RowTypes
  <2>4. ControllerTypes'  BY <1>3 DEF FactoryReturns, ControllerTypes
  <2>5. WorkerTypes'  BY <1>3 DEF FactoryReturns, WorkerTypes, Names
  <2>. QED  BY <2>1, <2>2, <2>3, <2>4, <2>5
<1>4. CASE \E a \in Actors : Spawn(a)
  <2>1. WorldTypes'  BY <1>4 DEF Spawn, WorldTypes
  <2>2. ReportTypes'  BY <1>4 DEF Spawn, ReportTypes, Failures
  <2>3. RowTypes'  BY <1>4 DEF Spawn, RowTypes
  <2>4. ControllerTypes'  BY <1>4 DEF Spawn, ControllerTypes
  <2>5. WorkerTypes'  BY <1>4 DEF Spawn, WorkerTypes, Names
  <2>. QED  BY <2>1, <2>2, <2>3, <2>4, <2>5
<1>5. CASE SpawnFails
  <2>1. WorldTypes'  BY <1>5 DEF SpawnFails, WorldTypes
  <2>2. ReportTypes'  BY <1>5 DEF SpawnFails, ReportTypes, Failures
  <2>3. RowTypes'  BY <1>5 DEF SpawnFails, RowTypes
  <2>4. ControllerTypes'  BY <1>5 DEF SpawnFails, ControllerTypes
  <2>5. WorkerTypes'  BY <1>5 DEF SpawnFails, WorkerTypes, Names
  <2>. QED  BY <2>1, <2>2, <2>3, <2>4, <2>5
<1>6. CASE AwaitReady
  <2>1. WorldTypes'  BY <1>6 DEF AwaitReady, WaitFor, WaitVerdict, WorldTypes
  <2>2. ReportTypes'  BY <1>6 DEF AwaitReady, WaitFor, WaitVerdict, ReportTypes, Failures
  <2>3. RowTypes'  BY <1>6 DEF AwaitReady, WaitFor, WaitVerdict, RowTypes
  <2>4. ControllerTypes'  BY <1>6 DEF AwaitReady, WaitFor, WaitVerdict, ControllerTypes
  <2>5. WorkerTypes'  BY <1>6 DEF AwaitReady, WaitFor, WaitVerdict, WorkerTypes, Names
  <2>. QED  BY <2>1, <2>2, <2>3, <2>4, <2>5
<1>. QED  BY <1>1, <1>2, <1>3, <1>4, <1>5, <1>6 DEF Start

\* Observing keeps the types.
LEMMA ObserveTypes ==
    ASSUME TypeOK, Inductive, Observe
    PROVE  TypeOK'
<1>. USE DEF TypeOK
<1>1. CASE ObserveBegin
  <2>1. WorldTypes'  BY <1>1 DEF ObserveBegin, WorldTypes
  <2>2. ReportTypes'  BY <1>1 DEF ObserveBegin, ReportTypes, Failures
  <2>3. RowTypes'  BY <1>1 DEF ObserveBegin, RowTypes
  <2>4. ControllerTypes'  BY <1>1 DEF ObserveBegin, ControllerTypes
  <2>5. WorkerTypes'  BY <1>1 DEF ObserveBegin, WorkerTypes, Names
  <2>. QED  BY <2>1, <2>2, <2>3, <2>4, <2>5
<1>2. CASE \E valid \in BOOLEAN : ObserveEnd(valid)
  <2>1. WorldTypes'  BY <1>2 DEF ObserveEnd, WorldTypes
  <2>2. ReportTypes'  BY <1>2 DEF ObserveEnd, ReportTypes, Failures
  <2>3. RowTypes'
    <3>1. next \in Nat  BY DEF ControllerTypes
    <3>2. /\ observations \in Seq(Nat)
          /\ observations' \in {observations, Append(observations, next)}
      BY <1>2 DEF ObserveEnd, RowTypes
    <3>3. observations' \in Seq(Nat)  BY <3>1, <3>2
    <3>4. events' \in Seq(Rows) /\ evidence_bytes' \in Nat
      BY <1>2 DEF ObserveEnd, RowTypes
    <3>. QED  BY <3>3, <3>4 DEF RowTypes
  <2>4. ControllerTypes'  BY <1>2 DEF ObserveEnd, ControllerTypes
  <2>5. WorkerTypes'  BY <1>2 DEF ObserveEnd, WorkerTypes, Names
  <2>. QED  BY <2>1, <2>2, <2>3, <2>4, <2>5
<1>. QED  BY <1>1, <1>2 DEF Observe

\* An interval in progress keeps the types.
LEMMA IntervalTypes ==
    ASSUME TypeOK, Inductive, Interval
    PROVE  TypeOK'
<1>. USE DEF TypeOK
<1>1. CASE AwaitArrival
  <2>1. WorldTypes'  BY <1>1 DEF AwaitArrival, WaitFor, WaitVerdict, WorldTypes
  <2>2. ReportTypes'  BY <1>1 DEF AwaitArrival, WaitFor, WaitVerdict, ReportTypes, Failures
  <2>3. RowTypes'  BY <1>1 DEF AwaitArrival, WaitFor, WaitVerdict, RowTypes
  <2>4. ControllerTypes'  BY <1>1 DEF AwaitArrival, WaitFor, WaitVerdict, ControllerTypes
  <2>5. WorkerTypes'  BY <1>1 DEF AwaitArrival, WaitFor, WaitVerdict, WorkerTypes, Names
  <2>. QED  BY <2>1, <2>2, <2>3, <2>4, <2>5
<1>2. CASE Arrive
  <2>1. WorldTypes'  BY <1>2 DEF Arrive, WorldTypes
  <2>2. ReportTypes'  BY <1>2 DEF Arrive, ReportTypes, Failures
  <2>3. RowTypes'
    <3>1. Current.actor \in Actors
      BY <1>2, CurrentActor, PlanTypes
         DEF Arrive, Inductive, PlanAdmitted, ClosedOwnsNothing, ControllerTypes
    <3>2. RetainEvent("arrival", Current.actor)  BY <1>2 DEF Arrive
    <3>3. events' \in Seq(Rows) /\ evidence_bytes' \in Nat
      BY <3>1, <3>2, RetainEventTypes
    <3>4. observations' \in Seq(Nat)  BY <1>2 DEF Arrive, RowTypes
    <3>. QED  BY <3>3, <3>4 DEF RowTypes
  <2>4. ControllerTypes'  BY <1>2 DEF Arrive, ControllerTypes
  <2>5. WorkerTypes'  BY <1>2 DEF Arrive, WorkerTypes, Names
  <2>. QED  BY <2>1, <2>2, <2>3, <2>4, <2>5
<1>3. CASE \E exitPanicked \in BOOLEAN : JoinFinished(exitPanicked)
  <2>1. WorldTypes'  BY <1>3 DEF JoinFinished, ReleaseJoined, WorldTypes
  <2>2. ReportTypes'  BY <1>3 DEF JoinFinished, ReleaseJoined, ReportTypes, Failures
  <2>3. RowTypes'  BY <1>3 DEF JoinFinished, ReleaseJoined, RowTypes
  <2>4. ControllerTypes'  BY <1>3 DEF JoinFinished, ReleaseJoined, ControllerTypes
  <2>5. WorkerTypes'  BY <1>3 DEF JoinFinished, ReleaseJoined, WorkerTypes, Names
  <2>. QED  BY <2>1, <2>2, <2>3, <2>4, <2>5
<1>4. CASE Check
  <2>1. WorldTypes'  BY <1>4 DEF Check, WorldTypes
  <2>2. ReportTypes'  BY <1>4 DEF Check, ReportTypes, Failures
  <2>3. RowTypes'  BY <1>4 DEF Check, RowTypes
  <2>4. ControllerTypes'  BY <1>4 DEF Check, ControllerTypes
  <2>5. WorkerTypes'  BY <1>4 DEF Check, WorkerTypes, Names
  <2>. QED  BY <2>1, <2>2, <2>3, <2>4, <2>5
<1>5. CASE Settle
  <2>1. WorldTypes'  BY <1>5 DEF Settle, AfterCall, WorldTypes
  <2>2. ReportTypes'  BY <1>5 DEF Settle, AfterCall, ReportTypes, Failures
  <2>3. RowTypes'  BY <1>5 DEF Settle, AfterCall, RowTypes
  <2>4. ControllerTypes'  BY <1>5 DEF Settle, AfterCall, ControllerTypes
  <2>5. WorkerTypes'  BY <1>5 DEF Settle, AfterCall, WorkerTypes, Names
  <2>. QED  BY <2>1, <2>2, <2>3, <2>4, <2>5
<1>6. CASE Complete
  <2>1. WorldTypes'  BY <1>6 DEF Complete, WorldTypes
  <2>2. ReportTypes'  BY <1>6 DEF Complete, ReportTypes, Failures
  <2>3. RowTypes'  BY <1>6 DEF Complete, RowTypes
  <2>4. ControllerTypes'  BY <1>6 DEF Complete, ControllerTypes
  <2>5. WorkerTypes'  BY <1>6 DEF Complete, WorkerTypes, Names
  <2>. QED  BY <2>1, <2>2, <2>3, <2>4, <2>5
<1>. QED  BY <1>1, <1>2, <1>3, <1>4, <1>5, <1>6 DEF Interval

\* Cleaning up and dropping keeps the types.
LEMMA CleanUpTypes ==
    ASSUME TypeOK, Inductive, CleanUp
    PROVE  TypeOK'
<1>. USE DEF TypeOK
<1>1. CASE CleanupBegin
  <2>1. WorldTypes'  BY <1>1 DEF CleanupBegin, WorldTypes
  <2>2. ReportTypes'  BY <1>1 DEF CleanupBegin, ReportTypes, Failures
  <2>3. RowTypes'  BY <1>1 DEF CleanupBegin, RowTypes
  <2>4. ControllerTypes'  BY <1>1 DEF CleanupBegin, ControllerTypes
  <2>5. WorkerTypes'  BY <1>1 DEF CleanupBegin, WorkerTypes, Names
  <2>. QED  BY <2>1, <2>2, <2>3, <2>4, <2>5
<1>2. CASE \E timedOut \in BOOLEAN : DrainEnd(timedOut)
  <2>1. WorldTypes'  BY <1>2 DEF DrainEnd, WorldTypes
  <2>2. ReportTypes'  BY <1>2 DEF DrainEnd, ReportTypes, Failures
  <2>3. RowTypes'  BY <1>2 DEF DrainEnd, RowTypes
  <2>4. ControllerTypes'  BY <1>2 DEF DrainEnd, ControllerTypes
  <2>5. WorkerTypes'  BY <1>2 DEF DrainEnd, WorkerTypes, Names
  <2>. QED  BY <2>1, <2>2, <2>3, <2>4, <2>5
<1>3. CASE Collect
  <2>1. WorldTypes'  BY <1>3 DEF Collect, ReleaseJoined, WorldTypes
  <2>2. ReportTypes'
    <3>1. handles' \in SUBSET Actors
      BY <1>3 DEF Collect, ReleaseJoined, ControllerTypes
    <3>2. CASE handles' = {}  BY <1>3, <3>2 DEF Collect, ReportTypes, Failures
    <3>3. CASE handles' # {}
      <4>1. Attempt("Incomplete", handles')  BY <1>3, <3>3 DEF Collect
      <4>2. "Incomplete" \in CleanupStates  BY DEF CleanupStates
      <4>3. cleanup_attempts' \in Seq(AttemptRows)
        BY <3>1, <4>1, <4>2, AttemptTypes
      <4>4. /\ cleanup' = "Incomplete" /\ remaining_actors' = handles'
            /\ outcome' \in {outcome, "ApplicationFailed"}
            /\ UNCHANGED schedule_completed
        BY <1>3, <3>3, <4>1 DEF Collect, Attempt
      <4>. QED  BY <3>1, <4>2, <4>3, <4>4 DEF ReportTypes, Failures
    <3>. QED  BY <3>2, <3>3
  <2>3. RowTypes'  BY <1>3 DEF Collect, ReleaseJoined, RowTypes
  <2>4. ControllerTypes'  BY <1>3 DEF Collect, ReleaseJoined, ControllerTypes
  <2>5. WorkerTypes'  BY <1>3 DEF Collect, ReleaseJoined, WorkerTypes, Names
  <2>. QED  BY <2>1, <2>2, <2>3, <2>4, <2>5
<1>4. CASE \E succeeds \in BOOLEAN : TearDown(succeeds)
  <2>1. WorldTypes'  BY <1>4 DEF TearDown, WorldTypes
  <2>2. ReportTypes'
    <3>1. PICK status \in CleanupStates : Attempt(status, {})
      BY <1>4 DEF TearDown, CleanupStates
    <3>2. cleanup_attempts' \in Seq(AttemptRows)  BY <3>1, AttemptTypes
    <3>. QED  BY <1>4, <3>1, <3>2 DEF TearDown, Attempt, ReportTypes, Failures
  <2>3. RowTypes'  BY <1>4 DEF TearDown, RowTypes
  <2>4. ControllerTypes'  BY <1>4 DEF TearDown, ControllerTypes
  <2>5. WorkerTypes'  BY <1>4 DEF TearDown, WorkerTypes, Names
  <2>. QED  BY <2>1, <2>2, <2>3, <2>4, <2>5
<1>5. CASE DropEnd
  <2>1. WorldTypes'  BY <1>5 DEF DropEnd, ReleaseJoined, WorldTypes
  <2>2. ReportTypes'  BY <1>5 DEF DropEnd, ReleaseJoined, ReportTypes, Failures
  <2>3. RowTypes'  BY <1>5 DEF DropEnd, ReleaseJoined, RowTypes
  <2>4. ControllerTypes'  BY <1>5 DEF DropEnd, ReleaseJoined, ControllerTypes
  <2>5. WorkerTypes'  BY <1>5 DEF DropEnd, ReleaseJoined, WorkerTypes, Names
  <2>. QED  BY <2>1, <2>2, <2>3, <2>4, <2>5
<1>. QED  BY <1>1, <1>2, <1>3, <1>4, <1>5 DEF CleanUp

\* A granted or refused permit keeps the types.
LEMMA AdvanceTypes ==
    ASSUME TypeOK, Inductive, NEW requested, Advance(requested)
    PROVE  TypeOK'
<1>. USE DEF TypeOK, Advance
<1>1. CASE AdvanceRefusal(requested) = "none"
  <2>1. requested = Current /\ requested.actor \in Actors
    BY <1>1, CurrentActor DEF AdvanceRefusal
  <2>2. RetainEvent("permit", requested.actor)  BY <1>1
  <2>3. events' \in Seq(Rows) /\ evidence_bytes' \in Nat
    BY <2>1, <2>2, RetainEventTypes
  <2>4. RowTypes'  BY <1>1, <2>3 DEF RowTypes
  <2>5. ReportTypes'  BY <1>1 DEF ReportTypes, Failures
  <2>6. WorldTypes'  BY <1>1 DEF WorldTypes
  <2>7. ControllerTypes'  BY <1>1 DEF ControllerTypes
  <2>8. WorkerTypes'  BY <1>1 DEF WorkerTypes
  <2>. QED  BY <2>4, <2>5, <2>6, <2>7, <2>8
<1>2. CASE AdvanceRefusal(requested) # "none"
  <2>1. AdvanceRefusal(requested) \in Failures
    BY <1>2 DEF AdvanceRefusal, Failures
  <2>2. RowTypes'  BY <1>2 DEF RowTypes
  <2>3. ReportTypes'  BY <1>2, <2>1 DEF ReportTypes
  <2>4. WorldTypes'  BY <1>2 DEF WorldTypes
  <2>5. ControllerTypes'  BY <1>2 DEF ControllerTypes
  <2>6. WorkerTypes'  BY <1>2 DEF WorkerTypes
  <2>. QED  BY <2>2, <2>3, <2>4, <2>5, <2>6
<1>. QED  BY <1>1, <1>2

\* What the caller asks for keeps the types.
LEMMA CallerTypes ==
    ASSUME TypeOK, Inductive, CallerStep \/ RunLoopStep \/ RunLoopEnd
    PROVE  TypeOK'
<1>. USE DEF TypeOK
<1>1. CASE RunLoopEnd
  <2>1. WorldTypes'  BY <1>1 DEF RunLoopEnd, WorldTypes
  <2>2. ReportTypes'  BY <1>1 DEF RunLoopEnd, ReportTypes, Failures
  <2>3. RowTypes'  BY <1>1 DEF RunLoopEnd, RowTypes
  <2>4. ControllerTypes'  BY <1>1 DEF RunLoopEnd, ControllerTypes
  <2>5. WorkerTypes'  BY <1>1 DEF RunLoopEnd, WorkerTypes, Names
  <2>. QED  BY <2>1, <2>2, <2>3, <2>4, <2>5
<1>2. CASE Finish
  <2>1. WorldTypes'  BY <1>2 DEF Finish, MayCleanUp, WorldTypes
  <2>2. ReportTypes'  BY <1>2 DEF Finish, MayCleanUp, ReportTypes, Failures
  <2>3. RowTypes'  BY <1>2 DEF Finish, MayCleanUp, RowTypes
  <2>4. ControllerTypes'  BY <1>2 DEF Finish, MayCleanUp, ControllerTypes
  <2>5. WorkerTypes'  BY <1>2 DEF Finish, MayCleanUp, WorkerTypes, Names
  <2>. QED  BY <2>1, <2>2, <2>3, <2>4, <2>5
<1>3. CASE CallCleanup
  <2>1. WorldTypes'  BY <1>3 DEF CallCleanup, MayCleanUp, WorldTypes
  <2>2. ReportTypes'  BY <1>3 DEF CallCleanup, MayCleanUp, ReportTypes, Failures
  <2>3. RowTypes'  BY <1>3 DEF CallCleanup, MayCleanUp, RowTypes
  <2>4. ControllerTypes'  BY <1>3 DEF CallCleanup, MayCleanUp, ControllerTypes
  <2>5. WorkerTypes'  BY <1>3 DEF CallCleanup, MayCleanUp, WorkerTypes, Names
  <2>. QED  BY <2>1, <2>2, <2>3, <2>4, <2>5
<1>4. CASE DropBegin
  <2>1. WorldTypes'  BY <1>4 DEF DropBegin, WorldTypes
  <2>2. ReportTypes'  BY <1>4 DEF DropBegin, ReportTypes, Failures
  <2>3. RowTypes'  BY <1>4 DEF DropBegin, RowTypes
  <2>4. ControllerTypes'  BY <1>4 DEF DropBegin, ControllerTypes
  <2>5. WorkerTypes'  BY <1>4 DEF DropBegin, WorkerTypes, Names
  <2>. QED  BY <2>1, <2>2, <2>3, <2>4, <2>5
<1>5. CASE \E requested : Advance(requested)  BY <1>5, AdvanceTypes
<1>. QED  BY <1>1, <1>2, <1>3, <1>4, <1>5 DEF CallerStep, RunLoopStep

\* What a worker thread does keeps the types.
LEMMA WorkerStepTypes ==
    ASSUME TypeOK, Inductive, NEW a \in Actors,
           Runtime(a) \/ Body(a) \/ SpuriousWakeup(a)
    PROVE  TypeOK'
<1>. USE DEF TypeOK
<1>1. CASE Enter(a)
  <2>1. WorldTypes'  BY <1>1 DEF Enter, WorldTypes
  <2>2. ReportTypes'  BY <1>1 DEF Enter, ReportTypes, Failures
  <2>3. RowTypes'  BY <1>1 DEF Enter, RowTypes
  <2>4. ControllerTypes'  BY <1>1 DEF Enter, ControllerTypes
  <2>5. WorkerTypes'  BY <1>1 DEF Enter, WorkerTypes, Names
  <2>. QED  BY <2>1, <2>2, <2>3, <2>4, <2>5
<1>2. CASE Recheck(a)
  <2>1. WorldTypes'  BY <1>2 DEF Recheck, WorldTypes
  <2>2. ReportTypes'  BY <1>2 DEF Recheck, ReportTypes, Failures
  <2>3. RowTypes'  BY <1>2 DEF Recheck, RowTypes
  <2>4. ControllerTypes'  BY <1>2 DEF Recheck, ControllerTypes
  <2>5. WorkerTypes'  BY <1>2 DEF Recheck, WorkerTypes, Names
  <2>. QED  BY <2>1, <2>2, <2>3, <2>4, <2>5
<1>3. CASE Epilogue(a)
  <2>1. WorldTypes'  BY <1>3 DEF Epilogue, WorldTypes
  <2>2. ReportTypes'  BY <1>3 DEF Epilogue, ReportTypes, Failures
  <2>3. RowTypes'  BY <1>3 DEF Epilogue, RowTypes
  <2>4. ControllerTypes'  BY <1>3 DEF Epilogue, ControllerTypes
  <2>5. WorkerTypes'  BY <1>3 DEF Epilogue, WorkerTypes, Names
  <2>. QED  BY <2>1, <2>2, <2>3, <2>4, <2>5
<1>4. CASE ThreadEnds(a)
  <2>1. WorldTypes'  BY <1>4 DEF ThreadEnds, WorldTypes
  <2>2. ReportTypes'  BY <1>4 DEF ThreadEnds, ReportTypes, Failures
  <2>3. RowTypes'  BY <1>4 DEF ThreadEnds, RowTypes
  <2>4. ControllerTypes'  BY <1>4 DEF ThreadEnds, ControllerTypes
  <2>5. WorkerTypes'  BY <1>4 DEF ThreadEnds, WorkerTypes, Names
  <2>. QED  BY <2>1, <2>2, <2>3, <2>4, <2>5
<1>5. CASE \E name \in Names : ArriveAt(a, name)
  <2>1. WorldTypes'  BY <1>5 DEF ArriveAt, WorldTypes
  <2>2. ReportTypes'  BY <1>5 DEF ArriveAt, ReportTypes, Failures
  <2>3. RowTypes'  BY <1>5 DEF ArriveAt, RowTypes
  <2>4. ControllerTypes'  BY <1>5 DEF ArriveAt, ControllerTypes
  <2>5. WorkerTypes'  BY <1>5 DEF ArriveAt, WorkerTypes, Names
  <2>. QED  BY <2>1, <2>2, <2>3, <2>4, <2>5
<1>6. CASE ForeignArrive(a)
  <2>1. WorldTypes'  BY <1>6 DEF ForeignArrive, WorldTypes
  <2>2. ReportTypes'  BY <1>6 DEF ForeignArrive, ReportTypes, Failures
  <2>3. RowTypes'  BY <1>6 DEF ForeignArrive, RowTypes
  <2>4. ControllerTypes'  BY <1>6 DEF ForeignArrive, ControllerTypes
  <2>5. WorkerTypes'  BY <1>6 DEF ForeignArrive, WorkerTypes, Names
  <2>. QED  BY <2>1, <2>2, <2>3, <2>4, <2>5
<1>7. CASE \E r \in {"ok", "failed"} : BodyEnds(a, r)
  <2>1. WorldTypes'  BY <1>7 DEF BodyEnds, WorldTypes
  <2>2. ReportTypes'  BY <1>7 DEF BodyEnds, ReportTypes, Failures
  <2>3. RowTypes'  BY <1>7 DEF BodyEnds, RowTypes
  <2>4. ControllerTypes'  BY <1>7 DEF BodyEnds, ControllerTypes
  <2>5. WorkerTypes'  BY <1>7 DEF BodyEnds, WorkerTypes, Names
  <2>. QED  BY <2>1, <2>2, <2>3, <2>4, <2>5
<1>8. CASE SpuriousWakeup(a)
  <2>1. WorldTypes'  BY <1>8 DEF SpuriousWakeup, WorldTypes
  <2>2. ReportTypes'  BY <1>8 DEF SpuriousWakeup, ReportTypes, Failures
  <2>3. RowTypes'  BY <1>8 DEF SpuriousWakeup, RowTypes
  <2>4. ControllerTypes'  BY <1>8 DEF SpuriousWakeup, ControllerTypes
  <2>5. WorkerTypes'  BY <1>8 DEF SpuriousWakeup, WorkerTypes, Names
  <2>. QED  BY <2>1, <2>2, <2>3, <2>4, <2>5
<1>. QED  BY <1>1, <1>2, <1>3, <1>4, <1>5, <1>6, <1>7, <1>8 DEF Runtime, Body

\* Cancellation and the clock keep the types.
LEMMA EnvironmentTypes ==
    ASSUME TypeOK, Cancel \/ Expire \/ UNCHANGED vars
    PROVE  TypeOK'
<1>. USE DEF TypeOK, vars, WorldTypes, ReportTypes, RowTypes, ControllerTypes,
            WorkerTypes
<1>1. CASE Cancel  BY <1>1 DEF Cancel
<1>2. CASE Expire  BY <1>2 DEF Expire
<1>3. CASE UNCHANGED vars  BY <1>3
<1>. QED  BY <1>1, <1>2, <1>3

(***************************************************************************)
(* Every step keeps the invariant.                                         *)
(***************************************************************************)
\* Initially nothing exists.
LEMMA InitStep == ASSUME Init PROVE TypeOK /\ Inductive
<1>. USE DEF Init
<1>1. WorldTypes  BY DEF WorldTypes
<1>2. ReportTypes
  <2>1. cleanup \in CleanupStates  BY DEF CleanupStates
  <2>2. cleanup_attempts \in Seq(AttemptRows)  OBVIOUS
  <2>. QED  BY <2>1, <2>2 DEF ReportTypes
<1>3. RowTypes  BY DEF RowTypes
<1>4. ControllerTypes  BY DEF ControllerTypes
<1>5. WorkerTypes  BY DEF WorkerTypes, Names
<1>6. TypeOK  BY <1>1, <1>2, <1>3, <1>4, <1>5 DEF TypeOK
<1>7. Inductive
  BY <1>6, PlanTypes
     DEF Inductive, PlanAdmitted, OwnsEveryThread, ThreadPhase, ActorsFilled,
         JoinDiscipline, ClosedOwnsNothing, ExclusiveInterval,
         ObserverQuiescence, StopIsExplained, StopDelivered, Waiting
<1>. QED  BY <1>6, <1>7

\* Acquiring an execution keeps the invariant.
LEMMA StartStep ==
    ASSUME TypeOK, Inductive, Start
    PROVE  Inductive'
<1>. USE DEF Inductive, PlanAdmitted, OwnsEveryThread, ThreadPhase, ActorsFilled,
            JoinDiscipline, ClosedOwnsNothing, ExclusiveInterval,
            ObserverQuiescence, StopIsExplained, StopDelivered,
            Waiting, LockFree, Current, TypeOK, WorldTypes, ControllerTypes,
            WorkerTypes
<1>1. CASE \E reentry, identityMatches, boundsValid \in BOOLEAN :
               Admit(reentry, identityMatches, boundsValid)
  BY <1>1 DEF Admit, Refusal
<1>2. CASE FactoryRefuses
  BY <1>2 DEF FactoryRefuses
<1>3. CASE \E workerSetMatches \in BOOLEAN : FactoryReturns(workerSetMatches)
  BY <1>3 DEF FactoryReturns
<1>4. CASE \E a \in Actors : Spawn(a)
  BY <1>4 DEF Spawn
<1>5. CASE SpawnFails
  BY <1>5 DEF SpawnFails
<1>6. CASE AwaitReady
  BY <1>6 DEF AwaitReady, WaitFor, WaitVerdict
<1>. QED  BY <1>1, <1>2, <1>3, <1>4, <1>5, <1>6 DEF Start

\* Observing keeps the invariant.
LEMMA ObserveStep ==
    ASSUME TypeOK, Inductive, Observe
    PROVE  Inductive'
<1>. USE DEF Inductive, PlanAdmitted, OwnsEveryThread, ThreadPhase, ActorsFilled,
            JoinDiscipline, ClosedOwnsNothing, ExclusiveInterval,
            ObserverQuiescence, StopIsExplained, StopDelivered,
            Waiting, LockFree, Current, TypeOK, WorldTypes, ControllerTypes,
            WorkerTypes
<1>1. CASE ObserveBegin
  BY <1>1 DEF ObserveBegin
<1>2. CASE \E valid \in BOOLEAN : ObserveEnd(valid)
  BY <1>2 DEF ObserveEnd
<1>. QED  BY <1>1, <1>2 DEF Observe

\* An interval in progress keeps the invariant.
LEMMA IntervalStep ==
    ASSUME TypeOK, Inductive, Interval
    PROVE  Inductive'
<1>. USE DEF Inductive, PlanAdmitted, OwnsEveryThread, ThreadPhase, ActorsFilled,
            JoinDiscipline, ClosedOwnsNothing, ExclusiveInterval,
            ObserverQuiescence, StopIsExplained, StopDelivered,
            Waiting, LockFree, Current, TypeOK, WorldTypes, ControllerTypes,
            WorkerTypes
<1>1. CASE AwaitArrival
  BY <1>1 DEF AwaitArrival, WaitFor, WaitVerdict
<1>2. CASE Arrive
  BY <1>2 DEF Arrive, ActorFinished
<1>3. CASE \E exitPanicked \in BOOLEAN : JoinFinished(exitPanicked)
  BY <1>3 DEF JoinFinished, ReleaseJoined, Joined
<1>4. CASE Check
  BY <1>4, PlanTypes DEF Check
<1>5. CASE Settle
  BY <1>5 DEF Settle, AfterCall
<1>6. CASE Complete
  BY <1>6 DEF Complete
<1>. QED  BY <1>1, <1>2, <1>3, <1>4, <1>5, <1>6 DEF Interval

\* Cleaning up and dropping keeps the invariant.
LEMMA CleanUpStep ==
    ASSUME TypeOK, Inductive, CleanUp
    PROVE  Inductive'
<1>. USE DEF Inductive, PlanAdmitted, OwnsEveryThread, ThreadPhase, ActorsFilled,
            JoinDiscipline, ClosedOwnsNothing, ExclusiveInterval,
            ObserverQuiescence, StopIsExplained, StopDelivered,
            Waiting, LockFree, Current, TypeOK, WorldTypes, ControllerTypes,
            WorkerTypes
<1>1. CASE CleanupBegin
  BY <1>1 DEF CleanupBegin, StopsEarly
<1>2. CASE \E timedOut \in BOOLEAN : DrainEnd(timedOut)
  BY <1>2 DEF DrainEnd, IsFinished
<1>3. CASE Collect
  BY <1>3 DEF Collect, ReleaseJoined, Joined, Attempt
<1>4. CASE \E succeeds \in BOOLEAN : TearDown(succeeds)
  BY <1>4 DEF TearDown, Attempt
<1>5. CASE DropEnd
  BY <1>5 DEF DropEnd, ReleaseJoined, Joined, StillOpen
<1>. QED  BY <1>1, <1>2, <1>3, <1>4, <1>5 DEF CleanUp

\* A granted or refused permit keeps the invariant.
LEMMA AdvanceStep ==
    ASSUME TypeOK, Inductive, NEW requested, Advance(requested)
    PROVE  Inductive'
<1>. USE DEF Inductive, PlanAdmitted, OwnsEveryThread, ThreadPhase, ActorsFilled,
            JoinDiscipline, ClosedOwnsNothing, ExclusiveInterval,
            ObserverQuiescence, StopIsExplained, StopDelivered,
            Waiting, LockFree, Current, TypeOK, WorldTypes, ControllerTypes,
            WorkerTypes
<1>. USE DEF Advance
<1>1. CASE AdvanceRefusal(requested) = "none"
  <2>1. /\ requested = Current /\ requested.actor \in Actors /\ next < Len(plan)
        /\ phase[requested.actor] = "Parked"
    BY <1>1, CurrentActor, PlanTypes DEF AdvanceRefusal
  <2>. QED  BY <1>1, <2>1, PlanTypes
<1>2. CASE AdvanceRefusal(requested) # "none"
  <2>1. AdvanceRefusal(requested) # "Completed"  BY DEF AdvanceRefusal
  <2>. QED  BY <1>2, <2>1, PlanTypes
<1>. QED  BY <1>1, <1>2

\* What the caller asks for keeps the invariant.
LEMMA CallerMoves ==
    ASSUME TypeOK, Inductive, CallerStep \/ RunLoopStep \/ RunLoopEnd
    PROVE  Inductive'
<1>. USE DEF Inductive, PlanAdmitted, OwnsEveryThread, ThreadPhase, ActorsFilled,
            JoinDiscipline, ClosedOwnsNothing, ExclusiveInterval,
            ObserverQuiescence, StopIsExplained, StopDelivered,
            Waiting, LockFree, Current, TypeOK, WorldTypes, ControllerTypes,
            WorkerTypes
<1>1. CASE RunLoopEnd
  BY <1>1 DEF RunLoopEnd
<1>2. CASE Finish
  BY <1>2 DEF Finish, MayCleanUp
<1>3. CASE CallCleanup
  BY <1>3 DEF CallCleanup, MayCleanUp
<1>4. CASE DropBegin
  BY <1>4 DEF DropBegin
<1>5. CASE \E requested : Advance(requested)  BY <1>5, AdvanceStep
<1>. QED  BY <1>1, <1>2, <1>3, <1>4, <1>5 DEF CallerStep, RunLoopStep

\* Whatever a worker thread does, its application included, keeps the
\* invariant.
LEMMA WorkerStep ==
    ASSUME TypeOK, Inductive, NEW a \in Actors,
           Runtime(a) \/ Body(a) \/ SpuriousWakeup(a)
    PROVE  Inductive'
<1>. USE DEF Inductive, PlanAdmitted, OwnsEveryThread, ThreadPhase, ActorsFilled,
            JoinDiscipline, ClosedOwnsNothing, ExclusiveInterval,
            ObserverQuiescence, StopIsExplained, StopDelivered,
            Waiting, LockFree, Current, TypeOK, WorldTypes, ControllerTypes,
            WorkerTypes
<1>1. CASE Enter(a)
  BY <1>1 DEF Enter
<1>2. CASE Recheck(a)
  BY <1>2 DEF Recheck, MayProceed
<1>3. CASE Epilogue(a)
  BY <1>3 DEF Epilogue
<1>4. CASE ThreadEnds(a)
  BY <1>4 DEF ThreadEnds
<1>5. CASE \E name \in Names : ArriveAt(a, name)
  BY <1>5 DEF ArriveAt
<1>6. CASE ForeignArrive(a)
  BY <1>6 DEF ForeignArrive
<1>7. CASE \E r \in {"ok", "failed"} : BodyEnds(a, r)
  BY <1>7 DEF BodyEnds
<1>8. CASE SpuriousWakeup(a)
  BY <1>8 DEF SpuriousWakeup
<1>. QED  BY <1>1, <1>2, <1>3, <1>4, <1>5, <1>6, <1>7, <1>8 DEF Runtime, Body

\* Cancellation and the clock do not touch it.
LEMMA EnvironmentStep ==
    ASSUME TypeOK, Inductive, Cancel \/ Expire \/ UNCHANGED vars
    PROVE  Inductive'
<1>. USE DEF Inductive, PlanAdmitted, OwnsEveryThread, ThreadPhase, ActorsFilled,
            JoinDiscipline, ClosedOwnsNothing, ExclusiveInterval,
            ObserverQuiescence, StopIsExplained, StopDelivered,
            Waiting, LockFree, Current, TypeOK, WorldTypes, ControllerTypes,
            WorkerTypes
<1>1. CASE Cancel  BY <1>1 DEF Cancel, vars
<1>2. CASE Expire  BY <1>2 DEF Expire, vars
<1>3. CASE UNCHANGED vars  BY <1>3 DEF vars
<1>. QED  BY <1>1, <1>2, <1>3

\* The invariant is inductive: it holds initially and no step breaks it.
THEOREM InvariantHolds == Spec => [](TypeOK /\ Inductive)
<1>1. Init => TypeOK /\ Inductive  BY InitStep
<1>2. TypeOK /\ Inductive /\ [Next]_vars => TypeOK' /\ Inductive'
  <2>. SUFFICES ASSUME TypeOK, Inductive, [Next]_vars
                PROVE  TypeOK' /\ Inductive'
    OBVIOUS
  <2>1. CASE Start  BY <2>1, StartTypes, StartStep
  <2>2. CASE Observe  BY <2>2, ObserveTypes, ObserveStep
  <2>3. CASE Interval  BY <2>3, IntervalTypes, IntervalStep
  <2>4. CASE CleanUp  BY <2>4, CleanUpTypes, CleanUpStep
  <2>5. CASE CallerStep \/ RunLoopStep \/ RunLoopEnd
    BY <2>5, CallerTypes, CallerMoves
  <2>6. CASE \E a \in Actors : Runtime(a) \/ Body(a) \/ SpuriousWakeup(a)
    BY <2>6, WorkerStepTypes, WorkerStep
  <2>7. CASE Cancel \/ Expire \/ UNCHANGED vars
    BY <2>7, EnvironmentTypes, EnvironmentStep
  <2>. QED
    BY <2>1, <2>2, <2>3, <2>4, <2>5, <2>6, <2>7 DEF Next, Controller, Dropped
<1>. QED  BY <1>1, <1>2, PTL DEF Spec

\* Type correctness.
THEOREM TypesHold == Spec => []TypeOK
BY InvariantHolds, PTL

\* No thread is ever detached.
THEOREM ThreadsAreOwned == Spec => []OwnsEveryThread
<1>1. Inductive => OwnsEveryThread  BY DEF Inductive
<1>. QED  BY <1>1, InvariantHolds, PTL

\* Workers run application code only inside the interval granted to them.
THEOREM IntervalsAreExclusive == Spec => []ExclusiveInterval
<1>1. Inductive => ExclusiveInterval  BY DEF Inductive
<1>. QED  BY <1>1, InvariantHolds, PTL

\* The observer runs only in quiescence.
THEOREM ObserverIsQuiescent == Spec => []ObserverQuiescence
<1>1. Inductive => ObserverQuiescence  BY DEF Inductive
<1>. QED  BY <1>1, InvariantHolds, PTL

\* Workers are stopped only for a reason the report states.
THEOREM StopsAreExplained == Spec => []StopIsExplained
<1>1. Inductive => StopIsExplained  BY DEF Inductive
<1>. QED  BY <1>1, InvariantHolds, PTL

\* Teardown happens once, after every thread was joined.
THEOREM TeardownIsSafe == Spec => []TeardownOnceAfterJoin
<1>1. Inductive => TeardownOnceAfterJoin
  BY DEF Inductive, TeardownOnceAfterJoin, ClosedOwnsNothing, OwnsEveryThread
<1>. QED  BY <1>1, InvariantHolds, PTL

\* Nobody sleeps through a permit or a delivered stop.
THEOREM NoWakeupIsLost == Spec => []NoLostWakeup
<1>1. Inductive => NoLostWakeup  BY DEF Inductive, NoLostWakeup, StopDelivered
<1>. QED  BY <1>1, InvariantHolds, PTL

-----------------------------------------------------------------------------
(***************************************************************************)
(* What an execution reports, on top of that invariant.                    *)
(***************************************************************************)
USE DEF TypeOK, WorldTypes, ReportTypes, RowTypes, ControllerTypes, WorkerTypes

\* A row that fits is appended and charged; one that does not is only charged.
LEMMA EventRetained ==
    ASSUME TypeOK, NEW kind, NEW a \in Actors, RetainEvent(kind, a)
    PROVE  /\ evidence_bytes' = evidence_bytes + 1
           /\ ~Fits => events' = events
           /\ Fits => /\ Len(events') = Len(events) + 1
                      /\ DOMAIN events' = DOMAIN events \cup {Len(events) + 1}
                      /\ \A k \in DOMAIN events : events'[k] = events[k]
                      /\ events'[Len(events) + 1] =
                            [kind |-> kind, step |-> next, actor |-> a,
                             checkpoint |-> checkpoint[a]]
BY DEF RetainEvent

\* The observation that ends without a failure fits.
LEMMA ObservationRetained ==
    ASSUME TypeOK, NEW valid \in BOOLEAN, ObserveEnd(valid)
    PROVE  \/ UNCHANGED <<observations, evidence_bytes>> /\ stopping'
           \/ /\ Fits /\ outcome' = outcome
              /\ evidence_bytes' = evidence_bytes + 1
              /\ Len(observations') = Len(observations) + 1
              /\ DOMAIN observations' = DOMAIN observations \cup {Len(observations) + 1}
              /\ \A k \in DOMAIN observations : observations'[k] = observations[k]
              /\ observations'[Len(observations) + 1] = next
<1>1. CASE stopping'  BY <1>1 DEF ObserveEnd
<1>2. CASE ~stopping'
  <2>1. Fits /\ outcome' = outcome  BY <1>2 DEF ObserveEnd
  <2>2. observations' = Append(observations, next) /\ evidence_bytes' = evidence_bytes + 1
    BY <1>2 DEF ObserveEnd
  <2>. QED  BY <2>1, <2>2
<1>. QED  BY <1>1, <1>2

\* One more row within the bound, or a charge without a row after a failure,
\* keeps the account.
LEMMA ChargeKept ==
    ASSUME RowsAreCharged, evidence_bytes \in Nat, evidence_bytes' = evidence_bytes + 1,
           outcome' = "Completed" => outcome = "Completed",
           Len(events) \in Nat, Len(observations) \in Nat,
           Len(events') \in Nat, Len(observations') \in Nat,
           \/ /\ Fits
              /\ Len(events') + Len(observations') = Len(events) + Len(observations) + 1
           \/ /\ outcome' # "Completed"
              /\ Len(events') + Len(observations') = Len(events) + Len(observations)
    PROVE  RowsAreCharged'
BY BoundsAssumption DEF RowsAreCharged, EvidenceWithinBound, Fits

\* The same for a permit or an arrival.
LEMMA EventCharged ==
    ASSUME TypeOK, RowsAreCharged, NEW kind, NEW a \in Actors, RetainEvent(kind, a),
           observations' = observations,
           Fits \/ outcome' # "Completed",
           outcome' = "Completed" => outcome = "Completed"
    PROVE  RowsAreCharged'
<1>1. /\ evidence_bytes \in Nat /\ evidence_bytes' = evidence_bytes + 1
      /\ Len(events) \in Nat /\ Len(observations) \in Nat
      /\ Len(observations') = Len(observations)
  <2>1. evidence_bytes' = evidence_bytes + 1  BY EventRetained
  <2>. QED  BY <2>1
<1>2. CASE Fits
  <2>1. Len(events') = Len(events) + 1  BY <1>2, EventRetained
  <2>. QED  BY <1>1, <1>2, <2>1, ChargeKept
<1>3. CASE ~Fits
  <2>1. Len(events') = Len(events)  BY <1>3, EventRetained
  <2>. QED  BY <1>1, <1>3, <2>1, ChargeKept
<1>. QED  BY <1>2, <1>3

\* When the whole plan has been executed without a failure, every actor has
\* completed, so every thread was joined and is gone.
LEMMA PlanCompletesThreads ==
    ASSUME TypeOK, Inductive, ReportInductive, ~closed, cpc = "settle",
           outcome = "Completed", next = Len(plan)
    PROVE  handles = {} /\ \A a \in Actors : wpc[a] = "gone"
<1>1. ~stopping
  BY DEF Inductive, StopIsExplained, ReportInductive, CompletionIsFinal
<1>2. \A a \in Actors : phase[a] = "Finished"
  BY PlanTypes DEF Inductive, PlanAdmitted, Admissible, ReportInductive, CompletionsStand
<1>3. handles = {}
  BY <1>1, <1>2 DEF Inductive, JoinDiscipline
<1>4. \A a \in Actors : wpc[a] = "gone"
  BY <1>2, <1>3 DEF Inductive, OwnsEveryThread, ThreadPhase
<1>. QED  BY <1>3, <1>4

\* The rest of the invariant, with the evidence left out.
Rest == RowsKeepPace /\ RowsAreCharged /\ CompletionsStand /\ FailureStops
        /\ CompletionIsFinal /\ CleanupIsReported

\* Initially there are no rows and nothing has completed, failed or been cleaned up.
LEMMA ReportInit == ASSUME Init PROVE ReportInductive
BY PlanTypes, InitStep, BoundsAssumption, NamesAssumption
   DEF Init, ReportInductive, RowsFollowPlan, RowsKeepPace, RowCounts, RowsAreCharged,
       EvidenceWithinBound, CompletionsStand, FailureStops, CompletionIsFinal,
       CleanupIsReported, FailureWasCleanedUp, Names, Done, AtStart

\* start_schedule keeps it: before the first observation there are no rows, and a
\* failed start stops the execution before it is reported.
LEMMA StartReports ==
    ASSUME TypeOK, Inductive, ReportInductive, Start
    PROVE  Rest'
<1>. USE BoundsAssumption
     DEF ReportInductive, Rest, RowsKeepPace, RowCounts, RowsAreCharged,
         EvidenceWithinBound, CompletionsStand, FailureStops, CompletionIsFinal,
         CleanupIsReported, FailureWasCleanedUp, Current
<1>1. CASE \E reentry, identityMatches, boundsValid \in BOOLEAN :
               Admit(reentry, identityMatches, boundsValid)
  BY <1>1 DEF Admit, Refusal
<1>2. CASE FactoryRefuses
  BY <1>2 DEF FactoryRefuses
<1>3. CASE \E workerSetMatches \in BOOLEAN : FactoryReturns(workerSetMatches)
  <2>1. CompletionsStand'
    BY <1>3 DEF FactoryReturns, Inductive, ActorsFilled, ThreadPhase
  <2>. QED  BY <1>3, <2>1 DEF FactoryReturns
<1>4. CASE \E a \in Actors : Spawn(a)
  <2>1. CompletionIsFinal' BY <1>4 DEF Spawn
  <2>2. CleanupIsReported' BY <1>4 DEF Spawn
  <2>. QED BY <1>4, <2>1, <2>2 DEF Spawn
<1>5. CASE SpawnFails
  BY <1>5 DEF SpawnFails
<1>6. CASE AwaitReady
  <2>1. RowsKeepPace'
    BY <1>6 DEF AwaitReady, WaitFor, WaitVerdict, Inductive, StopIsExplained
  <2>2. CleanupIsReported' BY <1>6 DEF AwaitReady, WaitFor, WaitVerdict
  <2>. QED BY <1>6, <2>1, <2>2 DEF AwaitReady, WaitFor, WaitVerdict
<1>. QED  BY <1>1, <1>2, <1>3, <1>4, <1>5, <1>6 DEF Start

\* An observation adds its row if it succeeds and the row fits; else it is a failure.
LEMMA ObserveReports ==
    ASSUME TypeOK, Inductive, ReportInductive, Observe
    PROVE  Rest'
<1>. USE BoundsAssumption
     DEF ReportInductive, Rest, RowsKeepPace, RowCounts, RowsAreCharged,
         EvidenceWithinBound, CompletionsStand, FailureStops, CompletionIsFinal,
         CleanupIsReported, FailureWasCleanedUp, Current
<1>1. CASE ObserveBegin
  BY <1>1 DEF ObserveBegin, Inductive, StopIsExplained
<1>2. CASE \E valid \in BOOLEAN : ObserveEnd(valid)
  <2>1. RowsKeepPace'
    BY <1>2 DEF ObserveEnd, Inductive, StopIsExplained
  <2>2. RowsAreCharged'
    <3>1. /\ outcome' = "Completed" => outcome = "Completed"
          /\ events' = events
      BY <1>2 DEF ObserveEnd
    <3>2. CASE UNCHANGED <<observations, evidence_bytes>>
      BY <3>1, <3>2
    <3>3. CASE ~UNCHANGED <<observations, evidence_bytes>>
      <4>1. /\ Fits /\ evidence_bytes' = evidence_bytes + 1
            /\ Len(observations') = Len(observations) + 1
        BY <1>2, <3>3, ObservationRetained
      <4>2. Len(events') + Len(observations') = Len(events) + Len(observations) + 1
        BY <3>1, <4>1
      <4>. QED  BY <3>1, <4>1, <4>2, ChargeKept
    <3>. QED  BY <3>2, <3>3
  <2>. QED  BY <1>2, <2>1, <2>2 DEF ObserveEnd
<1>. QED  BY <1>1, <1>2 DEF Observe

\* An interval adds the arrival to its permit and counts once everything is checked;
\* a plan is complete when every thread has been joined.
LEMMA IntervalReports ==
    ASSUME TypeOK, Inductive, ReportInductive, Interval
    PROVE  Rest'
<1>. USE BoundsAssumption
     DEF ReportInductive, Rest, RowsKeepPace, RowCounts, RowsAreCharged,
         EvidenceWithinBound, CompletionsStand, FailureStops, CompletionIsFinal,
         CleanupIsReported, FailureWasCleanedUp, Current
<1>1. CASE AwaitArrival
  <2>1. RowsKeepPace'
    BY <1>1 DEF AwaitArrival, WaitFor, WaitVerdict, Inductive, StopIsExplained
  <2>2. CleanupIsReported' BY <1>1 DEF AwaitArrival, WaitFor, WaitVerdict
  <2>. QED BY <1>1, <2>1, <2>2 DEF AwaitArrival, WaitFor, WaitVerdict
<1>2. CASE Arrive
  <2>1. next < Len(plan) /\ Current.actor \in Actors
    BY <1>2, CurrentActor DEF Arrive, Inductive, PlanAdmitted, ClosedOwnsNothing
  <2>2. RowsKeepPace'
    <3>1. IF Fits THEN Len(events') = Len(events) + 1 ELSE outcome' # "Completed"
      BY <1>2, <2>1, EventRetained DEF Arrive
    <3>. QED  BY <1>2, <3>1 DEF Arrive, ArrivedElsewhere
  <2>3. RowsAreCharged'
    <3>1. /\ RetainEvent("arrival", Current.actor)
          /\ observations' = observations
          /\ Fits \/ outcome' # "Completed"
          /\ outcome' = "Completed" => outcome = "Completed"
      BY <1>2, <2>1 DEF Arrive
    <3>. QED  BY <2>1, <3>1, EventCharged
  <2>. QED  BY <1>2, <2>2, <2>3 DEF Arrive
<1>3. CASE \E exitPanicked \in BOOLEAN : JoinFinished(exitPanicked)
  BY <1>3 DEF JoinFinished, ReleaseJoined, Joined
<1>4. CASE Check
  <2>1. RowsKeepPace'  BY <1>4 DEF Check
  <2>2. CompletionsStand'  BY <1>4 DEF Check
  <2>. QED  BY <1>4, <2>1, <2>2 DEF Check
<1>5. CASE Settle
  <2>1. CompletionIsFinal'
    BY <1>5, PlanCompletesThreads DEF Settle, AfterCall, Inductive, ClosedOwnsNothing
  <2>2. CleanupIsReported'
    BY <1>5 DEF Settle, AfterCall
  <2>. QED  BY <1>5, <2>1, <2>2 DEF Settle, AfterCall
<1>6. CASE Complete
  BY <1>6 DEF Complete
<1>. QED  BY <1>1, <1>2, <1>3, <1>4, <1>5, <1>6 DEF Interval

\* A cleanup attempt says what is left; it never changes rows or the verdict.
LEMMA CleanUpReports ==
    ASSUME TypeOK, Inductive, ReportInductive, CleanUp
    PROVE  Rest'
<1>. USE BoundsAssumption
     DEF ReportInductive, Rest, RowsKeepPace, RowCounts, RowsAreCharged,
         EvidenceWithinBound, CompletionsStand, FailureStops, CompletionIsFinal,
         CleanupIsReported, FailureWasCleanedUp, Current
<1>1. CASE CleanupBegin
  BY <1>1 DEF CleanupBegin, StopsEarly
<1>2. CASE \E timedOut \in BOOLEAN : DrainEnd(timedOut)
  BY <1>2 DEF DrainEnd, IsFinished
<1>3. CASE Collect
  BY <1>3 DEF Collect, ReleaseJoined, Joined, Attempt
<1>4. CASE \E succeeds \in BOOLEAN : TearDown(succeeds)
  BY <1>4 DEF TearDown, Attempt, Inductive, ClosedOwnsNothing
<1>5. CASE DropEnd
  BY <1>5 DEF DropEnd, ReleaseJoined, Joined, StillOpen
<1>. QED  BY <1>1, <1>2, <1>3, <1>4, <1>5 DEF CleanUp

\* advance charges the permit before the worker runs, or refuses and fails.
LEMMA AdvanceReports ==
    ASSUME TypeOK, Inductive, ReportInductive, NEW requested, Advance(requested)
    PROVE  Rest'
<1>. USE BoundsAssumption
     DEF ReportInductive, Rest, RowsKeepPace, RowCounts, RowsAreCharged,
         EvidenceWithinBound, CompletionsStand, FailureStops, CompletionIsFinal,
         CleanupIsReported, FailureWasCleanedUp, Current
<1>1. CASE AdvanceRefusal(requested) = "none"
  <2>1. /\ requested = Current /\ requested.actor \in Actors /\ next < Len(plan)
        /\ phase[requested.actor] = "Parked"
    BY <1>1, CurrentActor, PlanTypes DEF Advance, AdvanceRefusal, Inductive, PlanAdmitted
  <2>2. RetainEvent("permit", requested.actor)  BY <1>1 DEF Advance
  <2>3. RowsKeepPace'
    <3>1. IF Fits THEN Len(events') = Len(events) + 1 ELSE outcome' # "Completed" /\ stopping'
      BY <1>1, <2>1, <2>2, EventRetained DEF Advance
    <3>. QED  BY <1>1, <2>1, <3>1 DEF Advance, Inductive, StopIsExplained
  <2>4. RowsAreCharged'
    <3>1. /\ RetainEvent("permit", requested.actor)
          /\ observations' = observations
          /\ Fits \/ outcome' # "Completed"
          /\ outcome' = "Completed" => outcome = "Completed"
      BY <1>1, <2>1, <2>2 DEF Advance
    <3>. QED  BY <2>1, <3>1, EventCharged
  <2>. QED  BY <1>1, <2>1, <2>3, <2>4 DEF Advance
<1>2. CASE AdvanceRefusal(requested) # "none"
  <2>1. AdvanceRefusal(requested) # "Completed"  BY DEF AdvanceRefusal
  <2>. QED  BY <1>2, <2>1 DEF Advance
<1>. QED  BY <1>1, <1>2

\* The calls of the owner keep it, advance by the lemma before.
LEMMA CallerReports ==
    ASSUME TypeOK, Inductive, ReportInductive, CallerStep \/ RunLoopStep \/ RunLoopEnd
    PROVE  Rest'
<1>. USE BoundsAssumption
     DEF ReportInductive, Rest, RowsKeepPace, RowCounts, RowsAreCharged,
         EvidenceWithinBound, CompletionsStand, FailureStops, CompletionIsFinal,
         CleanupIsReported, FailureWasCleanedUp, Current
<1>1. CASE RunLoopEnd
  BY <1>1 DEF RunLoopEnd
<1>2. CASE Finish
  BY <1>2 DEF Finish, MayCleanUp
<1>3. CASE CallCleanup
  BY <1>3 DEF CallCleanup, MayCleanUp
<1>4. CASE DropBegin
  BY <1>4 DEF DropBegin
<1>5. CASE \E requested : Advance(requested)  BY <1>5, AdvanceReports
<1>. QED  BY <1>1, <1>2, <1>3, <1>4, <1>5 DEF CallerStep, RunLoopStep

\* No worker is left once the plan is complete or the execution closed, and a worker
\* that is still there can only add the first failure.
LEMMA WorkerReports ==
    ASSUME TypeOK, Inductive, ReportInductive, NEW a \in Actors,
           Runtime(a) \/ Body(a) \/ SpuriousWakeup(a)
    PROVE  Rest'
<1>. USE BoundsAssumption
     DEF ReportInductive, Rest, RowsKeepPace, RowCounts, RowsAreCharged,
         EvidenceWithinBound, CompletionsStand, FailureStops, CompletionIsFinal,
         CleanupIsReported, FailureWasCleanedUp, Current
<1>0. wpc[a] \notin {"none", "gone"}
      => /\ ~closed /\ cpc # "completing" /\ ~schedule_completed
  BY DEF Inductive, OwnsEveryThread, ClosedOwnsNothing
<1>1. CASE Enter(a)
  <2>1. CompletionsStand'  BY <1>1 DEF Enter, Inductive, ThreadPhase
  <2>2. CompletionIsFinal'  BY <1>0, <1>1 DEF Enter
  <2>3. CleanupIsReported'  BY <1>0, <1>1 DEF Enter
  <2>4. RowsKeepPace'  BY <1>0, <1>1 DEF Enter
  <2>. QED  BY <1>1, <2>1, <2>2, <2>3, <2>4 DEF Enter
<1>2. CASE Recheck(a)
  <2>1. CompletionIsFinal'  BY <1>0, <1>2 DEF Recheck, Waiting
  <2>2. CleanupIsReported'  BY <1>0, <1>2 DEF Recheck
  <2>. QED  BY <1>2, <2>1, <2>2 DEF Recheck
<1>3. CASE Epilogue(a)
  <2>1. CompletionsStand'  BY <1>3 DEF Epilogue
  <2>2. CompletionIsFinal'  BY <1>0, <1>3 DEF Epilogue
  <2>3. CleanupIsReported'  BY <1>0, <1>3 DEF Epilogue, Inductive, ExclusiveInterval
  <2>4. RowsKeepPace'
    BY <1>0, <1>3 DEF Epilogue, Inductive, ExclusiveInterval, StopIsExplained
  <2>. QED  BY <1>3, <2>1, <2>2, <2>3, <2>4 DEF Epilogue
<1>4. CASE ThreadEnds(a)
  BY <1>4 DEF ThreadEnds
<1>5. CASE \E name \in Names : ArriveAt(a, name)
  <2>1. CompletionsStand'
    <3>1. \A i \in 1..next : plan[i].actor \in Actors
      <4>1. Admissible(plan) /\ next <= Len(plan)
        BY <1>0, <1>5 DEF ArriveAt, Inductive, PlanAdmitted, ActorsFilled
      <4>. QED  BY <4>1, PlanTypes DEF Admissible
    <3>2. CASE UNCHANGED actors  BY <3>2, <1>5 DEF ArriveAt
    <3>3. CASE ~UNCHANGED actors
      <4>1. PICK name \in Checkpoints :
               /\ checkpoint' = [checkpoint EXCEPT ![a] = name]
               /\ phase' = [phase EXCEPT ![a] = "Parked"]
        BY <1>5, <3>3 DEF ArriveAt
      <4>2. phase[a] = "Running" /\ name # Done /\ UNCHANGED <<plan, next>>
        BY <1>5, <3>3, NamesAssumption DEF ArriveAt
      <4>. QED  BY <3>1, <4>1, <4>2
    <3>. QED  BY <3>2, <3>3
  <2>2. CompletionIsFinal'  BY <1>0, <1>5 DEF ArriveAt
  <2>3. CleanupIsReported'
    BY <1>0, <1>5 DEF ArriveAt, Inductive, ExclusiveInterval
  <2>4. RowsKeepPace'
    BY <1>0, <1>5 DEF ArriveAt, Inductive, ExclusiveInterval, ThreadPhase, StopIsExplained
  <2>. QED  BY <1>5, <2>1, <2>2, <2>3, <2>4 DEF ArriveAt
<1>6. CASE ForeignArrive(a)
  BY <1>6 DEF ForeignArrive
<1>7. CASE \E r \in {"ok", "failed"} : BodyEnds(a, r)
  BY <1>7 DEF BodyEnds
<1>8. CASE SpuriousWakeup(a)
  BY <1>8 DEF SpuriousWakeup
<1>. QED  BY <1>1, <1>2, <1>3, <1>4, <1>5, <1>6, <1>7, <1>8 DEF Runtime, Body

\* Cancellation and the clock do not touch the report.
LEMMA EnvironmentReports ==
    ASSUME TypeOK, Inductive, ReportInductive, Cancel \/ Expire \/ UNCHANGED vars
    PROVE  Rest'
<1>. USE BoundsAssumption
     DEF ReportInductive, Rest, RowsKeepPace, RowCounts, RowsAreCharged,
         EvidenceWithinBound, CompletionsStand, FailureStops, CompletionIsFinal,
         CleanupIsReported, FailureWasCleanedUp, Current
<1>1. CASE Cancel  BY <1>1 DEF Cancel, vars
<1>2. CASE Expire  BY <1>2 DEF Expire, vars
<1>3. CASE UNCHANGED vars  BY <1>3 DEF vars
<1>. QED  BY <1>1, <1>2, <1>3

(***************************************************************************)
(* The rows follow the plan.                                               *)
(***************************************************************************)
\* Which step of the plan the k-th row is about.
LEMMA RowParity ==
    ASSUME NEW n \in Nat
    PROVE  /\ (2 * n + 1) % 2 = 1 /\ (2 * n + 2) \div 2 = n + 1
           /\ (2 * n + 2) % 2 = 0 /\ (2 * n + 3) \div 2 = n + 1
OBVIOUS

\* The permit of the next step after the rows of the steps before it, or the
\* arrival after its permit.
LEMMA EventFollows ==
    ASSUME TypeOK, RowsFollowPlan, plan' = plan, observations' = observations,
           NEW kind, NEW a \in Actors, RetainEvent(kind, a), Fits,
           a = plan[next + 1].actor,
           \/ kind = "permit" /\ Len(events) = 2 * next /\ outcome = "Completed"
           \/ /\ kind = "arrival" /\ Len(events) = 2 * next + 1
              /\ checkpoint[a] # plan[next + 1].checkpoint => outcome' # "Completed"
    PROVE  RowsFollowPlan'
<1>. DEFINE n == Len(events) + 1
            i(k) == (k + 1) \div 2
            Good(k) == /\ events'[k].kind = IF k % 2 = 1 THEN "permit" ELSE "arrival"
                       /\ events'[k].step = i(k) - 1 /\ events'[k].actor = plan[i(k)].actor
                       /\ k % 2 = 0 /\ events'[k].checkpoint # plan[i(k)].checkpoint
                             => k = n /\ outcome' # "Completed"
<1>1. /\ Len(events') = n /\ DOMAIN events' = DOMAIN events \cup {n}
      /\ \A k \in DOMAIN events : events'[k] = events[k]
      /\ events'[n] = [kind |-> kind, step |-> next, actor |-> a,
                       checkpoint |-> checkpoint[a]]
  BY EventRetained
<1>2. Good(n)
  <2>1. CASE kind = "permit" /\ Len(events) = 2 * next
    <3>1. n % 2 = 1 /\ i(n) = next + 1  BY <2>1, RowParity
    <3>. QED  BY <1>1, <2>1, <3>1
  <2>2. CASE /\ kind = "arrival" /\ Len(events) = 2 * next + 1
             /\ checkpoint[a] # plan[next + 1].checkpoint => outcome' # "Completed"
    <3>1. n % 2 = 0 /\ i(n) = next + 1  BY <2>2, RowParity
    <3>. QED  BY <1>1, <2>2, <3>1
  <2>. QED  BY <2>1, <2>2
<1>3. ASSUME NEW k \in DOMAIN events PROVE Good(k)
  <2>1. k % 2 = 0 => events[k].checkpoint = plan[i(k)].checkpoint
    <3>1. CASE outcome = "Completed"  BY <3>1 DEF RowsFollowPlan
    <3>2. CASE Len(events) = 2 * next + 1
      <4>1. Len(events) % 2 = 1  BY <3>2, RowParity
      <4>. QED  BY <4>1 DEF RowsFollowPlan
    <3>. QED  BY <3>1, <3>2
  <2>. QED  BY <1>1, <2>1 DEF RowsFollowPlan
<1>4. \A k \in DOMAIN events' : Good(k)  BY <1>1, <1>2, <1>3
<1>. HIDE DEF Good
<1>5. \A k \in DOMAIN observations' : observations'[k] = k - 1
  BY DEF RowsFollowPlan
<1>. QED  BY <1>1, <1>4, <1>5 DEF RowsFollowPlan, Good

\* What a step does to the rows.
RowsStand == UNCHANGED <<plan, events, observations>>
             /\ (outcome # "Completed" => outcome' = outcome)

\* Only a permit, an arrival and an observation add rows.
LEMMA RowsMove ==
    ASSUME TypeOK, Inductive, ReportInductive, [Next]_vars
    PROVE  \/ RowsStand
           \/ \E valid \in BOOLEAN : ObserveEnd(valid)
           \/ Arrive
           \/ \E requested : Advance(requested)
<1>1. CASE Start
  BY <1>1 DEF RowsStand, Start, Admit, FactoryRefuses, FactoryReturns, Spawn, SpawnFails,
        AwaitReady, WaitFor
<1>2. CASE Observe
  BY <1>2 DEF RowsStand, Observe, ObserveBegin
<1>3. CASE Interval
  BY <1>3 DEF RowsStand, Interval, AwaitArrival, WaitFor, JoinFinished, Check, Settle, Complete
<1>4. CASE CleanUp
  BY <1>4 DEF RowsStand, CleanUp, CleanupBegin, DrainEnd, Collect, TearDown, DropEnd
<1>5. CASE CallerStep \/ RunLoopStep \/ RunLoopEnd
  BY <1>5 DEF RowsStand, CallerStep, RunLoopStep, RunLoopEnd, Finish, CallCleanup, DropBegin
<1>6. CASE \E a \in Actors : Runtime(a) \/ Body(a) \/ SpuriousWakeup(a)
  BY <1>6 DEF RowsStand, Runtime, Body, SpuriousWakeup, Enter, Recheck, Epilogue, ThreadEnds,
        ArriveAt, ForeignArrive, BodyEnds
<1>7. CASE Cancel \/ Expire \/ UNCHANGED vars
  BY <1>7 DEF RowsStand, Cancel, Expire, vars
<1>. QED
  BY <1>1, <1>2, <1>3, <1>4, <1>5, <1>6, <1>7 DEF Next, Controller, Dropped

\* Each of them adds the row that the plan asks for next.
LEMMA RowsFollow ==
    ASSUME TypeOK, Inductive, ReportInductive, [Next]_vars
    PROVE  RowsFollowPlan'
<1>. USE DEF ReportInductive
<1>1. CASE RowsStand
  BY <1>1 DEF RowsStand, RowsFollowPlan
<1>2. CASE \E valid \in BOOLEAN : ObserveEnd(valid)
  <2>1. PICK valid \in BOOLEAN : ObserveEnd(valid)  BY <1>2
  <2>2. /\ UNCHANGED <<plan, events>>
        /\ outcome # "Completed" => outcome' = outcome
        /\ Len(observations) = next
    BY <2>1 DEF ObserveEnd, RowsKeepPace, RowCounts
  <2>3. \A k \in DOMAIN observations' : observations'[k] = k - 1
    <3>1. CASE UNCHANGED observations  BY <3>1 DEF RowsFollowPlan
    <3>2. CASE ~UNCHANGED observations
      <4>1. /\ DOMAIN observations' = DOMAIN observations \cup {Len(observations) + 1}
            /\ \A k \in DOMAIN observations : observations'[k] = observations[k]
            /\ observations'[Len(observations) + 1] = next
        BY <2>1, <3>2, ObservationRetained
      <4>. QED  BY <2>2, <4>1 DEF RowsFollowPlan
    <3>. QED  BY <3>1, <3>2
  <2>. QED  BY <2>2, <2>3 DEF RowsFollowPlan
<1>3. CASE Arrive
  <2>1. /\ next < Len(plan) /\ Current.actor \in Actors /\ Len(events) = 2 * next + 1
        /\ UNCHANGED <<plan, observations>>
        /\ outcome # "Completed" => outcome' = outcome
    BY <1>3, CurrentActor
       DEF Arrive, Inductive, PlanAdmitted, ClosedOwnsNothing, RowsKeepPace, RowCounts
  <2>2. CASE ~Fits
    <3>1. events' = events  BY <1>3, <2>1, <2>2, EventRetained DEF Arrive
    <3>. QED  BY <2>1, <3>1 DEF RowsFollowPlan
  <2>3. CASE Fits
    <3>1. RetainEvent("arrival", Current.actor)  BY <1>3 DEF Arrive
    <3>2. checkpoint[Current.actor] # Current.checkpoint => outcome' # "Completed"
      BY <1>3, <2>3 DEF Arrive, ArrivedElsewhere
    <3>. QED  BY <2>1, <2>3, <3>1, <3>2, EventFollows DEF Current
  <2>. QED  BY <2>2, <2>3
<1>4. CASE \E requested : Advance(requested)
  <2>1. PICK requested : Advance(requested)  BY <1>4
  <2>2. CASE AdvanceRefusal(requested) # "none"
    BY <2>1, <2>2 DEF Advance, RowsFollowPlan
  <2>3. CASE AdvanceRefusal(requested) = "none"
    <3>1. /\ requested = Current /\ Current.actor \in Actors /\ next < Len(plan)
          /\ Len(events) = 2 * next /\ outcome = "Completed"
          /\ UNCHANGED <<plan, observations>> /\ RetainEvent("permit", Current.actor)
      BY <2>1, <2>3, CurrentActor, PlanTypes
         DEF Advance, AdvanceRefusal, Inductive, PlanAdmitted, RowsKeepPace, RowCounts
    <3>2. CASE ~Fits
      <4>1. events' = events  BY <3>1, <3>2, EventRetained
      <4>. QED  BY <3>1, <4>1 DEF RowsFollowPlan
    <3>3. CASE Fits
      BY <3>1, <3>3, EventFollows DEF Current
    <3>. QED  BY <3>2, <3>3
  <2>. QED  BY <2>2, <2>3
<1>. QED  BY <1>1, <1>2, <1>3, <1>4, RowsMove

(***************************************************************************)
(* The invariant, and the properties that follow from it.                  *)
(***************************************************************************)
\* What a report says is inductive, relative to the invariant of the threads.
THEOREM ReportInvariantHolds == Spec => [](TypeOK /\ Inductive /\ ReportInductive)
<1>1. Init => ReportInductive  BY ReportInit
<1>2. TypeOK /\ Inductive /\ ReportInductive /\ [Next]_vars => ReportInductive'
  <2>. SUFFICES ASSUME TypeOK, Inductive, ReportInductive, [Next]_vars
                PROVE  ReportInductive'
    OBVIOUS
  <2>1. Rest'
    <3>1. CASE Start  BY <3>1, StartReports
    <3>2. CASE Observe  BY <3>2, ObserveReports
    <3>3. CASE Interval  BY <3>3, IntervalReports
    <3>4. CASE CleanUp  BY <3>4, CleanUpReports
    <3>5. CASE CallerStep \/ RunLoopStep \/ RunLoopEnd  BY <3>5, CallerReports
    <3>6. CASE \E a \in Actors : Runtime(a) \/ Body(a) \/ SpuriousWakeup(a)
      BY <3>6, WorkerReports
    <3>7. CASE Cancel \/ Expire \/ UNCHANGED vars  BY <3>7, EnvironmentReports
    <3>. QED
      BY <3>1, <3>2, <3>3, <3>4, <3>5, <3>6, <3>7 DEF Next, Controller, Dropped
  <2>. QED  BY <2>1, RowsFollow DEF ReportInductive, Rest
<1>. QED  BY <1>1, <1>2, InvariantHolds, PTL DEF Spec

\* The evidence agrees with the progress the receipt reports.
THEOREM EvidenceAgrees == Spec => []EvidenceFollowsPlan
<1>1. TypeOK /\ ReportInductive => EvidenceFollowsPlan
  BY DEF ReportInductive, RowsFollowPlan, RowsKeepPace, RowCounts, EvidenceFollowsPlan
<1>. QED  BY <1>1, ReportInvariantHolds, PTL

\* The retained rows stay within the bound.
THEOREM EvidenceIsBounded == Spec => []EvidenceWithinBound
<1>1. ReportInductive => EvidenceWithinBound  BY DEF ReportInductive, RowsAreCharged
<1>. QED  BY <1>1, ReportInvariantHolds, PTL

\* A failure that a call returned was cleaned up, or reports what is left.
THEOREM FailuresAreCleanedUp == Spec => []FailureWasCleanedUp
<1>1. ReportInductive => FailureWasCleanedUp  BY DEF ReportInductive, CleanupIsReported
<1>. QED  BY <1>1, ReportInvariantHolds, PTL

\* A passed report means that the plan was executed, observed and torn down.
THEOREM PassedMeansExecuted == Spec => []PassedRanThePlan
<1>1. TypeOK /\ Inductive /\ ReportInductive => PassedRanThePlan
  <2>. SUFFICES ASSUME TypeOK, Inductive, ReportInductive, Passed
                PROVE  PassedRanThePlan
    BY DEF PassedRanThePlan
  <2>1. /\ outcome = "Completed" /\ next = Len(plan) /\ handles = {}
        /\ \A a \in Actors : wpc[a] = "gone"
    BY DEF Passed, ReportInductive, CompletionIsFinal
  <2>6. closed /\ teardowns = 1
    BY <2>1 DEF Passed, ReportInductive, CleanupIsReported
  <2>2. Len(events) = 2 * next /\ Len(observations) = next + 1
    BY <2>1 DEF ReportInductive, RowsKeepPace, RowCounts, Passed, CompletionIsFinal
  <2>3. \A i \in DOMAIN plan : events[2 * i].checkpoint = plan[i].checkpoint
    <3>. TAKE i \in DOMAIN plan
    <3>0. i \in Nat /\ 1 <= i /\ i <= next  BY <2>1, PlanTypes
    <3>1. PICK n \in Nat : i = n + 1
      <4>1. i - 1 \in Nat /\ i = (i - 1) + 1  BY <3>0
      <4>. QED  BY <4>1
    <3>2. PICK k \in DOMAIN events : k = 2 * n + 2 /\ k = 2 * i  BY <2>2, <3>0, <3>1
    <3>3. k % 2 = 0 /\ (k + 1) \div 2 = i
      <4>1. k + 1 = 2 * n + 3  BY <3>2
      <4>. QED  BY <3>1, <3>2, <4>1, RowParity
    <3>4. events[k].checkpoint # plan[(k + 1) \div 2].checkpoint => outcome # "Completed"
      BY <3>3 DEF ReportInductive, RowsFollowPlan
    <3>. QED  BY <2>1, <3>2, <3>3, <3>4
  <2>4. observations = [k \in 1..(Len(plan) + 1) |-> k - 1]
    <3>1. DOMAIN observations = 1..(Len(plan) + 1) /\ observations \in Seq(Nat)
      BY <2>1, <2>2
    <3>2. \A k \in DOMAIN observations : observations[k] = k - 1
      BY DEF ReportInductive, RowsFollowPlan
    <3>3. observations = [k \in DOMAIN observations |-> observations[k]]  BY <3>1
    <3>. QED  BY <3>1, <3>2, <3>3
  <2>5. \A k \in DOMAIN events :
           LET i == (k + 1) \div 2
           IN  /\ events[k].kind = IF k % 2 = 1 THEN "permit" ELSE "arrival"
               /\ events[k].step = i - 1 /\ events[k].actor = plan[i].actor
    BY DEF ReportInductive, RowsFollowPlan
  <2>. QED
    BY <2>1, <2>2, <2>3, <2>4, <2>5, <2>6 DEF PassedRanThePlan
<1>. QED  BY <1>1, ReportInvariantHolds, PTL

\* Completion is never taken back, and nothing touches a closed report: the
\* controller refuses every call, and there is no worker left.
LEMMA ReportStands ==
    ASSUME TypeOK, Inductive, [Next]_vars
    PROVE  /\ schedule_completed => schedule_completed'
           /\ closed => UNCHANGED <<report, rows, outcome>>
<1>0. closed => /\ cpc \in {"idle", "dropping", "dropped"}
                /\ \A a \in Actors : wpc[a] \in {"none", "gone"}
  BY DEF Inductive, ClosedOwnsNothing, OwnsEveryThread
<1>1. CASE Start
  BY <1>0, <1>1 DEF Start, Admit, FactoryRefuses, FactoryReturns, Spawn, SpawnFails,
        AwaitReady, WaitFor
<1>2. CASE Observe
  BY <1>0, <1>2 DEF Observe, ObserveBegin, ObserveEnd
<1>3. CASE Interval
  BY <1>0, <1>3 DEF Interval, AwaitArrival, WaitFor, Arrive, JoinFinished, Check, Settle, Complete
<1>4. CASE CleanUp
  BY <1>0, <1>4 DEF CleanUp, CleanupBegin, DrainEnd, Collect, TearDown, Attempt, DropEnd
<1>5. CASE CallerStep \/ RunLoopStep \/ RunLoopEnd
  BY <1>5 DEF CallerStep, RunLoopStep, RunLoopEnd, Advance, Finish, CallCleanup, MayCleanUp,
        DropBegin
<1>6. CASE \E a \in Actors : Runtime(a) \/ Body(a) \/ SpuriousWakeup(a)
  <2>1. PICK a \in Actors : Runtime(a) \/ Body(a) \/ SpuriousWakeup(a)  BY <1>6
  <2>2. UNCHANGED <<report, rows>>
    BY <2>1 DEF Runtime, Body, SpuriousWakeup, Enter, Recheck, Epilogue, ThreadEnds,
          ArriveAt, ForeignArrive, BodyEnds
  <2>3. closed => outcome' = outcome
    BY <1>0, <2>1 DEF Runtime, Body, SpuriousWakeup, Enter, Recheck, Epilogue, ThreadEnds,
          ArriveAt, ForeignArrive, BodyEnds
  <2>. QED  BY <2>2, <2>3
<1>7. CASE Cancel \/ Expire \/ UNCHANGED vars
  BY <1>7 DEF Cancel, Expire, vars
<1>. QED
  BY <1>1, <1>2, <1>3, <1>4, <1>5, <1>6, <1>7 DEF Next, Controller, Dropped

\* A completed plan stays a success, and a closed report never changes.
THEOREM VerdictsAreFinal == Spec => VerdictIsFinal
<1>1. /\ TypeOK /\ Inductive /\ ReportInductive /\ ReportInductive'
      /\ [Next]_vars
      => [/\ schedule_completed => outcome' = outcome /\ cleanup' # "Incomplete"
          /\ closed => UNCHANGED <<report, rows, outcome>>]_vars
  BY ReportStands DEF ReportInductive, CompletionIsFinal, CleanupIsReported
<1>. QED  BY <1>1, ReportInvariantHolds, PTL DEF VerdictIsFinal, Spec

(***************************************************************************)
(* Scheduler implements ExecutionInterface: every call of the detailed     *)
(* scheduler, whatever its workers do meanwhile, gives its owner one of    *)
(* the results named there.                                                *)
(***************************************************************************)
USE DEF Fail, NoFailure, NotifyAll, world, shared, verdict, control, threads,
        report, actors, rows, workers, TypeOK, ReportTypes, ControllerTypes, WorkerTypes,
        Interrupted, Counted, Interface!Open

\* The owner looks at the execution when a call returns, and not before.
OwnerLooks ==
    /\ cpc' = "idle" => started' = TRUE /\ returned' = Summary'
    /\ cpc' # "idle" => UNCHANGED <<started, returned>>

\* Once start_schedule has returned, it stays returned.
LEMMA LooksAtIdle == ASSUME CallsInductive, CallsNext PROVE OwnerLooks
<1>1. CASE cpc' = "idle"  BY <1>1 DEF CallsNext, OwnerLooks
<1>2. CASE cpc' # "idle"
  <2>1. started' = started
    BY <1>2 DEF CallsNext, CallsInductive, BetweenCalls
  <2>. QED  BY <1>2, <2>1 DEF CallsNext, OwnerLooks
<1>. QED  BY <1>1, <1>2

\* Where a call may take the controller.
LEMMA BetweenStep ==
    ASSUME BetweenCalls, OwnerLooks,
           cpc' \in {"dropping", "dropped", "awaiting", "arrived", "joining", "checking",
                     "completing"} => started,
           cpc' \in {"admit", "acquire", "spawn", "ready"} => ~started,
           ~started => next' = 0 \/ cpc' = "idle"
    PROVE  BetweenCalls'
<1>1. CASE cpc' = "idle"  BY <1>1 DEF BetweenCalls, OwnerLooks
<1>2. CASE cpc' # "idle"  BY <1>2 DEF BetweenCalls, OwnerLooks
<1>. QED  BY <1>1, <1>2

\* What the owner saw last, at the moment a call begins.
LEMMA CallBegins ==
    ASSUME TypeOK, BetweenCalls, cpc = "idle"
    PROVE  /\ started /\ returned = Summary
           /\ returned.failed = (outcome # "Completed")
           /\ returned.completed = schedule_completed
           /\ returned.cleanup = cleanup
           /\ returned.closed = closed /\ returned.next = next
BY DEF BetweenCalls, Summary

\* Initially the owner has seen nothing.
LEMMA CallsInit1 == ASSUME CallsInit PROVE CallsInductive
BY DEF CallsInit, Init, CallsInductive, BetweenCalls, InsideACall, NobodyArrivedYet,
       Interface!Open, Summary

\* start_schedule keeps the invariant: started only becomes true when it returns.
LEMMA StartCalls ==
    ASSUME TypeOK, Inductive, ReportInductive, CallsInductive, OwnerLooks, Start
    PROVE  CallsInductive'
<1>. USE DEF CallsInductive, BetweenCalls, InsideACall, NobodyArrivedYet, OwnerLooks
<1>1. CASE \E reentry, identityMatches, boundsValid \in BOOLEAN :
               Admit(reentry, identityMatches, boundsValid)
  <2>1. BetweenCalls'  BY <1>1, BetweenStep DEF Admit
  <2>2. InsideACall'  BY <1>1 DEF Admit
  <2>3. NobodyArrivedYet'  BY <1>1 DEF Admit
  <2>. QED  BY <2>1, <2>2, <2>3
<1>2. CASE FactoryRefuses
  BY <1>2 DEF FactoryRefuses
<1>3. CASE \E workerSetMatches \in BOOLEAN : FactoryReturns(workerSetMatches)
  BY <1>3 DEF FactoryReturns
<1>4. CASE \E a \in Actors : Spawn(a)
  BY <1>4 DEF Spawn
<1>5. CASE SpawnFails
  BY <1>5 DEF SpawnFails
<1>6. CASE AwaitReady
  <2>1. BetweenCalls'  BY <1>6, BetweenStep DEF AwaitReady, WaitFor
  <2>2. InsideACall'  BY <1>6 DEF AwaitReady, WaitFor
  <2>3. NobodyArrivedYet'
    <3>1. (stopping => stopping') /\ UNCHANGED <<wpc, next>> /\ cpc = "ready"
      BY <1>6 DEF AwaitReady, WaitFor
    <3>. QED  BY <3>1
  <2>. QED  BY <2>1, <2>2, <2>3
<1>. QED  BY <1>1, <1>2, <1>3, <1>4, <1>5, <1>6 DEF Start

\* An observation, of the start or of an interval, keeps it.
LEMMA ObserveCalls ==
    ASSUME TypeOK, Inductive, ReportInductive, CallsInductive, OwnerLooks, Observe
    PROVE  CallsInductive'
<1>. USE DEF CallsInductive, BetweenCalls, InsideACall, NobodyArrivedYet, OwnerLooks
<1>1. CASE ObserveBegin
  BY <1>1 DEF ObserveBegin
<1>2. CASE \E valid \in BOOLEAN : ObserveEnd(valid)
  BY <1>2 DEF ObserveEnd
<1>. QED  BY <1>1, <1>2 DEF Observe

\* An interval keeps it: Check counts, and nothing else moves Execution.next.
LEMMA IntervalCalls ==
    ASSUME TypeOK, Inductive, ReportInductive, CallsInductive, OwnerLooks, Interval
    PROVE  CallsInductive'
<1>. USE DEF CallsInductive, BetweenCalls, InsideACall, NobodyArrivedYet, OwnerLooks
<1>1. CASE AwaitArrival
  BY <1>1 DEF AwaitArrival, WaitFor, WaitVerdict, Inductive, StopIsExplained,
        ReportInductive, CompletionIsFinal
<1>2. CASE Arrive
  <2>1. BetweenCalls'  BY <1>2, BetweenStep DEF Arrive, ReportInductive, CompletionIsFinal
  <2>2. InsideACall'  BY <1>2 DEF Arrive, ReportInductive, CompletionIsFinal
  <2>3. NobodyArrivedYet'  BY <1>2 DEF Arrive, ReportInductive, CompletionIsFinal
  <2>. QED  BY <2>1, <2>2, <2>3
<1>3. CASE \E exitPanicked \in BOOLEAN : JoinFinished(exitPanicked)
  BY <1>3 DEF JoinFinished
<1>4. CASE Check
  <2>1. BetweenCalls'  BY <1>4, BetweenStep DEF Check, ReportInductive, FailureStops
  <2>2. InsideACall'
    <3>1. /\ started /\ ~returned.failed /\ next = returned.next /\ ~closed
          /\ ~returned.closed /\ ~returned.completed /\ returned.cleanup = cleanup
      BY <1>4 DEF Check
    <3>2. UNCHANGED <<started, returned, closed, cleanup, outcome>> /\ ~schedule_completed'
      BY <1>4 DEF Check, ReportInductive, CompletionIsFinal
    <3>3. \/ cpc' = "observe" /\ next' = next + 1
          \/ cpc' = "settle" /\ next' = next /\ outcome # "Completed"
      BY <1>4 DEF Check
    <3>. QED  BY <3>1, <3>2, <3>3
  <2>3. NobodyArrivedYet'  BY <1>4 DEF Check, ReportInductive, FailureStops
  <2>. QED  BY <2>1, <2>2, <2>3
<1>5. CASE Settle
  <2>0. outcome = "Completed" /\ next = Len(plan) => started
    <3>1. outcome = "Completed" => Admissible(plan)
      BY <1>5 DEF Settle, Inductive, PlanAdmitted
    <3>2. Admissible(plan) => Len(plan) # 0
      BY PlanTypes, ActorsAssumption DEF Admissible
    <3>. QED  BY <3>1, <3>2
  <2>1. BetweenCalls'  BY <1>5, <2>0, BetweenStep DEF Settle, AfterCall
  <2>2. InsideACall'
    <3>1. UNCHANGED <<closed, cleanup, outcome, next, schedule_completed>>
      BY <1>5 DEF Settle
    <3>2. \/ cpc' = "idle"
          \/ cpc' = "cleanup" /\ outcome # "Completed" /\ ~schedule_completed
          \/ cpc' = "completing" /\ outcome = "Completed" /\ next = Len(plan)
      BY <1>5 DEF Settle, AfterCall, ReportInductive, CompletionIsFinal
    <3>. QED  BY <1>5, <2>0, <3>1, <3>2 DEF Settle
  <2>3. NobodyArrivedYet'  BY <1>5 DEF Settle, AfterCall, Inductive, PlanAdmitted, Admissible
  <2>. QED  BY <2>1, <2>2, <2>3
<1>6. CASE Complete
  BY <1>6 DEF Complete
<1>. QED  BY <1>1, <1>2, <1>3, <1>4, <1>5, <1>6 DEF Interval

\* A cleanup attempt keeps it: the execution closes when the attempt returns.
LEMMA CleanUpCalls ==
    ASSUME TypeOK, Inductive, ReportInductive, CallsInductive, OwnerLooks, CleanUp
    PROVE  CallsInductive'
<1>. USE DEF CallsInductive, BetweenCalls, InsideACall, NobodyArrivedYet, OwnerLooks
<1>1. CASE CleanupBegin
  BY <1>1 DEF CleanupBegin, StopsEarly
<1>2. CASE \E timedOut \in BOOLEAN : DrainEnd(timedOut)
  BY <1>2 DEF DrainEnd
<1>3. CASE Collect
  <2>1. BetweenCalls'  BY <1>3, BetweenStep DEF Collect, ReleaseJoined, Attempt
  <2>2. InsideACall'  BY <1>3 DEF Collect, ReleaseJoined, Attempt
  <2>3. NobodyArrivedYet'  BY <1>3 DEF Collect, ReleaseJoined, Attempt
  <2>. QED  BY <2>1, <2>2, <2>3
<1>4. CASE \E succeeds \in BOOLEAN : TearDown(succeeds)
  BY <1>4 DEF TearDown, Attempt
<1>5. CASE DropEnd
  BY <1>5 DEF DropEnd, ReleaseJoined
<1>. QED  BY <1>1, <1>2, <1>3, <1>4, <1>5 DEF CleanUp

\* A call begins from what the owner saw last.
LEMMA CallerCalls ==
    ASSUME TypeOK, Inductive, ReportInductive, CallsInductive, OwnerLooks,
           CallerStep \/ RunLoopStep \/ RunLoopEnd
    PROVE  CallsInductive'
<1>. USE DEF CallsInductive, BetweenCalls, InsideACall, NobodyArrivedYet, OwnerLooks
<1>0. schedule_completed /\ cpc = "idle" => closed
  BY DEF ReportInductive, CompletionIsFinal
<1>1. CASE RunLoopEnd
  BY <1>1 DEF RunLoopEnd
<1>2. CASE Finish
  <2>1. BetweenCalls'  BY <1>0, <1>2, BetweenStep DEF Finish, MayCleanUp
  <2>2. InsideACall'  BY <1>0, <1>2, CallBegins DEF Finish, MayCleanUp
  <2>3. NobodyArrivedYet'  BY <1>0, <1>2 DEF Finish, MayCleanUp
  <2>. QED  BY <2>1, <2>2, <2>3
<1>3. CASE CallCleanup
  <2>1. BetweenCalls'  BY <1>0, <1>3, BetweenStep DEF CallCleanup, MayCleanUp
  <2>2. InsideACall'  BY <1>0, <1>3, CallBegins DEF CallCleanup, MayCleanUp
  <2>3. NobodyArrivedYet'  BY <1>0, <1>3 DEF CallCleanup, MayCleanUp
  <2>. QED  BY <2>1, <2>2, <2>3
<1>4. CASE DropBegin
  BY <1>4 DEF DropBegin
<1>5. CASE \E requested : Advance(requested)
  <2>1. BetweenCalls'  BY <1>0, <1>5, BetweenStep DEF Advance, AdvanceRefusal
  <2>2. InsideACall'
    <3>1. /\ cpc = "idle" /\ ~closed /\ outcome = "Completed" /\ ~schedule_completed
          /\ UNCHANGED <<closed, cleanup, next, schedule_completed>>
          /\ \/ cpc' = "awaiting"
             \/ cpc' = "settle" /\ outcome' # "Completed"
      <4>1. CASE stopping'
        BY <1>0, <1>5, <4>1 DEF Advance, AdvanceRefusal, Inductive, StopIsExplained
      <4>2. CASE ~stopping'  BY <1>0, <1>5, <4>2 DEF Advance
      <4>. QED  BY <4>1, <4>2
    <3>2. UNCHANGED <<started, returned>>  BY <3>1
    <3>. QED  BY <3>1, <3>2, CallBegins
  <2>3. NobodyArrivedYet'  BY <1>0, <1>5 DEF Advance, AdvanceRefusal
  <2>. QED  BY <2>1, <2>2, <2>3
<1>. QED  BY <1>1, <1>2, <1>3, <1>4, <1>5 DEF CallerStep, RunLoopStep

\* Workers change neither the calls nor the count, and arrive only in an interval.
LEMMA WorkerCalls ==
    ASSUME TypeOK, Inductive, ReportInductive, CallsInductive, OwnerLooks,
           NEW a \in Actors, Runtime(a) \/ Body(a) \/ SpuriousWakeup(a)
    PROVE  CallsInductive'
<1>. USE DEF CallsInductive, BetweenCalls, InsideACall, NobodyArrivedYet, OwnerLooks
<1>1. CASE Enter(a)
  <2>1. BetweenCalls'  BY <1>1, BetweenStep DEF Enter
  <2>2. InsideACall'  BY <1>1 DEF Enter
  <2>3. NobodyArrivedYet'  BY <1>1 DEF Enter
  <2>. QED  BY <2>1, <2>2, <2>3
<1>2. CASE Recheck(a)
  <2>1. BetweenCalls'  BY <1>2, BetweenStep DEF Recheck
  <2>2. InsideACall'  BY <1>2 DEF Recheck
  <2>3. NobodyArrivedYet'  BY <1>2 DEF Recheck
  <2>. QED  BY <2>1, <2>2, <2>3
<1>3. CASE Epilogue(a)
  <2>1. BetweenCalls'  BY <1>3, BetweenStep DEF Epilogue
  <2>2. InsideACall'  BY <1>3 DEF Epilogue
  <2>3. NobodyArrivedYet'  BY <1>3 DEF Epilogue
  <2>. QED  BY <2>1, <2>2, <2>3
<1>4. CASE ThreadEnds(a)
  <2>1. BetweenCalls'  BY <1>4, BetweenStep DEF ThreadEnds
  <2>2. InsideACall'  BY <1>4 DEF ThreadEnds
  <2>3. NobodyArrivedYet'  BY <1>4 DEF ThreadEnds
  <2>. QED  BY <2>1, <2>2, <2>3
<1>5. CASE \E name \in Names : ArriveAt(a, name)
  <2>1. BetweenCalls'  BY <1>5, BetweenStep DEF ArriveAt, Inductive, ExclusiveInterval
  <2>2. InsideACall'  BY <1>5 DEF ArriveAt, Inductive, ExclusiveInterval
  <2>3. NobodyArrivedYet'  BY <1>5 DEF ArriveAt, Inductive, ExclusiveInterval
  <2>. QED  BY <2>1, <2>2, <2>3
<1>6. CASE ForeignArrive(a)
  <2>1. BetweenCalls'  BY <1>6, BetweenStep DEF ForeignArrive
  <2>2. InsideACall'  BY <1>6 DEF ForeignArrive
  <2>3. NobodyArrivedYet'  BY <1>6 DEF ForeignArrive
  <2>. QED  BY <2>1, <2>2, <2>3
<1>7. CASE \E r \in {"ok", "failed"} : BodyEnds(a, r)
  <2>1. BetweenCalls'  BY <1>7, BetweenStep DEF BodyEnds
  <2>2. InsideACall'  BY <1>7 DEF BodyEnds
  <2>3. NobodyArrivedYet'  BY <1>7 DEF BodyEnds
  <2>. QED  BY <2>1, <2>2, <2>3
<1>8. CASE SpuriousWakeup(a)
  <2>1. BetweenCalls'  BY <1>8, BetweenStep DEF SpuriousWakeup
  <2>2. InsideACall'  BY <1>8 DEF SpuriousWakeup
  <2>3. NobodyArrivedYet'  BY <1>8 DEF SpuriousWakeup
  <2>. QED  BY <2>1, <2>2, <2>3
<1>. QED  BY <1>1, <1>2, <1>3, <1>4, <1>5, <1>6, <1>7, <1>8 DEF Runtime, Body

\* Cancellation and the clock keep it.
LEMMA EnvironmentCalls ==
    ASSUME TypeOK, Inductive, ReportInductive, CallsInductive, OwnerLooks \/ UNCHANGED callVars,
           Cancel \/ Expire \/ UNCHANGED vars
    PROVE  CallsInductive'
<1>. USE DEF CallsInductive, BetweenCalls, InsideACall, NobodyArrivedYet
<1>1. CASE Cancel  BY <1>1 DEF Cancel, vars, OwnerLooks, callVars, Summary
<1>2. CASE Expire  BY <1>2 DEF Expire, vars, OwnerLooks, callVars, Summary
<1>3. CASE UNCHANGED vars
  <2>1. returned' = returned
    BY <1>3 DEF vars, OwnerLooks, callVars, Summary
  <2>2. started' = started
    BY <1>3 DEF vars, OwnerLooks, callVars
  <2>. QED  BY <1>3, <2>1, <2>2 DEF vars, Summary
<1>. QED  BY <1>1, <1>2, <1>3

(***************************************************************************)
(* The refinement.                                                         *)
(***************************************************************************)
\* No step changes the plan.
LEMMA PlanStays == ASSUME [Next]_vars PROVE plan' = plan
BY DEF Next, Controller, Start, Admit, FactoryRefuses, FactoryReturns, Spawn, SpawnFails,
       AwaitReady, Observe, ObserveBegin, ObserveEnd, Interval, AwaitArrival, Arrive,
       JoinFinished, Check, Settle, Complete, CleanUp, CleanupBegin, DrainEnd, Collect,
       TearDown, DropEnd, RunLoopStep, RunLoopEnd, CallerStep, Advance, Finish, CallCleanup,
       DropBegin, Runtime, Body, SpuriousWakeup, Enter, Recheck, Epilogue, ThreadEnds,
       ArriveAt, ForeignArrive, BodyEnds, Cancel, Expire, Dropped, vars

\* The three ways in which a call returns: refused before anything was acquired,
\* waiting for the next interval, and through a cleanup attempt.
Refused == /\ ~started /\ outcome' # "Completed" /\ closed'
           /\ UNCHANGED <<schedule_completed, cleanup, next>>

Waits == /\ cpc = "settle" /\ outcome = "Completed" /\ next # Len(plan)
         /\ UNCHANGED <<outcome, schedule_completed, cleanup, closed, next>>

Attempted == /\ cpc \in {"collecting", "tearing"}
             /\ \/ cleanup' \in {"Confirmed", "TeardownFailed"} /\ closed'
                \/ cleanup' = "Incomplete" /\ ~closed' /\ outcome # "Completed"
             /\ UNCHANGED <<outcome, schedule_completed, next>>

\* No other step ends a call.
LEMMA CallReturns ==
    ASSUME TypeOK, Inductive, ReportInductive, CallsInductive, Next,
           cpc # "idle", cpc' = "idle"
    PROVE  Refused \/ Waits \/ Attempted
<1>. USE DEF CallsInductive, BetweenCalls, InsideACall
<1>1. CASE Start
  <2>1. CASE \E reentry, identityMatches, boundsValid \in BOOLEAN :
                 Admit(reentry, identityMatches, boundsValid)
    BY <2>1 DEF Admit, Refusal, Refused
  <2>2. CASE FactoryRefuses
    BY <2>2 DEF FactoryRefuses, Refused
  <2>. QED
    BY <1>1, <2>1, <2>2 DEF Start, FactoryReturns, Spawn, SpawnFails, AwaitReady, WaitFor
<1>2. CASE Observe
  BY <1>2 DEF Observe, ObserveBegin, ObserveEnd
<1>3. CASE Interval
  <2>1. CASE Settle
    BY <2>1 DEF Settle, AfterCall, Waits
  <2>. QED
    BY <1>3, <2>1 DEF Interval, AwaitArrival, WaitFor, Arrive, JoinFinished, Check, Complete
<1>4. CASE CleanUp
  <2>1. CASE Collect
    <3>1. handles' \subseteq handles /\ (handles' # {} => cleanup' = "Incomplete")
      BY <2>1 DEF Collect, ReleaseJoined, Attempt
    <3>2. handles' # {}  BY <2>1 DEF Collect
    <3>3. outcome # "Completed"
      BY <2>1, <3>1, <3>2 DEF Collect, ReportInductive, CleanupIsReported, CompletionIsFinal
    <3>. QED  BY <2>1, <3>1, <3>2, <3>3 DEF Collect, Attempted
  <2>2. CASE \E succeeds \in BOOLEAN : TearDown(succeeds)
    <3>1. program
      BY <2>2 DEF TearDown, ReportInductive, CleanupIsReported
    <3>. QED  BY <2>2, <3>1 DEF TearDown, Attempt, Attempted
  <2>. QED  BY <1>4, <2>1, <2>2 DEF CleanUp, CleanupBegin, DrainEnd, DropEnd
<1>5. CASE CallerStep \/ RunLoopStep \/ RunLoopEnd
  BY <1>5 DEF CallerStep, RunLoopStep, RunLoopEnd, Advance, Finish, CallCleanup, MayCleanUp,
        DropBegin
<1>6. CASE \E a \in Actors : Runtime(a) \/ Body(a) \/ SpuriousWakeup(a)
  BY <1>6 DEF Runtime, Body, SpuriousWakeup, Enter, Recheck, Epilogue, ThreadEnds,
        ArriveAt, ForeignArrive, BodyEnds
<1>7. CASE Cancel \/ Expire \/ Dropped
  BY <1>7 DEF Cancel, Expire, Dropped, vars
<1>. QED
  BY <1>1, <1>2, <1>3, <1>4, <1>5, <1>6, <1>7 DEF Next, Controller

\* Between two calls the report stays as it is, but for an arrival without a
\* permit, which needs an interval behind it.
LEMMA IdleStep ==
    ASSUME TypeOK, Inductive, ReportInductive, CallsInductive, Next,
           cpc = "idle", cpc' = "idle"
    PROVE  /\ UNCHANGED <<schedule_completed, cleanup, closed, next>>
           /\ \/ outcome' = outcome
              \/ ~closed /\ next # 0 /\ outcome' # "Completed"
<1>1. CASE CallerStep \/ RunLoopStep \/ RunLoopEnd
  BY <1>1 DEF CallerStep, RunLoopStep, RunLoopEnd, Advance, Finish, CallCleanup, DropBegin
<1>2. CASE \E a \in Actors : Runtime(a) \/ Body(a) \/ SpuriousWakeup(a)
  <2>1. PICK a \in Actors : Runtime(a) \/ Body(a) \/ SpuriousWakeup(a)  BY <1>2
  <2>2. UNCHANGED <<schedule_completed, cleanup, closed, next>>
    BY <2>1 DEF Runtime, Body, SpuriousWakeup, Enter, Recheck, Epilogue, ThreadEnds,
          ArriveAt, ForeignArrive, BodyEnds
  <2>3. outcome' = outcome
          \/ /\ outcome = "Completed" /\ outcome' # "Completed" /\ stopping'
             /\ wpc[a] \in {"body", "arriveWait", "epilogue"}
    BY <2>1 DEF Runtime, Body, SpuriousWakeup, Enter, Recheck, Epilogue, ThreadEnds,
          ArriveAt, ForeignArrive, BodyEnds
  <2>4. ASSUME outcome = "Completed", wpc[a] \in {"body", "arriveWait", "epilogue"}
        PROVE  ~closed /\ next # 0
    <3>1. ~closed
      BY <2>4 DEF Inductive, OwnsEveryThread, ClosedOwnsNothing
    <3>2. ~stopping
      BY <3>1, <2>4 DEF Inductive, StopIsExplained, ReportInductive, CompletionIsFinal
    <3>3. wpc[a] = "arriveWait"
      BY <2>4, <3>2 DEF Inductive, ExclusiveInterval
    <3>. QED  BY <3>1, <3>2, <3>3 DEF CallsInductive, NobodyArrivedYet
  <2>. QED  BY <2>2, <2>3, <2>4
<1>3. CASE Cancel \/ Expire \/ Dropped
  BY <1>3 DEF Cancel, Expire, Dropped, vars
<1>4. CASE Start \/ Observe \/ Interval \/ CleanUp
  BY <1>4 DEF Start, Admit, FactoryRefuses, FactoryReturns, Spawn, SpawnFails,
       AwaitReady, Observe, ObserveBegin, ObserveEnd, Interval, AwaitArrival, Arrive,
       JoinFinished, Check, Settle, Complete, CleanUp, CleanupBegin, DrainEnd, Collect,
       TearDown, DropEnd
<1>. QED  BY <1>1, <1>2, <1>3, <1>4 DEF Next, Controller

(***************************************************************************)
(* The interface's operators on an execution given by its five fields.     *)
(***************************************************************************)
View(f, c, k, l, n) == [failed |-> f, completed |-> c, cleanup |-> k, closed |-> l, next |-> n]

\* The execution before start_schedule, field by field.
LEMMA OpenView == Interface!Open = View(FALSE, FALSE, "NotStarted", FALSE, 0)
BY Zenon DEF View, Interface!Open

\* A failed call closes the execution, or leaves its cleanup incomplete.
LEMMA FailedAttempt ==
    ASSUME NEW k, NEW n
    PROVE  LET e == View(TRUE, FALSE, k, FALSE, n)
           IN  /\ \A v \in {"Confirmed", "TeardownFailed"} :
                      View(TRUE, FALSE, v, TRUE, n) \in Interface!CleanedUp(e)
               /\ View(TRUE, FALSE, "Incomplete", FALSE, n) \in Interface!CleanedUp(e)
<1>. DEFINE e == View(TRUE, FALSE, k, FALSE, n)
<1>1. PICK b, t, i : b = FALSE /\ t = TRUE /\ i = "Incomplete"  OBVIOUS
<1>2. ~e.completed  BY Zenon DEF View
<1>3. ASSUME NEW v \in {"Confirmed", "TeardownFailed"}
      PROVE  View(TRUE, FALSE, v, TRUE, n) \in Interface!CleanedUp(e)
  <2>1. [View(t, b, k, b, n) EXCEPT !.cleanup = v] = View(t, b, v, b, n)  BY DEF View
  <2>2. [View(t, b, v, b, n) EXCEPT !.closed = t] = View(t, b, v, t, n)  BY DEF View
  <2>3. [e EXCEPT !.cleanup = v, !.closed = TRUE] = View(TRUE, FALSE, v, TRUE, n)
    BY <1>1, <2>1, <2>2, Zenon
  <2>. HIDE DEF e
  <2>. QED  BY <1>3, <2>3, Zenon DEF Interface!CleanedUp
<1>4. [View(t, b, k, b, n) EXCEPT !.cleanup = i] = View(t, b, i, b, n)  BY DEF View
<1>5. View(TRUE, FALSE, "Incomplete", FALSE, n) \in Interface!CleanedUp(e)
  BY <1>1, <1>2, <1>4, Zenon DEF Interface!CleanedUp
<1>. QED  BY <1>3, <1>5

\* Cleaning up after a completed plan closes the execution.
LEMMA CompletedAttempt ==
    ASSUME NEW k, NEW n, NEW v \in {"Confirmed", "TeardownFailed"}
    PROVE  View(FALSE, TRUE, v, TRUE, n)
               \in Interface!CleanedUp(View(FALSE, TRUE, k, FALSE, n))
<1>. DEFINE e == View(FALSE, TRUE, k, FALSE, n)
<1>1. PICK b, t : b = FALSE /\ t = TRUE  OBVIOUS
<1>2. [View(b, t, k, b, n) EXCEPT !.cleanup = v] = View(b, t, v, b, n)  BY DEF View
<1>3. [View(b, t, v, b, n) EXCEPT !.closed = t] = View(b, t, v, t, n)  BY DEF View
<1>4. [e EXCEPT !.cleanup = v, !.closed = TRUE] = View(FALSE, TRUE, v, TRUE, n)
  BY <1>1, <1>2, <1>3, Zenon
<1>5. View(FALSE, TRUE, v, TRUE, n) \in Interface!CleanedUp(e)
  <2>. HIDE DEF e
  <2>. QED  BY <1>4, Zenon DEF Interface!CleanedUp
<1>. QED  BY <1>5

\* What Start may return.
LEMMA StartView ==
    /\ View(FALSE, FALSE, "NotStarted", FALSE, 0) \in Interface!StartResults
    /\ View(TRUE, FALSE, "NotStarted", TRUE, 0) \in Interface!StartResults
    /\ Interface!CleanedUp(View(TRUE, FALSE, "NotStarted", FALSE, 0))
           \subseteq Interface!StartResults
<1>1. PICK b, t : b = FALSE /\ t = TRUE  OBVIOUS
<1>2. [View(b, b, "NotStarted", b, 0) EXCEPT !.failed = t] = View(t, b, "NotStarted", b, 0)
  BY DEF View
<1>3. Interface!Failed(Interface!Open) = View(TRUE, FALSE, "NotStarted", FALSE, 0)
  BY <1>1, <1>2, OpenView, Zenon DEF Interface!Failed
<1>4. [View(t, b, "NotStarted", b, 0) EXCEPT !.closed = t] = View(t, b, "NotStarted", t, 0)
  BY DEF View
<1>5. [Interface!Failed(Interface!Open) EXCEPT !.closed = TRUE]
        = View(TRUE, FALSE, "NotStarted", TRUE, 0)
  BY <1>1, <1>3, <1>4, Zenon
<1>. QED  BY <1>3, <1>5, OpenView, Zenon DEF Interface!StartResults

\* What Advance may return.
LEMMA AdvanceView ==
    ASSUME NEW k, NEW n \in Nat, n < Len(plan), Len(plan) \in Nat
    PROVE  LET e == View(FALSE, FALSE, k, FALSE, n)
               results == Interface!AdvanceResults(e)
           IN  /\ Interface!CleanedUp(View(TRUE, FALSE, k, FALSE, n + 1)) \subseteq results
               /\ n + 1 = Len(plan) =>
                     Interface!CleanedUp(View(FALSE, TRUE, k, FALSE, n + 1)) \subseteq results
               /\ n + 1 # Len(plan) => View(FALSE, FALSE, k, FALSE, n + 1) \in results
<1>. DEFINE e == View(FALSE, FALSE, k, FALSE, n)
            further == [e EXCEPT !.next = @ + 1]
<1>1. PICK b, t : b = FALSE /\ t = TRUE  OBVIOUS
<1>2. further = View(FALSE, FALSE, k, FALSE, n + 1)
  <2>1. [View(b, b, k, b, n) EXCEPT !.next = @ + 1] = View(b, b, k, b, n + 1)  BY DEF View
  <2>. QED  BY <1>1, <2>1, Zenon
<1>3. ~e.closed /\ ~e.failed /\ e.next = n
  BY Zenon DEF View
<1>4. further.next = n + 1
  BY <1>2, Zenon DEF View
<1>5. Interface!Failed(further) = View(TRUE, FALSE, k, FALSE, n + 1)
  <2>1. [View(b, b, k, b, n + 1) EXCEPT !.failed = t] = View(t, b, k, b, n + 1)  BY DEF View
  <2>. QED  BY <1>1, <1>2, <2>1, Zenon DEF Interface!Failed
<1>6. [further EXCEPT !.completed = TRUE] = View(FALSE, TRUE, k, FALSE, n + 1)
  <2>1. [View(b, b, k, b, n + 1) EXCEPT !.completed = t] = View(b, t, k, b, n + 1)  BY DEF View
  <2>. QED  BY <1>1, <1>2, <2>1, Zenon
<1>7. ~(n >= Len(plan))  OBVIOUS
<1>8. Interface!AdvanceResults(e) =
        Interface!CleanedUp(Interface!Failed(e)) \cup
          (Interface!CleanedUp(Interface!Failed(further)) \cup
             IF n + 1 = Len(plan) THEN Interface!CleanedUp([further EXCEPT !.completed = TRUE])
             ELSE {further})
  <2>. HIDE DEF e
  <2>. QED  BY <1>3, <1>4, <1>7, Zenon DEF Interface!AdvanceResults
<1>. HIDE DEF e, further
<1>. QED  BY <1>2, <1>5, <1>6, <1>8, Zenon DEF e

\* Stopping early fails the execution.
LEMMA FinishView ==
    ASSUME NEW f \in BOOLEAN, NEW k, NEW n
    PROVE  Interface!CleanedUp(View(TRUE, FALSE, k, FALSE, n))
             \subseteq Interface!FinishResults(View(f, FALSE, k, FALSE, n))
<1>. DEFINE e == View(f, FALSE, k, FALSE, n)
<1>1. ~e.closed /\ ~e.completed  BY Zenon DEF View
<1>2. Interface!Failed(e) = View(TRUE, FALSE, k, FALSE, n)
  <2>1. PICK b, t : b = FALSE /\ t = TRUE  OBVIOUS
  <2>2. [View(f, b, k, b, n) EXCEPT !.failed = t] = View(t, b, k, b, n)  BY DEF View
  <2>. QED  BY <2>1, <2>2, Zenon DEF Interface!Failed
<1>. HIDE DEF e
<1>3. Interface!FinishResults(e) = Interface!CleanedUp(Interface!Failed(e))
  BY <1>1, Zenon DEF Interface!FinishResults
<1>. QED  BY <1>2, <1>3, Zenon DEF e

\* A late arrival fails an open execution that has an interval behind it.
LEMMA LateView ==
    ASSUME NEW f \in BOOLEAN, NEW k, NEW n, n # 0
    PROVE  View(TRUE, FALSE, k, FALSE, n) \in Interface!LateResults(View(f, FALSE, k, FALSE, n))
<1>. DEFINE e == View(f, FALSE, k, FALSE, n)
<1>1. ~e.closed /\ e.next # 0  BY Zenon DEF View
<1>2. Interface!Failed(e) = View(TRUE, FALSE, k, FALSE, n)
  <2>1. PICK b, t : b = FALSE /\ t = TRUE  OBVIOUS
  <2>2. [View(f, b, k, b, n) EXCEPT !.failed = t] = View(t, b, k, b, n)  BY DEF View
  <2>. QED  BY <2>1, <2>2, Zenon DEF Interface!Failed
<1>. HIDE DEF e
<1>3. Interface!Failed(e) \in Interface!LateResults(e)
  BY <1>1, Zenon DEF Interface!LateResults
<1>. QED  BY <1>2, <1>3, Zenon DEF e

\* What the owner sees.
LEMMA SummaryView ==
    /\ Summary = View(outcome # "Completed", schedule_completed, cleanup, closed, next)
    /\ Summary' = View(outcome' # "Completed", schedule_completed', cleanup', closed', next')
BY Zenon DEF Summary, View

\* A summary is its five fields.
LEMMA SummaryFields ==
    ASSUME NEW r \in Interface!Executions
    PROVE  /\ r = View(r.failed, r.completed, r.cleanup, r.closed, r.next)
           /\ r.failed \in BOOLEAN /\ r.completed \in BOOLEAN /\ r.closed \in BOOLEAN
           /\ r.cleanup \in CleanupStates /\ r.next \in Nat
BY DEF Interface!Executions, Interface!Cleanups, CleanupStates, View

\* Between two calls: nothing to see, or Late.
LEMMA LateRefines ==
    ASSUME TypeOK, Inductive, ReportInductive, CallsInductive, Next, OwnerLooks,
           cpc = "idle", cpc' = "idle", returned' # returned
    PROVE  Interface!Late
<1>1. started /\ started' = TRUE /\ returned = Summary /\ returned' = Summary'
  BY DEF OwnerLooks, CallsInductive, BetweenCalls
<1>2. ~closed /\ next # 0 /\ outcome' # "Completed"
      /\ UNCHANGED <<schedule_completed, cleanup, closed, next>>
  <2>1. CASE outcome' = outcome
    <3>1. Summary' = Summary  BY <2>1, IdleStep DEF Summary
    <3>. QED  BY <1>1, <3>1
  <2>. QED  BY <2>1, IdleStep
<1>3. schedule_completed = FALSE /\ closed = FALSE
  BY <1>2 DEF ReportInductive, CompletionIsFinal
<1>4. (outcome' # "Completed") = TRUE /\ (outcome # "Completed") \in BOOLEAN
  BY <1>2
<1>5. returned' = View(TRUE, FALSE, cleanup, FALSE, next)
  BY <1>1, <1>2, <1>3, <1>4, SummaryView, Zenon
<1>6. returned = View(outcome # "Completed", FALSE, cleanup, FALSE, next)
  BY <1>1, <1>3, SummaryView, Zenon
<1>7. returned' \in Interface!LateResults(returned)
  BY <1>2, <1>4, <1>5, <1>6, LateView, Zenon
<1>. QED  BY <1>1, <1>7 DEF Interface!Late

\* start_schedule refused: closed, and nothing to clean up.
LEMMA RefusedRefines ==
    ASSUME TypeOK, CallsInductive, OwnerLooks, cpc # "idle", cpc' = "idle", Refused
    PROVE  Interface!Start
<1>1. /\ ~started /\ started' = TRUE /\ returned' = Summary'
      /\ returned = Interface!Open /\ next' = 0
  BY DEF OwnerLooks, Refused, CallsInductive, BetweenCalls
<1>2. cleanup' = "NotStarted" /\ schedule_completed' = FALSE /\ closed' = TRUE
  BY <1>1 DEF Refused, CallsInductive, InsideACall, BetweenCalls
<1>3. (outcome' # "Completed") = TRUE  BY DEF Refused
<1>4. Summary' = View(TRUE, FALSE, "NotStarted", TRUE, 0)
  BY <1>1, <1>2, <1>3, SummaryView, Zenon
<1>. QED  BY <1>1, <1>4, StartView DEF Interface!Start

\* start_schedule or advance with workers parked at their checkpoints: the call
\* succeeded, and an advance has counted one interval.
LEMMA WaitsRefines ==
    ASSUME TypeOK, Inductive, ReportInductive, CallsInductive,
           returned \in Interface!Executions, OwnerLooks, cpc' = "idle", Waits
    PROVE  Interface!Start \/ Interface!Advance
<1>. USE DEF Waits
<1>1. /\ started' = TRUE /\ returned' = Summary' /\ started \in BOOLEAN
      /\ ~started => returned = Interface!Open /\ next = 0
  BY DEF OwnerLooks, CallsInductive, BetweenCalls
<1>2. /\ ~closed /\ returned.closed = FALSE /\ returned.completed = FALSE
      /\ cleanup = returned.cleanup
      /\ started => Counted
  BY <1>1, SummaryFields DEF CallsInductive, InsideACall
<1>3. schedule_completed = FALSE /\ closed = FALSE
  BY <1>2 DEF ReportInductive, CompletionIsFinal
<1>4. (outcome' # "Completed") = FALSE  OBVIOUS
<1>5. Summary' = View(FALSE, FALSE, cleanup, FALSE, next)
  BY <1>3, <1>4, SummaryView, Zenon
<1>6. CASE ~started
  <2>1. cleanup = "NotStarted" /\ next = 0  BY <1>1, <1>2, <1>6
  <2>2. Summary' \in Interface!StartResults
    BY <1>5, <2>1, StartView, Zenon
  <2>. QED  BY <1>1, <1>6, <2>2 DEF Interface!Start
<1>7. CASE started
  <2>. DEFINE n == returned.next
  <2>1. /\ returned.failed = FALSE /\ next = n + 1 /\ n \in Nat
        /\ Len(plan) \in Nat /\ n < Len(plan) /\ n + 1 # Len(plan)
    BY <1>2, <1>7, SummaryFields, PlanTypes DEF Inductive, PlanAdmitted
  <2>2. returned = View(FALSE, FALSE, cleanup, FALSE, n)
    BY <1>2, <2>1, SummaryFields, Zenon
  <2>3. View(FALSE, FALSE, cleanup, FALSE, n + 1)
          \in Interface!AdvanceResults(View(FALSE, FALSE, cleanup, FALSE, n))
    <3>. HIDE DEF n
    <3>. QED  BY <2>1, AdvanceView
  <2>4. Summary' \in Interface!AdvanceResults(returned)
    <3>. HIDE DEF n
    <3>. QED  BY <1>5, <2>1, <2>2, <2>3, Zenon
  <2>. QED  BY <1>1, <1>7, <2>4 DEF Interface!Advance
<1>. QED  BY <1>1, <1>6, <1>7

\* A completed plan, cleaned up: the last advance.
LEMMA CompletedRefines ==
    ASSUME TypeOK, Inductive, ReportInductive, CallsInductive,
           returned \in Interface!Executions, OwnerLooks, cpc' = "idle",
           Attempted, schedule_completed
    PROVE  Interface!Advance
<1>. DEFINE n == returned.next
<1>1. /\ started /\ started' = TRUE /\ returned' = Summary'
      /\ next = n + 1 /\ n \in Nat /\ next = Len(plan) /\ Len(plan) \in Nat /\ n < Len(plan)
      /\ outcome = "Completed"
  BY SummaryFields, PlanTypes
     DEF OwnerLooks, Attempted, CallsInductive, InsideACall, ReportInductive, CompletionIsFinal
<1>2. /\ returned.failed = FALSE /\ returned.completed = FALSE /\ returned.closed = FALSE
      /\ cleanup' \in {"Confirmed", "TeardownFailed"} /\ closed' = TRUE
      /\ (outcome' # "Completed") = FALSE /\ schedule_completed' = TRUE
  BY <1>1, SummaryFields DEF Attempted, CallsInductive, InsideACall
<1>3. returned = View(FALSE, FALSE, returned.cleanup, FALSE, n)
  BY <1>2, SummaryFields, Zenon
<1>4. Summary' = View(FALSE, TRUE, cleanup', TRUE, n + 1)
  <2>1. next' = n + 1  BY <1>1 DEF Attempted
  <2>. QED  BY <1>2, <2>1, SummaryView, Zenon
<1>. HIDE DEF n
<1>5. Summary' \in Interface!CleanedUp(View(FALSE, TRUE, returned.cleanup, FALSE, n + 1))
  BY <1>2, <1>4, CompletedAttempt, Zenon
<1>6. Interface!CleanedUp(View(FALSE, TRUE, returned.cleanup, FALSE, n + 1))
        \subseteq Interface!AdvanceResults(View(FALSE, FALSE, returned.cleanup, FALSE, n))
  BY <1>1, AdvanceView
<1>7. Summary' \in Interface!AdvanceResults(returned)
  BY <1>3, <1>5, <1>6, Zenon
<1>. QED  BY <1>1, <1>7 DEF Interface!Advance

\* A failed call, cleaned up: start_schedule, an advance that failed before or
\* after its interval was counted, or a finish that stopped early.
LEMMA FailedRefines ==
    ASSUME TypeOK, Inductive, ReportInductive, CallsInductive,
           returned \in Interface!Executions, OwnerLooks, cpc' = "idle",
           Attempted, ~schedule_completed
    PROVE  Interface!Start \/ Interface!Advance \/ Interface!Finish
<1>. DEFINE k == returned.cleanup
            n == returned.next
            e == View(TRUE, FALSE, k, FALSE, next)
<1>1. /\ started' = TRUE /\ returned' = Summary' /\ started \in BOOLEAN
      /\ ~started => returned = Interface!Open /\ next = 0
  BY DEF OwnerLooks, CallsInductive, BetweenCalls
<1>2. /\ returned.completed = FALSE /\ returned.closed = FALSE /\ returned.failed \in BOOLEAN
      /\ next = n \/ Counted
  BY SummaryFields DEF Attempted, CallsInductive, InsideACall
<1>3. /\ (outcome' # "Completed") = TRUE /\ schedule_completed' = FALSE /\ next' = next
  BY DEF Attempted, ReportInductive, CleanupIsReported
<1>4. returned = View(returned.failed, FALSE, k, FALSE, n)
  BY <1>2, SummaryFields, Zenon
<1>5. Summary' \in Interface!CleanedUp(e)
  <2>1. CASE cleanup' \in {"Confirmed", "TeardownFailed"} /\ closed'
    <3>1. closed' = TRUE  BY <2>1
    <3>2. Summary' = View(TRUE, FALSE, cleanup', TRUE, next)
      BY <1>3, <3>1, SummaryView, Zenon
    <3>. QED  BY <2>1, <3>2, FailedAttempt, Zenon
  <2>2. CASE cleanup' = "Incomplete" /\ ~closed'
    <3>1. closed' = FALSE  BY <2>2
    <3>2. Summary' = View(TRUE, FALSE, "Incomplete", FALSE, next)
      BY <1>3, <2>2, <3>1, SummaryView, Zenon
    <3>. QED  BY <3>2, FailedAttempt, Zenon
  <2>. QED  BY <2>1, <2>2 DEF Attempted
<1>6. CASE ~started
  <2>1. k = "NotStarted" /\ next = 0  BY <1>1, <1>6
  <2>2. Summary' \in Interface!StartResults
    <3>. HIDE DEF k
    <3>. QED  BY <1>5, <2>1, StartView, Zenon
  <2>. QED  BY <1>1, <1>6, <2>2 DEF Interface!Start
<1>7. CASE started /\ next = n
  <2>. HIDE DEF k, n
  <2>1. Interface!CleanedUp(View(TRUE, FALSE, k, FALSE, n))
          \subseteq Interface!FinishResults(View(returned.failed, FALSE, k, FALSE, n))
    BY <1>2, FinishView, Zenon
  <2>2. Summary' \in Interface!FinishResults(returned)
    BY <1>4, <1>5, <1>7, <2>1, Zenon
  <2>. QED  BY <1>1, <1>7, <2>2 DEF Interface!Finish
<1>8. CASE started /\ Counted
  <2>1. /\ returned.failed = FALSE /\ next = n + 1 /\ n \in Nat
        /\ Len(plan) \in Nat /\ n < Len(plan)
    BY <1>2, <1>8, SummaryFields, PlanTypes DEF Inductive, PlanAdmitted
  <2>2. returned = View(FALSE, FALSE, k, FALSE, n)
    BY <1>4, <2>1, Zenon
  <2>. HIDE DEF k, n
  <2>3. Interface!CleanedUp(View(TRUE, FALSE, k, FALSE, n + 1))
          \subseteq Interface!AdvanceResults(View(FALSE, FALSE, k, FALSE, n))
    BY <2>1, AdvanceView
  <2>4. Summary' \in Interface!AdvanceResults(returned)
    BY <1>5, <2>1, <2>2, <2>3, Zenon
  <2>. QED  BY <1>1, <1>8, <2>4 DEF Interface!Advance
<1>. QED  BY <1>1, <1>2, <1>6, <1>7, <1>8

\* Whatever call returns, the interface names its result.
LEMMA ReturnRefines ==
    ASSUME TypeOK, Inductive, ReportInductive, CallsInductive,
           returned \in Interface!Executions, Next, OwnerLooks, cpc # "idle", cpc' = "idle"
    PROVE  Interface!Start \/ Interface!Advance \/ Interface!Finish
<1>1. CASE Refused    BY <1>1, RefusedRefines
<1>2. CASE Waits      BY <1>2, WaitsRefines
<1>3. CASE Attempted  BY <1>3, CompletedRefines, FailedRefines
<1>. QED  BY <1>1, <1>2, <1>3, CallReturns

\* Every step of the scheduler is one of the interface's, or changes nothing that
\* its owner can see.
LEMMA StepRefines ==
    ASSUME TypeOK, Inductive, ReportInductive, CallsInductive,
           returned \in Interface!Executions, [CallsNext]_callVars
    PROVE  [Interface!Next]_<<Len(plan), started, returned>>
<1>1. CASE UNCHANGED callVars
  BY <1>1 DEF callVars, vars
<1>2. CASE CallsNext
  <2>1. Next /\ OwnerLooks  BY <1>2, LooksAtIdle DEF CallsNext
  <2>2. plan' = plan  BY <2>1, PlanStays
  <2>3. CASE cpc' # "idle"
    BY <2>1, <2>2, <2>3 DEF OwnerLooks
  <2>4. CASE cpc' = "idle" /\ cpc # "idle"
    BY <2>1, <2>2, <2>4, ReturnRefines DEF Interface!Next
  <2>5. CASE cpc' = "idle" /\ cpc = "idle"
    <3>1. started' = started
      BY <2>1, <2>5 DEF OwnerLooks, CallsInductive, BetweenCalls
    <3>. QED  BY <2>1, <2>2, <2>5, <3>1, LateRefines DEF Interface!Next
  <2>. QED  BY <2>3, <2>4, <2>5
<1>. QED  BY <1>1, <1>2

\* What the owner remembers is an execution, whatever the workers do.
LEMMA OwnerRemembers ==
    ASSUME TypeOK', returned \in Interface!Executions, OwnerLooks \/ UNCHANGED callVars
    PROVE  (returned \in Interface!Executions)'
<1>1. Summary' \in Interface!Executions
  BY DEF Summary, Interface!Executions, Interface!Cleanups, CleanupStates
<1>. QED  BY <1>1 DEF OwnerLooks, callVars

\* One step of the scheduler preserves CallsInductive.
LEMMA CallsStep ==
    ASSUME TypeOK, Inductive, ReportInductive, CallsInductive, [CallsNext]_callVars
    PROVE  CallsInductive'
<1>1. CASE UNCHANGED callVars
  BY <1>1, EnvironmentCalls DEF callVars
<1>2. CASE CallsNext
  <2>1. Next /\ OwnerLooks  BY <1>2, LooksAtIdle DEF CallsNext
  <2>2. CASE Start  BY <2>1, <2>2, StartCalls
  <2>3. CASE Observe  BY <2>1, <2>3, ObserveCalls
  <2>4. CASE Interval  BY <2>1, <2>4, IntervalCalls
  <2>5. CASE CleanUp  BY <2>1, <2>5, CleanUpCalls
  <2>6. CASE CallerStep \/ RunLoopStep \/ RunLoopEnd  BY <2>1, <2>6, CallerCalls
  <2>7. CASE \E a \in Actors : Runtime(a) \/ Body(a) \/ SpuriousWakeup(a)
    BY <2>1, <2>7, WorkerCalls
  <2>8. CASE Cancel \/ Expire \/ Dropped
    BY <2>1, <2>8, EnvironmentCalls DEF Dropped
  <2>. QED  BY <2>1, <2>2, <2>3, <2>4, <2>5, <2>6, <2>7, <2>8 DEF Next, Controller
<1>. QED  BY <1>1, <1>2

\* The scheduler with its owner's history is the scheduler.
LEMMA CallsAreTheScheduler == CallsSpec => Spec
<1>1. CallsInit => Init  BY DEF CallsInit
<1>2. [CallsNext]_callVars => [Next]_vars  BY DEF CallsNext, callVars
<1>. QED  BY <1>1, <1>2, PTL DEF CallsSpec, Spec

\* How far an execution may be from what its owner saw last, in every reachable
\* state (Execution and its report between two calls, schedule.rs).
THEOREM CallsInvariantHolds ==
    CallsSpec => [](CallsInductive /\ returned \in Interface!Executions)
<1>1. CallsInit => CallsInductive /\ returned \in Interface!Executions
  <2>1. ASSUME CallsInit PROVE returned \in Interface!Executions
    <3>1. TypeOK /\ returned = Summary  BY <2>1, InitStep DEF CallsInit
    <3>2. Summary \in Interface!Executions
      BY <3>1 DEF Summary, Interface!Executions, Interface!Cleanups, CleanupStates
    <3>. QED  BY <3>1, <3>2
  <2>. QED  BY <2>1, CallsInit1
<1>2. TypeOK /\ TypeOK' /\ Inductive /\ ReportInductive /\ CallsInductive
        /\ returned \in Interface!Executions /\ [CallsNext]_callVars
      => (CallsInductive /\ returned \in Interface!Executions)'
  BY CallsStep, LooksAtIdle, OwnerRemembers
<1>. QED
  BY <1>1, <1>2, CallsAreTheScheduler, TypesHold, InvariantHolds, ReportInvariantHolds, PTL
     DEF CallsSpec

\* Every call of the scheduler is one atomic step of the interface: start_schedule,
\* advance, finish and cleanup return what ExecutionInterface allows, whatever the
\* workers, the stop signals and the timeouts do while the call is in progress.
THEOREM CallsImplementInterface == CallsSpec => ImplementsInterface
<1>1. CallsInit => Interface!Init
  <2>. SUFFICES ASSUME CallsInit PROVE Interface!Init  OBVIOUS
  <2>1. TypeOK  BY InitStep DEF CallsInit
  <2>2. Len(plan) \in Nat  BY <2>1, PlanTypes
  <2>3. returned = Interface!Open  BY DEF CallsInit, Init, Summary
  <2>. QED  BY <2>2, <2>3 DEF CallsInit, Interface!Init
<1>2. TypeOK /\ Inductive /\ ReportInductive /\ CallsInductive
        /\ returned \in Interface!Executions /\ [CallsNext]_callVars
      => [Interface!Next]_<<Len(plan), started, returned>>
  BY StepRefines
<1>. QED
  BY <1>1, <1>2, CallsAreTheScheduler, CallsInvariantHolds, TypesHold, InvariantHolds,
     ReportInvariantHolds, PTL
     DEF CallsSpec, ImplementsInterface, Interface!Spec, Interface!vars
=============================================================================
