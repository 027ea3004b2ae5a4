------------------------------ MODULE Scheduler ------------------------------
(***************************************************************************)
(* One cooperative execution of src/src/schedule.rs: the controller        *)
(* thread that owns the Execution, the OS threads it spawned (one per      *)
(* actor), the mutex-protected State they share, and the condition         *)
(* variable `changed` they sleep on.                                       *)
(*                                                                         *)
(* Every critical section of the code is one action.  The one section that *)
(* runs application code, Execution::observe, is two actions: it holds the *)
(* mutex from the first to the second.                                     *)
(***************************************************************************)
EXTENDS Naturals, Sequences, FiniteSets

CONSTANTS
    Actors,       \* actor names declared by the adapter
    Checkpoints,  \* checkpoint names declared by the adapter
    Undeclared,   \* a name the adapter does not declare
    Plans,        \* schedules a caller may submit, admissible or not
    MaxEvidence,  \* evidence bound of one execution, one unit per retained row
    MaxCleanups   \* model bound: failed cleanup attempts explored

Done    == "$done"    \* COMPLETION
AtStart == "$start"

Names == Checkpoints \cup {Undeclared, Done, AtStart}

ASSUME NamesAssumption ==
    /\ Done \notin Checkpoints /\ AtStart \notin Checkpoints
    /\ Undeclared \notin Checkpoints

\* admit refuses an adapter without actors.
ASSUME ActorsAssumption == Actors # {}

ASSUME BoundsAssumption == MaxEvidence \in Nat /\ MaxCleanups \in Nat

ASSUME PlansAssumption ==
    Plans \subseteq Seq([actor : Actors \cup {Undeclared}, checkpoint : Names])

VARIABLES
    plan,               \* Execution.schedule.steps
    auto,               \* TRUE while run_schedule drives the execution
    \* the mutex-protected State
    phase,              \* Actor.phase ("Absent" before State.actors is filled)
    checkpoint,         \* Actor.checkpoint
    stopping,
    outcome, schedule_completed, cleanup, remaining_actors,
    events, observations, cleanup_attempts,
    evidence_bytes,
    \* the controller thread
    cpc,                \* where the controller is
    program,            \* TRUE once the factory returned a program
    handles,            \* actors whose JoinHandle is still owned
    joining,            \* the handles the controller is blocked joining
    next, closed,
    teardowns,          \* calls of Program.teardown so far
    \* the workers
    wpc,                \* where each worker thread is
    result,             \* what the worker closure returned to its epilogue
    asleep,             \* threads waiting in Condvar::wait
    \* the environment
    cancelled,          \* Cancellation flag
    expired             \* TRUE once Instant::now() >= Execution.deadline

actors  == <<phase, checkpoint>>
report  == <<schedule_completed, cleanup, remaining_actors, cleanup_attempts>>
rows    == <<events, observations, evidence_bytes>>
shared  == <<actors, report, rows>>
verdict == <<stopping, outcome>>
control == <<program, handles, joining, next, closed, teardowns>>
workers == <<wpc, result>>
threads == <<workers, asleep>>
world   == <<plan, auto, cancelled, expired>>
vars    == <<world, shared, verdict, cpc, control, threads>>

Failures == {"InvalidSchedule", "IncompatibleIdentity", "Cancelled", "TimedOut",
             "UnexpectedCheckpoint", "UncontrolledActor", "ApplicationFailed",
             "ObservationFailed", "ResourceFailed"}

(***************************************************************************)
(* Admission: the checks of `admit` that depend on the plan.               *)
(***************************************************************************)
\* encode_schedule: "$start" is not an identifier, "$done" is let through.
Encodable(p) == \A i \in DOMAIN p : p[i].checkpoint # AtStart

Admissible(p) ==
    /\ \A i \in DOMAIN p : p[i].actor \in Actors
                           /\ p[i].checkpoint \in Checkpoints \cup {Done}
    /\ \A i, j \in DOMAIN p :
          i < j /\ p[i].checkpoint = Done => p[j].actor # p[i].actor
    /\ \A a \in Actors : \E i \in DOMAIN p : p[i] = [actor |-> a, checkpoint |-> Done]

Current == plan[next + 1]     \* the interval advance is executing

Init ==
    /\ plan \in Plans
    /\ auto \in BOOLEAN
    /\ phase = [a \in Actors |-> "Absent"]
    /\ checkpoint = [a \in Actors |-> AtStart]
    /\ stopping = FALSE
    /\ outcome = "Completed"
    /\ schedule_completed = FALSE
    /\ cleanup = "NotStarted"
    /\ remaining_actors = {}
    /\ events = <<>> /\ observations = <<>> /\ cleanup_attempts = <<>>
    /\ evidence_bytes = 0
    /\ cpc = "admit"
    /\ program = FALSE
    /\ handles = {} /\ joining = {}
    /\ next = 0
    /\ closed = FALSE
    /\ teardowns = 0
    /\ wpc = [a \in Actors |-> "none"]
    /\ result = [a \in Actors |-> "ok"]
    /\ asleep = {}
    /\ cancelled = FALSE
    /\ expired = FALSE

(***************************************************************************)
(* Shared helpers.                                                         *)
(***************************************************************************)
\* The first failure is kept; every failure stops the workers.
Fail(kind) ==
    /\ outcome' = IF outcome = "Completed" THEN kind ELSE outcome
    /\ stopping' = TRUE

NoFailure == UNCHANGED verdict

NotifyAll_Forgotten == UNCHANGED asleep
NotifyAll == asleep' = {}

\* The mutex is free except while the observer callback runs.
LockFree == cpc # "observing"

Fits_OffByOne == evidence_bytes <= MaxEvidence
Fits == evidence_bytes + 1 <= MaxEvidence

\* The row is charged before the bound is tested, and dropped when it is over.
RetainEvent(kind, a) ==
    /\ evidence_bytes' = evidence_bytes + 1
    /\ events' = IF Fits
                 THEN Append(events, [kind |-> kind, step |-> next, actor |-> a,
                                      checkpoint |-> checkpoint[a]])
                 ELSE events

\* wait_for: the order of the tests decides which failure is reported.
WaitVerdict_NoDeadline(ready) ==
    CASE stopping               -> "stopped"
      [] ~stopping /\ cancelled -> "Cancelled"
      [] OTHER                  -> IF ready THEN "ready" ELSE "again"
WaitVerdict(ready) ==
    CASE stopping               -> "stopped"
      [] ~stopping /\ cancelled -> "Cancelled"
      [] ~stopping /\ ~cancelled /\ expired -> "TimedOut"
      [] OTHER                  -> IF ready THEN "ready" ELSE "again"

WaitFor(ready, onReady, otherwise) ==
    /\ WaitVerdict(ready) # "again"
    /\ IF WaitVerdict(ready) \in {"Cancelled", "TimedOut"}
       THEN Fail(WaitVerdict(ready)) /\ NotifyAll
       ELSE NoFailure /\ UNCHANGED asleep
    /\ cpc' = IF WaitVerdict(ready) = "ready" THEN onReady ELSE otherwise

(***************************************************************************)
(* start_schedule.                                                         *)
(***************************************************************************)
\* Reentry, cancellation and admission are decided before the factory runs;
\* a refused execution is closed at once and owns nothing.
Refusal(reentry, identityMatches, boundsValid) ==
    CASE reentry                 -> "InvalidSchedule"
      [] ~reentry /\ cancelled   -> "Cancelled"
      [] OTHER -> IF ~Encodable(plan) THEN "InvalidSchedule"
                  ELSE IF ~identityMatches THEN "IncompatibleIdentity"
                  ELSE IF boundsValid /\ Admissible(plan) THEN "none"
                  ELSE "InvalidSchedule"

Admit(reentry, identityMatches, boundsValid) ==
    LET refusal == Refusal(reentry, identityMatches, boundsValid) IN
    /\ cpc = "admit"
    /\ IF refusal = "none"
       THEN NoFailure /\ cpc' = "acquire" /\ UNCHANGED closed
       ELSE Fail(refusal) /\ cpc' = "idle" /\ closed' = TRUE
    /\ UNCHANGED <<world, shared, threads, program, handles, joining, next,
                   teardowns>>

\* The factory callback: it refuses, or returns a program whose worker set is
\* the declared one or is not.
FactoryRefuses ==
    /\ cpc = "acquire"
    /\ Fail("ApplicationFailed")
    /\ closed' = TRUE
    /\ cpc' = "idle"
    /\ UNCHANGED <<world, shared, threads, program, handles, joining, next,
                   teardowns>>

FactoryReturns(workerSetMatches) ==
    /\ cpc = "acquire"
    /\ program' = TRUE
    /\ IF workerSetMatches
       THEN /\ phase' = [a \in Actors |-> "Starting"]
            /\ cpc' = "spawn"
            /\ NoFailure
       ELSE /\ Fail("ApplicationFailed")
            /\ cpc' = "cleanup"
            /\ UNCHANGED phase
    /\ UNCHANGED <<world, report, rows, threads, checkpoint, handles, joining,
                   next, closed, teardowns>>

\* One thread per declared actor; the declaration order is any order.
Spawn(a) ==
    /\ cpc = "spawn"
    /\ wpc[a] = "none"
    /\ wpc' = [wpc EXCEPT ![a] = "entry"]
    /\ handles' = handles \cup {a}
    /\ cpc' = IF handles' = Actors THEN "ready" ELSE "spawn"
    /\ UNCHANGED <<world, shared, verdict, program, joining, next, closed,
                   teardowns, result, asleep>>

\* The operating system refuses a thread: the loop breaks, nobody is notified.
SpawnFails ==
    /\ cpc = "spawn"
    /\ Fail("ResourceFailed")
    /\ cpc' = "ready"
    /\ UNCHANGED <<world, shared, control, threads>>

AwaitReady ==
    /\ cpc = "ready"
    /\ WaitFor(\A a \in Actors : phase[a] = "Parked", "observe", "settle")
    /\ UNCHANGED <<world, shared, control, workers>>

(***************************************************************************)
(* Execution::observe: the mutex is held from ObserveBegin to ObserveEnd.  *)
(***************************************************************************)
ObserveBegin ==
    /\ cpc = "observe"
    /\ IF stopping
       THEN NoFailure /\ cpc' = "settle"
       ELSE IF \E a \in Actors : phase[a] \in {"Running", "Starting"}
       THEN Fail("ObservationFailed") /\ cpc' = "settle"
       ELSE NoFailure /\ cpc' = "observing"
    /\ UNCHANGED <<world, shared, control, threads>>

\* The callback returned a value that fits the bounds, one that does not, or
\* an error; cancellation and the deadline are looked at before the value.
ObserveEnd(valid) ==
    /\ cpc = "observing"
    /\ IF cancelled THEN Fail("Cancelled")
       ELSE IF expired THEN Fail("TimedOut")
       ELSE IF ~valid \/ ~Fits THEN Fail("ObservationFailed")
       ELSE NoFailure
    /\ IF stopping'
       THEN NotifyAll /\ UNCHANGED <<observations, evidence_bytes>>
       ELSE /\ observations' = Append(observations, next)
            /\ evidence_bytes' = evidence_bytes + 1
            /\ UNCHANGED asleep
    /\ cpc' = "settle"
    /\ UNCHANGED <<world, actors, report, control, workers, events>>

(***************************************************************************)
(* Execution::advance.  `requested` is the interval the caller names.      *)
(***************************************************************************)
AdvanceRefusal(requested) ==
    CASE cancelled -> "Cancelled"
      [] ~cancelled /\ expired -> "TimedOut"
      [] OTHER -> IF next = Len(plan) \/ Current # requested THEN "InvalidSchedule"
                  ELSE IF phase[requested.actor] # "Parked" THEN "UnexpectedCheckpoint"
                  ELSE "none"

Advance(requested) ==
    /\ cpc = "idle" /\ ~closed /\ outcome = "Completed"
    /\ NotifyAll
    /\ IF AdvanceRefusal(requested) # "none"
       THEN Fail(AdvanceRefusal(requested)) /\ UNCHANGED rows
       ELSE /\ RetainEvent("permit", requested.actor) /\ UNCHANGED observations
            /\ IF Fits THEN NoFailure ELSE Fail("ResourceFailed")
    /\ IF stopping'
       THEN cpc' = "settle" /\ UNCHANGED phase
       ELSE cpc' = "awaiting" /\ phase' = [phase EXCEPT ![requested.actor] = "Running"]
    /\ UNCHANGED <<world, report, control, workers, checkpoint>>

AwaitArrival ==
    /\ cpc = "awaiting"
    /\ WaitFor(phase[Current.actor] # "Running", "arrived", "settle")
    /\ UNCHANGED <<world, shared, control, workers>>

ArrivedElsewhere_Ignored == FALSE
ArrivedElsewhere == checkpoint[Current.actor] # Current.checkpoint

ActorFinished_NotLookedAt == FALSE
ActorFinished == phase[Current.actor] = "Finished"

\* The mutex was released since wait_for saw the arrival.
Arrive ==
    /\ cpc = "arrived"
    /\ RetainEvent("arrival", Current.actor)
    /\ IF ~Fits THEN Fail("ResourceFailed")
       ELSE IF ArrivedElsewhere THEN Fail("UnexpectedCheckpoint")
       ELSE NoFailure
    /\ IF ActorFinished
       THEN cpc' = "joining" /\ joining' = handles \cap {Current.actor}
       ELSE cpc' = "checking" /\ UNCHANGED joining
    /\ UNCHANGED <<world, actors, report, threads, observations, program,
                   handles, next, closed, teardowns>>

\* JoinHandle::join returns only when the thread, its thread-local destructors
\* included, is gone; no deadline bounds it.
Joined_Detaches == TRUE
Joined == \A a \in joining : wpc[a] = "gone"

ReleaseJoined_KeepsJoining == handles' = handles \ joining /\ UNCHANGED joining
ReleaseJoined == handles' = handles \ joining /\ joining' = {}

JoinFinished(exitPanicked) ==
    /\ cpc = "joining"
    /\ Joined
    /\ ReleaseJoined
    /\ IF exitPanicked THEN Fail("ApplicationFailed") ELSE NoFailure
    /\ cpc' = "checking"
    /\ UNCHANGED <<world, shared, threads, program, next, closed, teardowns>>

Check ==
    /\ cpc = "checking"
    /\ IF outcome = "Completed"
       THEN next' = next + 1 /\ cpc' = "observe"
       ELSE cpc' = "settle" /\ UNCHANGED next
    /\ UNCHANGED <<world, shared, verdict, threads, program, handles, joining,
                   closed, teardowns>>

\* The end of start_schedule and of advance: clean up after a failure, complete
\* the plan, or return to the caller.  (An admitted plan is not empty, so the
\* end of start_schedule never takes the second branch.)
AfterCall_NoCleanup ==
    IF outcome = "Completed" /\ next = Len(plan) THEN "completing" ELSE "idle"
AfterCall_OneShort ==
    IF outcome # "Completed" THEN "cleanup"
    ELSE IF next + 1 = Len(plan) THEN "completing"
    ELSE "idle"
AfterCall ==
    IF outcome # "Completed" THEN "cleanup"
    ELSE IF next = Len(plan) THEN "completing"
    ELSE "idle"

Settle ==
    /\ cpc = "settle"
    /\ cpc' = AfterCall
    /\ UNCHANGED <<world, shared, verdict, control, threads>>

Complete ==
    /\ cpc = "completing"
    /\ schedule_completed' = TRUE
    /\ cpc' = "cleanup"
    /\ UNCHANGED <<world, actors, rows, verdict, control, threads, cleanup,
                   remaining_actors, cleanup_attempts>>

(***************************************************************************)
(* Execution::finish and Execution::cleanup.                               *)
(***************************************************************************)
MayCleanUp_Reopens == cpc = "idle" /\ Len(cleanup_attempts) < MaxCleanups
MayCleanUp == cpc = "idle" /\ ~closed /\ Len(cleanup_attempts) < MaxCleanups

Finish ==
    /\ MayCleanUp
    /\ IF next # Len(plan) THEN Fail("InvalidSchedule") ELSE NoFailure
    /\ cpc' = "cleanup"
    /\ UNCHANGED <<world, shared, control, threads>>

CallCleanup ==
    /\ MayCleanUp
    /\ cpc' = "cleanup"
    /\ UNCHANGED <<world, shared, verdict, control, threads>>

StopsEarly == outcome = "Completed" /\ ~schedule_completed

CleanupBegin ==
    /\ cpc = "cleanup"
    /\ IF StopsEarly THEN Fail("Cancelled") ELSE stopping' = TRUE /\ UNCHANGED outcome
    /\ NotifyAll
    /\ cpc' = "draining"
    /\ UNCHANGED <<world, shared, control, workers>>

\* JoinHandle::is_finished: the closure has returned and dropped its result;
\* thread-local destructors may still be running.
IsFinished(a) == wpc[a] \in {"destructors", "gone"}

DrainOver_NoTimeout(timedOut) == \A a \in handles : IsFinished(a)
DrainOver(timedOut) == timedOut \/ \A a \in handles : IsFinished(a)

\* The polling loop ends when every owned thread is finished, or at the
\* cleanup timeout; only the finished threads are then joined.
DrainEnd(timedOut) ==
    /\ cpc = "draining"
    /\ DrainOver(timedOut)
    /\ joining' = {a \in handles : IsFinished(a)}
    /\ cpc' = "collecting"
    /\ UNCHANGED <<world, shared, verdict, threads, program, handles, next,
                   closed, teardowns>>

Attempt(status, remaining) ==
    /\ cleanup' = status
    /\ remaining_actors' = remaining
    /\ cleanup_attempts' = Append(cleanup_attempts,
                                 [cleanup |-> status, remaining |-> remaining])

Collect ==
    /\ cpc = "collecting"
    /\ Joined
    /\ ReleaseJoined
    /\ IF handles' # {}
       THEN Attempt("Incomplete", handles') /\ cpc' = "idle"
       ELSE cpc' = "tearing"
            /\ UNCHANGED <<cleanup, remaining_actors, cleanup_attempts>>
    /\ UNCHANGED <<world, actors, rows, verdict, threads, schedule_completed,
                   program, next, closed, teardowns>>

TearDown(succeeds) ==
    /\ cpc = "tearing"
    /\ teardowns' = IF program THEN teardowns + 1 ELSE teardowns
    /\ closed' = TRUE
    /\ Attempt(IF ~program THEN "NotStarted"
               ELSE IF succeeds THEN "Confirmed" ELSE "TeardownFailed", {})
    /\ cpc' = "idle"
    /\ UNCHANGED <<world, actors, rows, verdict, threads, schedule_completed,
                   program, handles, joining, next>>

(***************************************************************************)
(* Drop for Execution: stop, join every thread, tear down if still open.   *)
(***************************************************************************)
DropBegin ==
    /\ cpc = "idle"
    /\ ~auto
    /\ stopping' = TRUE
    /\ NotifyAll
    /\ joining' = handles
    /\ cpc' = "dropping"
    /\ UNCHANGED <<world, shared, workers, outcome, program, handles, next,
                   closed, teardowns>>

StillOpen_NotTested == program
StillOpen == ~closed /\ program

DropEnd ==
    /\ cpc = "dropping"
    /\ Joined
    /\ ReleaseJoined
    /\ teardowns' = IF StillOpen THEN teardowns + 1 ELSE teardowns
    /\ cpc' = "dropped"
    /\ UNCHANGED <<world, shared, verdict, threads, program, next, closed>>

(***************************************************************************)
(* The caller: run_schedule's loop, or a caller that may call anything.    *)
(***************************************************************************)
RunLoopStep ==
    /\ auto
    /\ cpc = "idle" /\ outcome = "Completed" /\ ~closed
    /\ next < Len(plan) /\ Advance(Current)

RunLoopEnd ==
    /\ auto
    /\ cpc = "idle"
    /\ outcome # "Completed" \/ closed \/ next = Len(plan)
    /\ auto' = FALSE
    /\ UNCHANGED <<shared, verdict, control, threads, plan, cancelled, expired, cpc>>

CallerStep ==
    /\ ~auto
    /\ \/ \E i \in DOMAIN plan : Advance(plan[i])
       \/ Finish
       \/ CallCleanup
       \/ DropBegin

(***************************************************************************)
(* The workers.  Closure prologue, application body, Checkpoint::arrive,   *)
(* closure epilogue, and the end of the thread.                            *)
(***************************************************************************)
\* First critical section of the closure: the worker parks itself and waits
\* for its first permit, unless the execution is already stopping.
Enter(a) ==
    /\ LockFree
    /\ wpc[a] = "entry"
    /\ phase' = [phase EXCEPT ![a] = "Parked"]
    /\ IF stopping
       THEN wpc' = [wpc EXCEPT ![a] = "epilogue"] /\ asleep' = {}
       ELSE wpc' = [wpc EXCEPT ![a] = "startWait"] /\ asleep' = {a}
    /\ UNCHANGED <<world, report, rows, verdict, control, checkpoint, cpc,
                   result>>

Waiting(a) == wpc[a] \in {"startWait", "arriveWait"}

MayProceed_IfNotWhile(a) == TRUE
MayProceed_IgnoresStop(a) == phase[a] = "Running"
MayProceed(a) == stopping \/ phase[a] = "Running"

\* A woken thread holds the mutex again and tests the loop condition.  In the
\* prologue a stopped worker skips its body; in arrive it gets an error and its
\* body goes on.
Recheck(a) ==
    /\ LockFree
    /\ Waiting(a) /\ a \notin asleep
    /\ IF MayProceed(a)
       THEN /\ wpc' = [wpc EXCEPT ![a] = IF stopping /\ wpc[a] = "startWait"
                                         THEN "epilogue" ELSE "body"]
            /\ UNCHANGED asleep
       ELSE asleep' = asleep \cup {a} /\ UNCHANGED wpc
    /\ UNCHANGED <<world, shared, verdict, control, cpc, result>>

SpuriousWakeup(a) ==
    /\ a \in asleep
    /\ asleep' = asleep \ {a}
    /\ UNCHANGED <<world, shared, verdict, control, workers, cpc>>

\* Checkpoint::arrive called by the actor's own thread.
ArriveAt(a, name) ==
    /\ LockFree
    /\ wpc[a] = "body"
    /\ IF phase[a] # "Running"
       THEN /\ Fail("UncontrolledActor") /\ NotifyAll
            /\ UNCHANGED <<actors, wpc>>
       ELSE IF stopping
       THEN NoFailure /\ UNCHANGED <<actors, wpc, asleep>>
       ELSE IF name \notin Checkpoints
       THEN /\ Fail("UnexpectedCheckpoint") /\ NotifyAll
            /\ UNCHANGED <<actors, wpc>>
       ELSE /\ checkpoint' = [checkpoint EXCEPT ![a] = name]
            /\ phase' = [phase EXCEPT ![a] = "Parked"]
            /\ wpc' = [wpc EXCEPT ![a] = "arriveWait"]
            /\ asleep' = {a}
            /\ NoFailure
    /\ UNCHANGED <<world, report, rows, control, cpc, result>>

\* Checkpoint::arrive called through the same &Checkpoint by another thread,
\* which the actor's body has in scope: also while the actor itself is parked.
ForeignArrive(a) ==
    /\ LockFree
    /\ wpc[a] \in {"body", "arriveWait"}
    /\ Fail("UncontrolledActor")
    /\ NotifyAll
    /\ UNCHANGED <<world, shared, control, workers, cpc>>

\* The body returns Ok, or Err or a panic.
BodyEnds(a, r) ==
    /\ wpc[a] = "body"
    /\ wpc' = [wpc EXCEPT ![a] = "epilogue"]
    /\ result' = [result EXCEPT ![a] = r]
    /\ UNCHANGED <<world, shared, verdict, control, cpc, asleep>>

Epilogue(a) ==
    /\ LockFree
    /\ wpc[a] = "epilogue"
    /\ IF ~stopping /\ result[a] = "failed" THEN Fail("ApplicationFailed") ELSE NoFailure
    /\ phase' = [phase EXCEPT ![a] = "Finished"]
    /\ checkpoint' = [checkpoint EXCEPT ![a] = Done]
    /\ NotifyAll
    /\ wpc' = [wpc EXCEPT ![a] = "exiting"]
    /\ UNCHANGED <<world, report, rows, control, cpc, result>>

ThreadEnds(a) ==
    /\ wpc[a] \in {"exiting", "destructors"}
    /\ wpc' = [wpc EXCEPT ![a] = IF wpc[a] = "exiting" THEN "destructors" ELSE "gone"]
    /\ UNCHANGED <<world, shared, verdict, control, cpc, result, asleep>>

(***************************************************************************)
(* The environment.                                                        *)
(***************************************************************************)
Cancel == ~cancelled /\ cancelled' = TRUE
          /\ UNCHANGED <<shared, verdict, control, threads, plan, auto, cpc,
                         expired>>

Expire == ~expired /\ expired' = TRUE
          /\ UNCHANGED <<shared, verdict, control, threads, plan, auto, cpc,
                         cancelled>>

(***************************************************************************)
(* The specification.                                                      *)
(***************************************************************************)
\* What the controller thread does inside a call, once the call has begun.
Start ==
    \/ \E reentry, identityMatches, boundsValid \in BOOLEAN :
          Admit(reentry, identityMatches, boundsValid)
    \/ FactoryRefuses
    \/ \E workerSetMatches \in BOOLEAN : FactoryReturns(workerSetMatches)
    \/ \E a \in Actors : Spawn(a)
    \/ SpawnFails
    \/ AwaitReady

Observe == ObserveBegin \/ \E valid \in BOOLEAN : ObserveEnd(valid)

Interval ==
    \/ AwaitArrival
    \/ Arrive
    \/ \E exitPanicked \in BOOLEAN : JoinFinished(exitPanicked)
    \/ Check
    \/ Settle
    \/ Complete

CleanUp ==
    \/ CleanupBegin
    \/ \E timedOut \in BOOLEAN : DrainEnd(timedOut)
    \/ Collect
    \/ \E succeeds \in BOOLEAN : TearDown(succeeds)
    \/ DropEnd

Controller == Start \/ Observe \/ Interval \/ CleanUp \/ RunLoopStep \/ RunLoopEnd

\* What the runtime does for a worker without its application's help.
Runtime(a) == Enter(a) \/ Recheck(a) \/ Epilogue(a) \/ ThreadEnds(a)

\* What the application does on a worker thread.
Body(a) ==
    \/ \E name \in Names : ArriveAt(a, name)
    \/ ForeignArrive(a)
    \/ \E r \in {"ok", "failed"} : BodyEnds(a, r)

\* The Execution is dropped and nothing of it is left to run.
Dropped == cpc = "dropped" /\ UNCHANGED vars

Next ==
    \/ Controller
    \/ CallerStep
    \/ \E a \in Actors : Runtime(a) \/ Body(a) \/ SpuriousWakeup(a)
    \/ Cancel
    \/ Expire
    \/ Dropped

Spec == Init /\ [][Next]_vars

\* Coordinator threads are scheduled and their callbacks return, the clock
\* advances, and runnable workers are scheduled.  Nothing is assumed of bodies.
FairSpec ==
    /\ Spec
    /\ WF_vars(Controller)
    /\ WF_vars(Expire)
    /\ \A a \in Actors : WF_vars(Runtime(a))

(***************************************************************************)
(* Properties.                                                             *)
(***************************************************************************)
Rows == [kind : {"permit", "arrival"}, step : Nat, actor : Actors, checkpoint : Names]

CleanupStates == {"NotStarted", "Confirmed", "Incomplete", "TeardownFailed"}

AttemptRows == [cleanup : CleanupStates, remaining : SUBSET Actors]

ReportTypes ==
    /\ outcome \in Failures \cup {"Completed"}
    /\ schedule_completed \in BOOLEAN
    /\ cleanup \in CleanupStates
    /\ remaining_actors \subseteq Actors
    /\ cleanup_attempts \in Seq(AttemptRows)

RowTypes ==
    /\ events \in Seq(Rows)
    /\ observations \in Seq(Nat)
    /\ evidence_bytes \in Nat

ControllerTypes ==
    /\ cpc \in {"admit", "acquire", "spawn", "ready", "observe", "observing",
                "awaiting", "arrived", "joining", "checking", "settle",
                "completing", "cleanup", "draining", "collecting", "tearing",
                "idle", "dropping", "dropped"}
    /\ program \in BOOLEAN
    /\ handles \subseteq Actors /\ joining \subseteq handles
    /\ next \in Nat /\ closed \in BOOLEAN /\ teardowns \in Nat

WorkerTypes ==
    /\ phase \in [Actors -> {"Absent", "Starting", "Parked", "Running", "Finished"}]
    /\ checkpoint \in [Actors -> Names]
    /\ wpc \in [Actors -> {"none", "entry", "startWait", "body", "arriveWait",
                           "epilogue", "exiting", "destructors", "gone"}]
    /\ result \in [Actors -> {"ok", "failed"}]
    /\ asleep \subseteq Actors

WorldTypes ==
    /\ plan \in Plans
    /\ auto \in BOOLEAN /\ stopping \in BOOLEAN
    /\ cancelled \in BOOLEAN /\ expired \in BOOLEAN

\* The types of the variables; a controller joins only handles it owns.
TypeOK == WorldTypes /\ ReportTypes /\ RowTypes /\ ControllerTypes /\ WorkerTypes

\* While the observer callback runs no worker is inside application code: each
\* one is parked at a checkpoint, or its thread is gone (destructors included)
\* and joined.
ObserverQuiescence ==
    cpc = "observing" =>
        \A a \in Actors : \/ Waiting(a) /\ phase[a] = "Parked"
                          \/ wpc[a] = "gone" /\ a \notin handles

\* Until the execution is stopped, a worker runs application code only inside
\* the interval advance has granted to it, so at most one worker does.
ExclusiveInterval ==
    ~stopping => \A a \in Actors :
        wpc[a] \in {"body", "epilogue"} \/ phase[a] = "Running"
            => cpc = "awaiting" /\ a = Current.actor

\* An execution never detaches a thread: whatever was spawned and is not gone
\* is still owned through its handle, to the end of drop.
OwnsEveryThread ==
    \A a \in Actors : wpc[a] \in {"none", "gone"} \/ a \in handles

\* Teardown runs at most once, by cleanup or by drop, and only when every
\* thread the execution spawned has been joined.
TeardownOnceAfterJoin ==
    /\ teardowns <= 1
    /\ cpc = "tearing" \/ teardowns = 1 =>
          handles = {} /\ \A a \in Actors : wpc[a] \in {"none", "gone"}

\* Nobody sleeps through its permit, and once a call has returned or is
\* waiting for the threads, nobody sleeps through the stop: the failure paths
\* that do not notify all run into one that does.
NoLostWakeup ==
    /\ \A a \in asleep : Waiting(a) /\ phase[a] = "Parked"
    /\ stopping /\ cpc \in {"idle", "draining", "collecting", "dropping"} => asleep = {}

Passed == outcome = "Completed" /\ schedule_completed /\ cleanup = "Confirmed"

\* Report::passed means what a caller reads in it: every interval of the plan
\* was granted and arrived where the plan says, in order, the state was
\* observed before the first and after each, every thread was joined and the
\* program was torn down once.
PassedRanThePlan ==
    Passed =>
        /\ Len(events) = 2 * Len(plan)
        /\ \A k \in DOMAIN events :
              LET i == (k + 1) \div 2 IN
              /\ events[k].kind = IF k % 2 = 1 THEN "permit" ELSE "arrival"
              /\ events[k].step = i - 1 /\ events[k].actor = plan[i].actor
        /\ \A i \in DOMAIN plan : events[2 * i].checkpoint = plan[i].checkpoint
        /\ observations = [k \in 1..(Len(plan) + 1) |-> k - 1]
        /\ closed /\ handles = {} /\ \A a \in Actors : wpc[a] = "gone"
        /\ teardowns = 1

\* The receipt's evidence agrees with the progress it reports, also when the
\* execution failed: rows follow the plan, an arrival somewhere else is the
\* last row of a failed execution, and between calls the counts match `next`.
EvidenceFollowsPlan ==
    /\ \A k \in DOMAIN events :
          LET i == (k + 1) \div 2 IN
          /\ events[k].kind = IF k % 2 = 1 THEN "permit" ELSE "arrival"
          /\ events[k].step = i - 1 /\ events[k].actor = plan[i].actor
          /\ k % 2 = 0 /\ events[k].checkpoint # plan[i].checkpoint
                => k = Len(events) /\ outcome # "Completed"
    /\ \A k \in DOMAIN observations : observations[k] = k - 1
    /\ cpc = "idle" /\ outcome = "Completed"
          => Len(events) = 2 * next /\ Len(observations) = next + 1

\* The retained rows stay within the bound, and an execution that lost a row to
\* it has failed.
EvidenceWithinBound ==
    /\ Len(events) + Len(observations) <= MaxEvidence
    /\ evidence_bytes # Len(events) + Len(observations) => outcome # "Completed"

\* A completed plan is never left with threads to clean up, and its outcome is
\* never turned into a failure, nor does anything late change a closed report.
VerdictIsFinal ==
    [][/\ schedule_completed => outcome' = outcome /\ cleanup' # "Incomplete"
       /\ closed => UNCHANGED <<report, rows, outcome>>]_vars

\* When a call has returned with a failure the execution is closed or has
\* asked every worker to stop, and its report names exactly the threads it
\* still owns.  The one exception is an uncontrolled arrival between two calls,
\* which the next call returns without cleaning up.
FailureWasCleanedUp ==
    cpc = "idle" =>
        /\ outcome \notin {"Completed", "UncontrolledActor"}
              => closed \/ cleanup = "Incomplete"
        /\ remaining_actors = IF cleanup = "Incomplete" THEN handles ELSE {}

\* Workers are stopped only for a reason the report states, until the caller
\* drops the execution.
StopIsExplained ==
    stopping /\ cpc \notin {"dropping", "dropped"}
        => outcome # "Completed" \/ schedule_completed

\* Whatever the workers do, start_schedule, advance, finish and cleanup return.
CallsReturn ==
    cpc \notin {"idle", "dropping", "dropped"} ~> cpc = "idle"

\* Stopped bodies return: what drop, which joins without any timeout, needs.
Cooperation ==
    \A a \in Actors : WF_vars(stopping /\ \E r \in {"ok", "failed"} : BodyEnds(a, r))

\* If stopped bodies return, dropping an execution comes to an end: every stop
\* has reached every worker, so no thread that drop joins sleeps for ever.
DropReturns == Cooperation => (cpc = "dropping" ~> cpc = "dropped")
=============================================================================
