-------------------------- MODULE ExecutionInterface --------------------------
(***************************************************************************)
(* What the owner of a schedule::Execution can see of it: one value per    *)
(* call, with every call of the public interface atomic.  It is the        *)
(* abstract specification that Scheduler implements (SchedulerCalls states *)
(* the refinement) and the execution that BindingSession owns.             *)
(***************************************************************************)
EXTENDS Naturals

VARIABLES
    length,     \* Schedule.steps.len() of the submitted plan, fixed
    started,    \* start_schedule has returned
    x           \* the execution as its last report shows it

vars == <<length, started, x>>

Cleanups == {"NotStarted", "Confirmed", "Incomplete", "TeardownFailed"}

\* x: outcome # Completed, schedule_completed, cleanup, Execution.closed and .next
Executions == [failed : BOOLEAN, completed : BOOLEAN, cleanup : Cleanups,
               closed : BOOLEAN, next : Nat]

Open == [failed |-> FALSE, completed |-> FALSE, cleanup |-> "NotStarted",
         closed |-> FALSE, next |-> 0]

Failed(e) == [e EXCEPT !.failed = TRUE]

\* A cleanup attempt closes the execution, or leaves a failed one incomplete.
\* A completed plan has no thread left that could make cleanup incomplete.
CleanedUp(e) ==
    {[e EXCEPT !.cleanup = c, !.closed = TRUE] : c \in {"Confirmed", "TeardownFailed"}}
        \cup IF e.completed THEN {} ELSE {[e EXCEPT !.cleanup = "Incomplete"]}

\* start_schedule: refused before anything is acquired, failed and cleaned up,
\* or waiting for the first interval.
StartResults ==
    {[Failed(Open) EXCEPT !.closed = TRUE]} \cup CleanedUp(Failed(Open)) \cup {Open}

\* Execution::advance: one interval further, or failed before or after the
\* interval was counted; the last interval completes the plan and cleans up.
AdvanceResults(e) ==
    LET further == [e EXCEPT !.next = @ + 1] IN
    IF e.closed \/ e.failed THEN {e}
    ELSE CleanedUp(Failed(e)) \cup
         (IF e.next >= length THEN {}
          ELSE CleanedUp(Failed(further)) \cup
               IF further.next = length
               THEN CleanedUp([further EXCEPT !.completed = TRUE])
               ELSE {further})

\* Execution::finish and Execution::cleanup: stopping early is a failure.
FinishResults(e) ==
    IF e.closed THEN {e}
    ELSE CleanedUp(IF e.completed THEN e ELSE Failed(e))

\* Between two calls a thread in the scope of a parked worker may call arrive.
LateResults(e) ==
    IF e.closed \/ e.next = 0 THEN {e} ELSE {e, Failed(e)}

Init == length \in Nat /\ started = FALSE /\ x = Open

Start   == ~started /\ started' = TRUE /\ x' \in StartResults
Advance == started /\ x' \in AdvanceResults(x) /\ UNCHANGED started
Finish  == started /\ x' \in FinishResults(x) /\ UNCHANGED started
Late    == started /\ x' \in LateResults(x) /\ UNCHANGED started

Next == (Start \/ Advance \/ Finish \/ Late) /\ UNCHANGED length

Spec == Init /\ [][Next]_vars
=============================================================================
