---------------------------- MODULE SchedulerCalls ----------------------------
(***************************************************************************)
(* Scheduler with the history its owner keeps: what the execution looked   *)
(* like when the last call returned.  With it the detailed scheduler       *)
(* implements ExecutionInterface, where every call is one step.            *)
(***************************************************************************)
EXTENDS Scheduler

VARIABLES
    started,    \* start_schedule has returned
    returned    \* the report as of the last moment no call was in progress

callVars == <<vars, started, returned>>

Summary == [failed |-> outcome # "Completed", completed |-> schedule_completed,
            cleanup |-> cleanup, closed |-> closed, next |-> next]

CallsInit == Init /\ started = FALSE /\ returned = Summary

CallsNext ==
    /\ Next
    /\ started' = (started \/ cpc' = "idle")
    /\ returned' = IF cpc' = "idle" THEN Summary' ELSE returned

CallsSpec == CallsInit /\ [][CallsNext]_callVars

Interface == INSTANCE ExecutionInterface
                 WITH length <- Len(plan), x <- returned

\* Every call of the scheduler, with all its interleavings of workers, stops
\* and timeouts, gives its owner one of the results the interface names.
ImplementsInterface == Interface!Spec

(***************************************************************************)
(* The inductive invariant behind the refinement: how far the execution    *)
(* may have moved from what its owner saw last, where the controller is.   *)
(***************************************************************************)
Interrupted == {"idle", "dropping", "dropped"}    \* no call is in progress

\* A call has counted its interval, and nothing has failed before it did.
Counted == started /\ ~returned.failed /\ next = returned.next + 1

BetweenCalls ==
    /\ started \in BOOLEAN
    /\ cpc = "idle" => returned = Summary
    /\ cpc \in Interrupted \cup {"awaiting", "arrived", "joining", "checking", "completing"}
          => started
    /\ cpc \in {"admit", "acquire", "spawn", "ready"} => ~started
    /\ ~started => returned = Interface!Open /\ next = 0

InsideACall ==
    cpc \notin Interrupted =>
        /\ ~closed /\ ~returned.closed /\ ~returned.completed /\ returned.cleanup = cleanup
        /\ returned.failed => outcome # "Completed"
        /\ next = returned.next \/ Counted
        /\ cpc \in {"awaiting", "arrived", "joining", "checking"}
              => next = returned.next /\ ~returned.failed
        /\ cpc = "completing" \/ schedule_completed => Counted
        /\ started /\ cpc \in {"observe", "observing"} => Counted
        /\ started /\ cpc = "settle" /\ outcome = "Completed" => Counted

\* Only an interval takes a worker to a checkpoint.
NobodyArrivedYet ==
    \A a \in Actors : wpc[a] = "arriveWait" /\ next = 0
        => stopping \/ cpc \in {"awaiting", "arrived", "joining", "checking"}

CallsInductive == BetweenCalls /\ InsideACall /\ NobodyArrivedYet
=============================================================================
