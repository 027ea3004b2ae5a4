-------------------------- MODULE SchedulerInvariant --------------------------
(***************************************************************************)
(* The inductive invariant behind the safety properties of Scheduler.      *)
(* None of ObserverQuiescence, ExclusiveInterval, TeardownOnceAfterJoin    *)
(* and NoLostWakeup is inductive as it stands: each needs what the other   *)
(* conjuncts say of the controller's place and of the workers' threads.    *)
(***************************************************************************)
EXTENDS Scheduler

\* What the shared phase of an actor says about its thread.  A body outlives
\* its permit only when the execution is stopping.
ThreadPhase ==
    \A a \in Actors :
        /\ wpc[a] = "none" => phase[a] \in {"Absent", "Starting"}
        /\ wpc[a] = "entry" => phase[a] = "Starting"
        /\ wpc[a] \in {"startWait", "arriveWait", "body", "epilogue"}
              => phase[a] \in {"Parked", "Running"}
        /\ wpc[a] \in {"body", "epilogue"} => stopping \/ phase[a] = "Running"
        /\ wpc[a] \in {"exiting", "destructors", "gone"} => phase[a] = "Finished"

\* State.actors is filled at once, before the first thread is spawned.
ActorsFilled ==
    /\ cpc \in {"admit", "acquire"} => handles = {} /\ \A a \in Actors : wpc[a] = "none"
    /\ cpc \in {"spawn", "ready", "observe", "observing", "awaiting", "arrived",
                "joining", "checking"} => \A a \in Actors : phase[a] # "Absent"
    /\ (\E a \in Actors : phase[a] = "Absent") => \A a \in Actors : phase[a] = "Absent"

\* Which handles the controller joins, where; a finished actor is joined before
\* its interval counts.
JoinDiscipline ==
    /\ cpc = "joining" => joining = handles \cap {Current.actor}
    /\ cpc = "dropping" => joining = handles
    /\ ~stopping => \A a \in Actors :
          phase[a] = "Finished" /\ a \in handles
              => cpc \in {"awaiting", "arrived", "joining"} /\ a = Current.actor

\* A closed execution owns nothing, and only a closed or dropped one has been
\* torn down.
ClosedOwnsNothing ==
    /\ closed => handles = {} /\ cpc \in {"idle", "dropping", "dropped"}
    /\ cpc \in {"tearing", "dropped"} => handles = {}
    /\ teardowns <= 1
    /\ teardowns = 1 => closed \/ cpc = "dropped"

\* Where a stop has reached every sleeper.
StopDelivered ==
    /\ \A a \in asleep : Waiting(a) /\ phase[a] = "Parked"
    /\ schedule_completed => stopping \/ cpc = "cleanup"
    /\ stopping /\ (schedule_completed \/ cpc \in {"idle", "completing", "draining",
                                                   "collecting", "tearing", "dropping"})
          => asleep = {}

\* Past admission the plan is an admissible one, and an interval in progress is
\* one of its intervals.
PlanAdmitted ==
    /\ closed \/ cpc = "admit" \/ Admissible(plan)
    /\ next <= Len(plan)
    /\ cpc \in {"awaiting", "arrived", "joining", "checking"} => next < Len(plan)

\* The inductive invariant.
Inductive ==
    /\ PlanAdmitted
    /\ OwnsEveryThread
    /\ ThreadPhase
    /\ ActorsFilled
    /\ JoinDiscipline
    /\ ClosedOwnsNothing
    /\ ExclusiveInterval
    /\ ObserverQuiescence
    /\ StopIsExplained
    /\ StopDelivered

(***************************************************************************)
(* The inductive invariant behind what the report says: PassedRanThePlan,  *)
(* EvidenceFollowsPlan, EvidenceWithinBound, FailureWasCleanedUp and       *)
(* VerdictIsFinal.  It is inductive relative to Inductive.                 *)
(***************************************************************************)
\* Rows follow the plan, whatever became of the execution.
RowsFollowPlan ==
    /\ \A k \in DOMAIN events :
          LET i == (k + 1) \div 2 IN
          /\ events[k].kind = IF k % 2 = 1 THEN "permit" ELSE "arrival"
          /\ events[k].step = i - 1 /\ events[k].actor = plan[i].actor
          /\ k % 2 = 0 /\ events[k].checkpoint # plan[i].checkpoint
                => k = Len(events) /\ outcome # "Completed"
    /\ \A k \in DOMAIN observations : observations[k] = k - 1

\* How many rows there are, where the controller is.
RowCounts(permits, arrivals, seen) ==
    Len(events) = permits + arrivals /\ Len(observations) = seen

RowsKeepPace ==
    /\ cpc \in {"admit", "acquire", "spawn", "ready"} => RowCounts(0, 0, 0) /\ next = 0
    /\ cpc \in {"awaiting", "arrived"} => RowCounts(next + 1, next, next + 1)
    /\ cpc \in {"joining", "checking"} /\ outcome = "Completed"
          => /\ RowCounts(next + 1, next + 1, next + 1)
             /\ checkpoint[Current.actor] = Current.checkpoint
    /\ cpc \in {"observe", "observing"} => RowCounts(next, next, next)
    /\ cpc \in {"settle", "completing", "cleanup", "draining", "collecting", "tearing",
                "idle", "dropping", "dropped"} /\ outcome = "Completed"
          => RowCounts(next, next, next + 1)

\* Every retained row was charged; a charged row is missing only after a failure.
RowsAreCharged ==
    /\ Len(events) + Len(observations) <= evidence_bytes
    /\ EvidenceWithinBound

\* A worker whose completion was counted has finished, and stays so.
CompletionsStand ==
    /\ \A a \in Actors : checkpoint[a] = Done => phase[a] = "Finished"
    /\ \A i \in 1..next : plan[i].checkpoint = Done => checkpoint[plan[i].actor] = Done

\* A failure has stopped the workers.
FailureStops == outcome # "Completed" => stopping

\* Once the plan is complete there is no thread left and nothing can fail.
CompletionIsFinal ==
    /\ schedule_completed
          => cpc \in {"cleanup", "draining", "collecting", "tearing", "idle", "dropping", "dropped"}
    /\ schedule_completed /\ cpc = "idle" => closed
    /\ schedule_completed \/ cpc = "completing"
          => /\ outcome = "Completed" /\ next = Len(plan) /\ handles = {}
             /\ \A a \in Actors : wpc[a] = "gone"

\* What the cleanup fields say, where the controller is.
CleanupIsReported ==
    /\ cleanup # "Incomplete" => remaining_actors = {}
    /\ cleanup = "Incomplete"
          => /\ outcome # "Completed"
             /\ cpc \in {"cleanup", "draining", "collecting", "tearing", "idle", "dropping", "dropped"}
    /\ cleanup \in {"Confirmed", "TeardownFailed"} => closed /\ program /\ teardowns = 1
    /\ cpc \in {"draining", "collecting", "tearing"} => outcome # "Completed" \/ schedule_completed
    /\ closed => outcome # "Completed" \/ schedule_completed
    /\ ~closed /\ cpc \notin {"admit", "acquire"} => program
    /\ FailureWasCleanedUp

ReportInductive ==
    /\ RowsFollowPlan
    /\ RowsKeepPace
    /\ RowsAreCharged
    /\ CompletionsStand
    /\ FailureStops
    /\ CompletionIsFinal
    /\ CleanupIsReported
=============================================================================
