--------------------------- MODULE MCSchedulerCalls ---------------------------
(* SchedulerCalls with the plans of MCScheduler: the safety properties and   *)
(* the refinement, over every plan.                                          *)
EXTENDS MCScheduler, SchedulerCalls
=============================================================================
