----------------------------- MODULE MCScheduler -----------------------------
(* Plans for model checking Scheduler: two or three actors, one declared     *)
(* checkpoint.                                                               *)
EXTENDS SchedulerInvariant

At(a, c) == [actor |-> a, checkpoint |-> c]

\* The three actors are inside their operations at the same time.
Overlap == <<At("a", "written"), At("b", "written"), At("c", Done), At("b", Done), At("a", Done)>>

\* One after the other.
Serial == <<At("a", Done), At("b", Done), At("c", "written"), At("c", Done)>>

\* Refused: an actor never finishes, an interval after completion, an unknown
\* actor, an undeclared and an unencodable checkpoint.
BC == <<At("b", Done), At("c", Done)>>
Refused == {
    <<>>,
    BC,
    <<At("a", Done)>> \o BC \o <<At("a", "written")>>,
    <<At("a", Done)>> \o BC \o <<At(Undeclared, Done)>>,
    <<At("a", Undeclared), At("a", Done)>> \o BC,
    <<At("a", AtStart), At("a", Done)>> \o BC }

AnyPlans == {Overlap, Serial} \cup Refused

\* For the bounded run with two actors: the first plan needs ten rows of
\* evidence, the second seven.  Rows come as permit, arrival, observation, so a
\* bound of eight loses the last arrival of the first plan, with its actor still
\* to be joined.
BoundedPlans == {<<At("a", "written"), At("b", Done), At("a", Done)>>, <<At("a", Done), At("b", Done)>>}
=============================================================================
