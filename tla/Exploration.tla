------------------------------ MODULE Exploration ------------------------------
(***************************************************************************)
(* schedule_exploration::explore_finite (src/src/schedule_exploration.rs): *)
(* check the declaration, enumerate the merges of the actors' checkpoint   *)
(* chains within a preemption bound, run each with every input, classify   *)
(* what the runner returns, tabulate the states and transitions observed,  *)
(* and say whether the exploration was complete.  One runner may serve     *)
(* several explorations; the local one owns its last execution.            *)
(*                                                                         *)
(* A sample is what one call of the runner gave: [returned, bound,         *)
(* cleanup, passed, comparison, ordered, observations]:                    *)
(*   returned    it returned, without an error or a panic                  *)
(*   bound       the execution is of the submitted schedule and actors,    *)
(*               with an identity not seen before                          *)
(*   comparison  "none", "matched", "step_mismatch", "incomplete", or      *)
(*               "foreign" when it is not about this execution             *)
(*   ordered     its events are the permits and arrivals of the schedule   *)
(*   observations  [after, state], a state being a function of variables   *)
(***************************************************************************)
EXTENDS Integers, Sequences, FiniteSets, Bags, SequencesExt

CONSTANTS
    Spaces,         \* [actors, inputs, preemptions, comparison, base, instrumentation]
                    \* to choose from
    MaxActors, MaxInputs, MaxPreemptions, MaxSteps,    \* bounds of a declaration
    Caps,           \* max_enumerated_schedules tried
    RunLimits,      \* max_runs tried
    EvidenceLimits, \* max_evidence_bytes tried
    RowBytes,       \* sizes of a row tried
    CoverageLimits, \* bounds on the coverage tables tried
    StateBytes, EdgeBytes,  \* what a new state and a new transition take of it
    Samples(_, _),  \* samples the runner may return for a merge in a space
    CanonicalOf(_), \* the canonical form of an observed state, or Unusable
    MeaningOf(_),   \* the state that was observed
    Unusable,
    Campaigns       \* bound on the explorations with one runner

ASSUME BoundsAssumption == MaxInputs \in Nat /\ MaxActors \in Nat /\ Caps \subseteq Nat

IsList(items) == Len(items) \in Nat /\ DOMAIN items = 1..Len(items)

ASSUME SpacesAssumption ==
    \A s \in Spaces :
        /\ IsList(s.inputs) /\ IsList(s.actors) /\ s.preemptions \in Nat
        /\ \A i \in DOMAIN s.actors : s.actors[i].actor \in Nat /\ IsList(s.actors[i].checkpoints)

VARIABLES
    space, cap, run_limit, evidence_limit, coverage_limit,
    cancelled, late,        \* the cancellation flag; the deadline has passed
    phase,                  \* "enumerating", "between", "running", "done"
    shapes, exhausted,      \* the enumeration's result
    runs,                   \* one row per attempted run
    evidence_bytes,
    states, edges, coverage_bytes,  \* the coverage tables
    halt, stop_reason,
    first_failure, first_counterexample,    \* ordinals, or 0
    report,                 \* complete and eligible, as reported
    owned,                  \* cleanup of the execution the local runner owns
    campaign

declared  == <<space, cap, run_limit, evidence_limit, coverage_limit>>
clock     == <<cancelled, late>>
enumerated == <<shapes, exhausted>>
coverage  == <<states, edges, coverage_bytes>>
ledger    == <<runs, evidence_bytes, coverage, first_failure, first_counterexample>>
verdict   == <<halt, stop_reason, report>>
vars == <<declared, clock, phase, enumerated, ledger, verdict, owned, campaign>>

(***************************************************************************)
(* The declaration.                                                        *)
(***************************************************************************)
Done    == "$done"
Unnamed == ""       \* stands for a name that is not an identifier
Bad     == 0        \* and for an actor, an operation or an input like that

Distinct(items, bad) == IsInjective(items) /\ bad \notin ToSet(items)

Field(f, items) == [i \in DOMAIN items |-> items[i][f]]

\* The steps of chains taken together.
Size(chains) == Cardinality(UNION {{i} \X DOMAIN chains[i] : i \in DOMAIN chains})

StepsOf(actors) == Size(Field("checkpoints", actors))

ValidChain(checkpoints) ==
    /\ checkpoints # <<>> /\ Last(checkpoints) = Done
    /\ \A i \in 1..(Len(checkpoints) - 1) : checkpoints[i] \notin {Done, Unnamed}

DistinctInputs(inputs) == Distinct(inputs, Bad)

ValidDeclaration(s) ==
    /\ cap > 0
    /\ Len(s.actors) \in 1..MaxActors /\ Len(s.inputs) \in 1..MaxInputs
    /\ s.preemptions <= MaxPreemptions
    /\ Distinct(Field("actor", s.actors), Bad) /\ Distinct(Field("operation", s.actors), Bad)
    /\ \A i \in DOMAIN s.actors : ValidChain(s.actors[i].checkpoints)
    /\ StepsOf(s.actors) <= MaxSteps
    /\ DistinctInputs(s.inputs)
    /\ s.base # <<>> /\ Distinct(s.base, Unnamed) /\ Distinct(s.instrumentation, Unnamed)
    /\ ToSet(s.base) \cap ToSet(s.instrumentation) = {}

(***************************************************************************)
(* The enumeration: the merges below a node of Enumerator::visit, in its   *)
(* order, which is that of the actors' names.  A switch away from an actor *)
(* that is not finished is a preemption.                                   *)
(***************************************************************************)
Rank(actors, i) == Cardinality({j \in DOMAIN actors : actors[j].actor < actors[i].actor}) + 1

Sorted(actors) ==
    [k \in DOMAIN actors |-> actors[CHOOSE i \in DOMAIN actors : Rank(actors, i) = k]]

\* The steps of each actor, in the order of the actors.
Chains(s) ==
    [i \in DOMAIN s.actors |->
        LET a == Sorted(s.actors)[i] IN
        [k \in DOMAIN a.checkpoints |-> [actor |-> a.actor, checkpoint |-> a.checkpoints[k]]]]

\* at[i] checkpoints of actor i are merged, the last of them of the actor `prior', or 0.
Places(chains) == [at : [DOMAIN chains -> Nat], prior : Nat, preemptions : Nat]

Extra_Finished(chains, node, i) == IF node.prior \notin {0, i} THEN 1 ELSE 0
Extra(chains, node, i) ==
    IF node.prior \notin {0, i} /\ node.at[node.prior] < Len(chains[node.prior]) THEN 1 ELSE 0

Moving(chains, node, i) ==
    [at |-> [node.at EXCEPT ![i] = @ + 1], prior |-> i,
     preemptions |-> node.preemptions + Extra(chains, node, i)]

\* The merges with one step more, when `below' are those after it.
Longer(chains, bound, below) ==
    [node \in Places(chains) |->
        FlattenSeq([i \in DOMAIN chains |->
            LET next == Moving(chains, node, i) IN
            IF node.at[i] = Len(chains[i]) \/ next.preemptions > bound THEN <<>>
            ELSE LET rest == below[next]
                 IN  [m \in DOMAIN rest |-> <<chains[i][next.at[i]]>> \o rest[m]]])]

\* visit[n] are the merges below the nodes with n steps to go.
Merges(chains, bound) ==
    LET visit[n \in 0..Size(chains)] ==
          IF n = 0 THEN [node \in Places(chains) |-> << <<>> >>]
          ELSE Longer(chains, bound, visit[n - 1])
    IN visit[Size(chains)][[at |-> [i \in DOMAIN chains |-> 0], prior |-> 0, preemptions |-> 0]]

\* Cut short by the cap, or by time or cancellation before the last merge.
Enumerations(all) ==
    IF Len(all) > cap
    THEN {[shapes |-> SubSeq(all, 1, cap), exhausted |-> FALSE, reason |-> "enumeration_limit"]}
    ELSE {[shapes |-> all, exhausted |-> TRUE, reason |-> ""]}

Interruption == IF cancelled THEN "cancelled" ELSE "time_budget"

Cuts(all) ==
    IF ~cancelled /\ ~late THEN {}
    ELSE {[shapes |-> SubSeq(all, 1, n), exhausted |-> FALSE, reason |-> Interruption] :
             n \in {k \in 0..cap : k < Len(all)}}

(***************************************************************************)
(* An exploration begins.                                                  *)
(***************************************************************************)
Unreported == [complete |-> FALSE, eligible |-> -1]

Init ==
    /\ space \in Spaces /\ cap \in Caps /\ run_limit \in RunLimits
    /\ evidence_limit \in EvidenceLimits /\ coverage_limit \in CoverageLimits
    /\ cancelled = FALSE /\ late = FALSE
    /\ phase = "enumerating"
    /\ shapes = <<>> /\ exhausted = FALSE
    /\ runs = <<>> /\ evidence_bytes = 0
    /\ states = <<>> /\ edges = EmptyBag /\ coverage_bytes = 0
    /\ first_failure = 0 /\ first_counterexample = 0
    /\ halt = FALSE /\ stop_reason = "" /\ report = Unreported
    /\ owned = "none" /\ campaign = 1

\* Another exploration with the same runner: only what the runner owns is kept.
Again ==
    /\ phase = "done" /\ campaign < Campaigns
    /\ campaign' = campaign + 1
    /\ cancelled' = FALSE /\ late' = FALSE
    /\ phase' = "enumerating"
    /\ shapes' = <<>> /\ exhausted' = FALSE
    /\ runs' = <<>> /\ evidence_bytes' = 0
    /\ states' = <<>> /\ edges' = EmptyBag /\ coverage_bytes' = 0
    /\ first_failure' = 0 /\ first_counterexample' = 0
    /\ halt' = FALSE /\ stop_reason' = "" /\ report' = Unreported
    /\ UNCHANGED <<declared, owned>>

\* An invalid declaration ends the exploration before it has begun.
RefuseDeclaration ==
    /\ phase = "enumerating" /\ ~ValidDeclaration(space)
    /\ phase' = "done" /\ stop_reason' = "invalid_declaration"
    /\ UNCHANGED <<declared, clock, enumerated, ledger, halt, report, owned, campaign>>

Enumerate ==
    /\ phase = "enumerating" /\ ValidDeclaration(space)
    /\ LET all == Merges(Chains(space), space.preemptions) IN
       \E e \in Enumerations(all) \cup Cuts(all) :
          /\ shapes' = e.shapes /\ exhausted' = e.exhausted /\ stop_reason' = e.reason
          /\ report' = [report EXCEPT !.eligible = IF e.exhausted
                                         THEN Len(e.shapes) * Len(space.inputs) ELSE -1]
    /\ phase' = "between"
    /\ UNCHANGED <<declared, clock, ledger, halt, owned, campaign>>

Cancel   == ~cancelled /\ cancelled' = TRUE /\ UNCHANGED late
Deadline == ~late /\ late' = TRUE /\ UNCHANGED cancelled

\* The caller cancels, or the time budget runs out, at any moment.
Interrupt ==
    /\ phase # "done"
    /\ Cancel \/ Deadline
    /\ UNCHANGED <<declared, phase, enumerated, ledger, verdict, owned, campaign>>

(***************************************************************************)
(* The runs, shape by shape and input by input.                            *)
(***************************************************************************)
Eligible  == Len(shapes) * Len(space.inputs)
Attempted == Len(runs)
Shape(n)  == shapes[(n \div Len(space.inputs)) + 1]
Input(n)  == space.inputs[(n % Len(space.inputs)) + 1]

MustStop == cancelled \/ late \/ Attempted >= run_limit

HaltFor(reason) == phase' = "between" /\ halt' = TRUE /\ stop_reason' = reason

StopBeforeRun ==
    /\ phase = "between" /\ ~halt /\ Attempted < Eligible /\ MustStop
    /\ HaltFor(IF cancelled \/ late THEN Interruption ELSE "run_limit")
    /\ UNCHANGED <<declared, clock, enumerated, ledger, report, owned, campaign>>

BeginRun ==
    /\ phase = "between" /\ ~halt /\ Attempted < Eligible /\ ~MustStop
    /\ phase' = "running"
    /\ UNCHANGED <<declared, clock, enumerated, ledger, verdict, owned, campaign>>

\* local_exploration_runner refuses while its last execution owns workers.
Acquires == owned # "incomplete"
Refusal == [returned |-> FALSE, bound |-> FALSE, cleanup |-> "none", passed |-> FALSE,
            comparison |-> "none", ordered |-> FALSE, observations |-> <<>>]

KnownClean_AnyExecution(s) == s.returned /\ s.cleanup = "confirmed"
KnownClean(s) == s.returned /\ s.bound /\ s.cleanup = "confirmed"

Failure == "runner_or_evidence_failed"

\* What category says of an execution, before the required comparison.
Judged(s) ==
    IF s.cleanup # "confirmed" THEN "cleanup_failed"
    ELSE CASE s.comparison = "step_mismatch" -> "model_mismatch"
           [] s.comparison = "incomplete" -> "comparison_failed"
           [] OTHER -> IF s.passed THEN "passed" ELSE "execution_failed"

(***************************************************************************)
(* Coverage: the observations of a run that seems to have passed are       *)
(* entered one by one; what was entered before an observation that cannot  *)
(* be used, or that exceeds the bound, stays.                              *)
(***************************************************************************)
Variables == ToSet(space.base) \cup ToSet(space.instrumentation)

Projected_Everything(state) == state
Projected(state) == [x \in ToSet(space.base) |-> state[x]]

\* The canonical form of an observed state, without the instrumentation.
Key(state) ==
    IF DOMAIN state # Variables THEN Unusable ELSE CanonicalOf(Projected(state))

Ordinal(table, key) == CHOOSE i \in DOMAIN table : table[i] = key

Enter(acc, o) ==
    LET key   == IF o.after = acc.position THEN Key(o.state) ELSE Unusable
        known == key \in ToSet(acc.states)
        table == IF known THEN acc.states ELSE Append(acc.states, key)
        id    == Ordinal(table, key)
        edge  == <<acc.prior, id>>
        charged == acc.bytes + IF known THEN 0 ELSE StateBytes
        linked  == charged + IF acc.prior = 0 \/ BagIn(edge, acc.edges) THEN 0 ELSE EdgeBytes
    IN
    IF acc.verdict # "valid" THEN acc
    ELSE IF key = Unusable THEN [acc EXCEPT !.verdict = "invalid"]
    ELSE IF charged > coverage_limit THEN [acc EXCEPT !.bytes = charged, !.verdict = "uncovered"]
    ELSE IF linked > coverage_limit
    THEN [acc EXCEPT !.states = table, !.bytes = linked, !.verdict = "uncovered"]
    ELSE [acc EXCEPT !.states = table, !.bytes = linked, !.prior = id, !.position = @ + 1,
                     !.edges = IF acc.prior = 0 THEN @ ELSE @ (+) SetToBag({edge})]

Before == 0

Tables == [states |-> states, edges |-> edges, bytes |-> coverage_bytes,
           prior |-> Before, position |-> 0, verdict |-> "valid"]

\* The tables after the first n observations.
Entered(observations, n) ==
    LET after[i \in 0..n] == IF i = 0 THEN Tables ELSE Enter(after[i - 1], observations[i])
    IN after[n]

\* Validated before anything is entered.
Succeeded(s) == s.ordered /\ DOMAIN s.observations = 1..(Len(Shape(Attempted)) + 1)

Judgement(s) ==
    IF ~s.returned \/ ~s.bound \/ s.comparison = "foreign" THEN Failure
    ELSE IF space.comparison /\ s.comparison = "none" THEN "comparison_missing"
    ELSE Judged(s)

Evidence(s) ==
    IF Judgement(s) = "passed" /\ Succeeded(s) THEN Entered(s.observations, Len(Shape(Attempted)) + 1)
    ELSE [Tables EXCEPT !.verdict = "invalid"]

Category(s) ==
    IF Judgement(s) = "passed" /\ Evidence(s).verdict # "valid" THEN Failure
    ELSE Judgement(s)

FirstOf(old, new) == IF old = 0 THEN new ELSE old

Record(s) ==
    LET n == Attempted + 1 IN
    /\ runs' = Append(runs, [shape |-> Shape(Attempted), input |-> Input(Attempted),
                             category |-> Category(s), sample |-> s])
    /\ first_failure' = IF Category(s) = "passed" THEN first_failure
                        ELSE FirstOf(first_failure, n)
    /\ states' = Evidence(s).states /\ edges' = Evidence(s).edges
    /\ coverage_bytes' = Evidence(s).bytes
    /\ first_counterexample' =
          IF s.returned /\ s.bound /\ s.comparison = "step_mismatch"
          THEN FirstOf(first_counterexample, n) ELSE first_counterexample

EndRun ==
    /\ phase = "running"
    /\ \E s \in (IF Acquires THEN Samples(space, Shape(Attempted)) ELSE {Refusal}), bytes \in RowBytes :
          LET overflow == evidence_bytes + bytes > evidence_limit IN
          /\ Record(s)
          /\ owned' = IF s.cleanup = "none" THEN owned ELSE s.cleanup
          /\ evidence_bytes' = IF overflow THEN evidence_bytes ELSE evidence_bytes + bytes
          /\ IF overflow THEN HaltFor("evidence_limit")
             ELSE IF Evidence(s).verdict = "uncovered" THEN HaltFor("coverage_limit")
             ELSE IF ~KnownClean(s) THEN HaltFor("unconfirmed_cleanup")
             ELSE IF late THEN HaltFor("time_budget")
             ELSE phase' = "between" /\ UNCHANGED <<halt, stop_reason>>
    /\ UNCHANGED <<declared, clock, enumerated, report, campaign>>

Completed == Cardinality({n \in DOMAIN runs : runs[n].category = "passed"})

Complete_OfShapes == Completed = Eligible /\ ~halt
Complete == exhausted /\ Attempted = Eligible /\ Completed = Eligible /\ ~halt

Over == halt \/ Attempted = Eligible

Conclude ==
    /\ phase = "between" /\ Over
    /\ phase' = "done"
    /\ report' = [report EXCEPT !.complete = Complete]
    /\ stop_reason' = IF stop_reason # "" THEN stop_reason
                      ELSE IF Complete THEN "complete" ELSE "non_pass_runs"
    /\ UNCHANGED <<declared, clock, enumerated, ledger, halt, owned, campaign>>

Explore == RefuseDeclaration \/ Enumerate \/ StopBeforeRun \/ BeginRun \/ EndRun \/ Conclude

Next == Explore \/ Interrupt \/ Again

\* The exploration's own thread keeps running, and the runner returns.
Spec == Init /\ [][Next]_vars /\ WF_vars(Explore)

-----------------------------------------------------------------------------
(***************************************************************************)
(* Properties.                                                             *)
(***************************************************************************)
\* Reference: a merge is a choice of the actor to move at each position; the
\* choices that let each actor move once per checkpoint, and that leave an
\* actor with checkpoints to go at most `bound' times.
Moved(w, a, j) == Cardinality({k \in 1..j : w[k] = a})

Preemptions(w) ==
    Cardinality({j \in 2..Len(w) :
        w[j] # w[j - 1] /\ Moved(w, w[j - 1], j - 1) < Moved(w, w[j - 1], Len(w))})

Reference(s) ==
    LET chain == [a \in ToSet(Field("actor", s.actors)) |->
                    (CHOOSE d \in ToSet(s.actors) : d.actor = a).checkpoints]
    IN  {[j \in DOMAIN w |-> [actor |-> w[j], checkpoint |-> chain[w[j]][Moved(w, w[j], j)]]] :
           w \in {v \in [1..StepsOf(s.actors) -> DOMAIN chain] :
                     /\ \A a \in DOMAIN chain : Moved(v, a, Len(v)) = Len(chain[a])
                     /\ Preemptions(v) <= s.preemptions}}

\* What is enumerated are merges of the reference, each once, and all of them unless
\* the enumeration was cut.
ShapesAreMerges ==
    /\ IsInjective(shapes) /\ ToSet(shapes) \subseteq Reference(space)
    /\ exhausted => ToSet(shapes) = Reference(space)

\* The total of runs is reported truly, or as unknown.
TotalIsTrue == report.eligible = IF exhausted THEN Eligible ELSE -1

\* Every merge ran with every input, once.
EveryCaseRan ==
    /\ exhausted /\ Len(runs) = Eligible
    /\ \A n \in DOMAIN runs : runs[n].shape = Shape(n - 1) /\ runs[n].input = Input(n - 1)

\* A run that passed was cleaned up, compared where that is required, and none of its
\* observations is missing.
RunPassed(row) ==
    LET s == row.sample IN
    /\ s.returned /\ s.bound /\ s.passed /\ s.ordered /\ s.cleanup = "confirmed"
    /\ s.comparison \notin {"step_mismatch", "incomplete", "foreign"}
    /\ space.comparison => s.comparison # "none"
    /\ DOMAIN s.observations = 1..(Len(row.shape) + 1)

EveryRunPassed == \A n \in DOMAIN runs : RunPassed(runs[n])

\* Complete means exhaustive: each merge of the reference ran with each input, each
\* run passed with its observations in place, and all chains were whole.
CompleteIsExhaustive ==
    /\ ShapesAreMerges /\ TotalIsTrue
    /\ report.complete =>
        /\ EveryCaseRan /\ EveryRunPassed
        /\ \A row \in ToSet(runs) : \A i \in DOMAIN row.sample.observations :
              row.sample.observations[i].after = i - 1
        /\ \A i \in DOMAIN space.actors : Last(space.actors[i].checkpoints) = Done
        /\ {<<row.shape, row.input>> : row \in ToSet(runs)} = Reference(space) \X ToSet(space.inputs)

\* Reference: an execution that is known to be the one submitted, and clean.
KnownToBeClean(s) == s.returned /\ s.bound /\ s.cleanup = "confirmed"

\* "Unknown cleanup stops acquisition": a run after which no confirmed cleanup of the
\* very execution that was submitted is known is the last of its exploration; and a
\* local runner whose execution still owns workers starts none, nor forgets it, in a
\* later exploration either.
UnknownCleanupStops ==
    [][/\ campaign' = campaign /\ (\E row \in ToSet(runs) : ~KnownToBeClean(row.sample))
             => runs' = runs
       /\ phase = "running" /\ owned = "incomplete" =>
             /\ owned' = owned
             /\ \A row \in ToSet(runs') \ ToSet(runs) : ~row.sample.returned]_vars

\* The report says "complete" exactly for a complete exploration, and blames runs that
\* did not pass only when every case ran.
VerdictIsSaid ==
    phase = "done" =>
        /\ report.complete <=> stop_reason = "complete"
        /\ stop_reason = "non_pass_runs" =>
              /\ Attempted = report.eligible
              /\ \E row \in ToSet(runs) : row.category # "passed"

Reasons == {"cancelled", "time_budget", "enumeration_limit", "run_limit", "evidence_limit",
            "coverage_limit", "unconfirmed_cleanup", "invalid_declaration", "complete",
            "non_pass_runs"}

\* What a reason names is what happened, and no bound is blamed that was not met.
ReasonIsMet ==
    /\ stop_reason = "cancelled" => cancelled
    /\ stop_reason = "time_budget" => late
    /\ stop_reason = "enumeration_limit" => ~exhausted /\ Len(shapes) = cap
    /\ stop_reason = "run_limit" => Attempted >= run_limit /\ Attempted < Eligible
    /\ stop_reason = "evidence_limit" =>
          \E bytes \in RowBytes : evidence_bytes + bytes > evidence_limit
    /\ stop_reason = "coverage_limit" => coverage_bytes > coverage_limit
    /\ stop_reason = "unconfirmed_cleanup" => \E row \in ToSet(runs) : ~KnownToBeClean(row.sample)
    /\ stop_reason = "invalid_declaration" => ~ValidDeclaration(space)

\* The stop reason explains the report: it is "complete" exactly for a complete
\* exploration, and one that was cut anywhere says where.
StopReasonExplains ==
    /\ VerdictIsSaid
    /\ phase = "done" => stop_reason \in Reasons /\ ReasonIsMet

\* Reference: the observations that count are those of a run that passed, or
\* seemed to until its observations were read, up to the first unusable one.
OfBase(o) == Restrict(o.state, ToSet(space.base))

Usable(row, i) ==
    LET o == row.sample.observations[i] IN
    /\ o.after = i - 1
    /\ DOMAIN o.state = ToSet(space.base) \cup ToSet(space.instrumentation)
    /\ CanonicalOf(OfBase(o)) # Unusable

Used(row) ==
    {i \in DOMAIN row.sample.observations : RunPassed(row) /\ \A k \in 1..i : Usable(row, k)}

StateAt(row, i) == OfBase(row.sample.observations[i])

UsedStates == UNION {{StateAt(row, i) : i \in Used(row)} : row \in ToSet(runs)}

\* Where a run went from one canonical state to another.
Passages(from, to) ==
    UNION {{n} \X {i \in Used(runs[n]) : /\ i > 1
                                        /\ CanonicalOf(StateAt(runs[n], i - 1)) = from
                                        /\ CanonicalOf(StateAt(runs[n], i)) = to} : n \in DOMAIN runs}

\* How often the table has the transition.
Counted(f, g) == IF BagIn(<<f, g>>, edges) THEN edges[<<f, g>>] ELSE 0

\* The tables are what was observed: each canonical state once, whatever the
\* instrumentation was, and each transition as often as a run made it, never from one
\* run into the next.  Where a bound cut them they claim no more; the evidence bound,
\* when both are exceeded, is the one reported.
TablesAreObserved ==
    LET whole == stop_reason \notin {"coverage_limit", "evidence_limit"}
        keys  == {CanonicalOf(s) : s \in UsedStates}
    IN
    /\ IsInjective(states)
    /\ ToSet(states) \subseteq keys /\ (whole => keys = ToSet(states))
    /\ \A f, g \in DOMAIN states :
          LET made == Cardinality(Passages(states[f], states[g]))
          IN  Counted(f, g) <= made /\ (whole => Counted(f, g) = made)

\* As many states are reported as were observed, whatever forms they have.
StatesAreCounted ==
    LET met == Cardinality({MeaningOf(s) : s \in UsedStates}) IN
    /\ Len(states) <= met
    /\ stop_reason \notin {"coverage_limit", "evidence_limit"} => Len(states) = met

\* The coverage that is reported is that of the program: states are told apart however
\* their sets and maps were listed, and with values of different types kept apart
\* ("Canonical coverage preserves protocol Value types and ordinary record keys").
CoverageIsObserved == TablesAreObserved /\ StatesAreCounted

\* That is so where forms are faithful: states have one canonical form exactly when
\* they are the same.
FormsAreFaithful ==
    \A s, t \in UsedStates : CanonicalOf(s) = CanonicalOf(t) <=> MeaningOf(s) = MeaningOf(t)
=============================================================================
