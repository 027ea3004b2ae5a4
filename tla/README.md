# MirrorRust in TLA+

MirrorRust (`src/src`) is the Rust client library of Mirrors: an application
offers a *state computer*, a *mirror* process replays traces of a TLA+
specification against it, and the library carries requests and states between
the two. On top of this the library negotiates which compiled adapter may serve
an interface, and runs the threads of a system under test through a fixed
schedule, one interval at a time, so that interleavings can be replayed and
explored.

This directory holds the specification of that code: TLA+ modules, the TLC
configurations that check them, and machine-checked proofs about the scheduler,
the session, the clients, the jobs, the scheduled replay, the exploration and the
import closure. All paths
`src/src/...` are relative to the repository's parent directory as in
`PROJECT.json`, whose `map` relates every definition to its lines.

## 1. The system

| Part | Source | State | Operations | Modules |
|---|---|---|---|---|
| Cooperative scheduler | `schedule.rs` | plan, report, actors' phases, handles, stop flag, evidence bytes | `start_schedule`, `advance`, `finish`, `cleanup`, drop, `run_schedule`; `arrive` and the worker closure on other threads; `Cancellation` | `Scheduler`, `SchedulerInvariant`, `Scheduler_proofs`, `SchedulerCalls`, `ExecutionInterface` |
| Binding session | `schedule_binding.rs` | the owned execution, retained receipts and their bytes, counters, flags | `initialize`, `advance`, `dispose`, `retry_cleanup` | `BindingSession`, `BindingSession_proofs` |
| Transport | `transport.rs` | a child or a socket, its stream, closed or not | `connect_tls_mirror`, `send`, `recv`, `close`, drop | `TlsConnect`, `MirrorConnection` |
| Stepping loop, blocking clients | `client.rs` | last state, parameters, action | `run_client*`, `run_client_validate*`, `run_client_gen_traces*` | `SteppingLoop`, `ReplayClient`, `ReplayClient_proofs`, `MirrorProcess` |
| Asynchronous jobs | `client.rs` | only the borrowed connection | `submit_*_async`, `query_job`, `await_job`, `cancel_job` | `AsyncJobs`, `AsyncJobs_proofs` |
| Negotiation | `model_interface.rs` | the selection, the binding | `run_client_negotiated*` | `Authorization`, `NegotiatedClient` (partly), proofs in `ScheduledReplay_proofs` |
| Scheduled replay | `schedule_binding.rs` | the observed terminal line | `replay_with_traces` | `ScheduledReplay`, `ScheduledReplay_proofs` |
| Finite exploration | `schedule_exploration.rs` | enumeration, rows, coverage tables, limits, the runner's last execution | `explore_finite`, `local_exploration_runner` | `Exploration`, `Exploration_proofs`, `CanonicalState` |
| Specification closure | `spec.rs` | queue and visited set | `spec_from_files` | `ImportScanner`, `SpecClosure`, `SpecClosure_proofs` |
| Service registry | `registry.rs` | the candidates and failures of a call | `discover_mirrors`, `connect_mirror_from_registry` | `MirrorRegistry`, `MirrorRegistry_proofs` |
| JSON parser | `json.rs` | position, node count, open containers | `parse` | `StrictJson`, `JsonGrammar` |
| Protocol codec | `protocol.rs` | none | encode and decode messages and values | `CanonicalState` (values only) |
| Contract validators, errors | `model_interface.rs` 283-1126, `lib.rs` | none | validate | not modelled |

How the parts interact:

- The **scheduler** shares one mutex and one condition variable between the
  coordinator's calls and the workers. Everything is a broadcast; every waiter
  re-tests its own predicate. Stops come from the deadline, a cancellation, the
  workers themselves (errors, panics, undeclared or foreign arrivals), evidence
  bounds and the caller's own calls.
- A **session** owns one execution after another and calls it from the
  binding's callbacks.
- The **clients** talk to the mirror over one connection, strictly request and
  report, but the mirror may refuse, speak out of turn, or die.
- The **negotiated client** runs the stepping loop inside a frame of adapter
  selection, factory, checks, disposal and close; the **scheduled replay** is
  this client with a session as the binding and an observer below it.
- The **exploration** runs many executions in sequence and concludes from their
  receipts; what it says of states rests on the **codec**, which carries them,
  and on the canonical form it gives them.
- The **registry** names candidates, to each of which a TLS connection is tried;
  what is returned is the connection that the clients are then given.
- The **closure** collects the sources that a registration carries. The
  **parser** is below everything that arrives: lines, contracts, schedules and
  the observer's values.

What is hard in it: the interleavings of the scheduler and its stop paths;
cleanup that times out and is tried again; receipts retained before the
execution's last change; verdicts assembled from several sources (the client's
result, the mirror's last line, the session); the first error among several;
connections with an answer left in them; limits that cut an exploration
anywhere; states that differ as values and agree as text, or the other way
round; peers that change between a candidate's discovery and its handshake. `PROJECT.json` lists the hazards, each at its line and with the
properties that watch it.

What makes each part correct:

- scheduler: one actor at a time, the observer alone, no thread detached,
  teardown once and last, no lost wake-up, reports that say what happened;
- session: no execution beside an unfinished one, rows and verdicts that never
  claim too much, a failure that no retry turns into a success;
- clients: a verdict that is right about the implementation, errors that name
  the step, a closed connection on every way out;
- negotiation: no adapter without the mirror's authority, one disposal, the
  first error;
- jobs: no reply taken for another call's;
- exploration: "complete" means everything, unknown cleanup stops, and the
  states and transitions it reports are those that were observed;
- closure: every module that the root reaches, each file once, breadth first,
  and no other;
- registry: the first candidate that can be connected to, under the pin of
  highest precedence, and a call that returns;
- parser: the documents within its limits, with their meaning, and no others.

## 2. The modules

```
 ExecutionInterface  <== refined by == SchedulerCalls -- extends --> Scheduler
        |  instance                     Scheduler_proofs -> { SchedulerCalls, SchedulerInvariant }
   BindingSession  <- BindingSession_proofs
        |  instance                |  instance
  ScheduledReplay  <-  ScheduledReplay_proofs
        |
  NegotiatedClient -> { SteppingLoop, MirrorProcess, Authorization }
  ReplayClient     -> { SteppingLoop, MirrorProcess }
        ^- ReplayClient_proofs
  AsyncJobs        -> MirrorConnection <- { SteppingLoop, MirrorProcess }
        ^- AsyncJobs_proofs
  Exploration <- Exploration_proofs      CanonicalState (in MCExploration)
  SpecClosure <- SpecClosure_proofs      ImportScanner (in MCSpecClosure)
  MirrorRegistry -> TlsConnect           JsonGrammar -> StrictJson
        ^- MirrorRegistry_proofs
```

**Scheduler** (`schedule.rs`). The controller thread is a program counter
`cpc`, each worker one of its own, `wpc`. An action is one stretch of code under
the lock, or between two points where another thread can intervene: `advance`
is grant, wait, arrive, join, check, observe, settle; `cleanup` is begin, drain,
collect, tear down. `asleep` is the set of workers waiting on the condition
variable: a broadcast empties it, and a worker not in it that waits is one that
has yet to re-test its predicate. `SpuriousWakeup` and `ForeignArrive` (a thread
that uses another's checkpoint) happen at any time the code allows them. A
finished thread still has its destructors to run (`exiting`, `destructors`).
The thread-local reentry flag and the owner test make a refused call; refused
calls change nothing and are stutters, except the refused plan of
`start_schedule`, which yields a closed, failed execution.
Helpers with an underscore (`NotifyAll_Forgotten`) are the wrong variants used
to show that each property can fail; no specification uses them.

**ExecutionInterface** is the abstract specification: the report as its owner
sees it, with every call one step. **SchedulerCalls** adds the history variable
"report at the last return" to Scheduler and states the refinement.

**BindingSession** owns an execution of ExecutionInterface. A receipt is the
execution's value when it was retained and a length, which may grow or shrink while
the execution is open, since a confirmed cleanup adds an attempt and clears the
actors that remained. `LateArrival` is the failure that may come between two calls.

**MirrorConnection** has one line queue for each direction. An oversized line
is read up to the limit, which is an error, and its remainder is found by the
next receive. `close` of a child is two steps, since it waits for the exit.
**MirrorProcess** is external: it serves traces, compares, may refuse, send a
line out of turn, omit the action of a mismatch, or die and lose what it wrote.

**SteppingLoop** is `run_stepping_loop`; its callback is supplied by
**ReplayClient** (a function of implementation, action, parameters and previous
state) and by **NegotiatedClient** (any value, error or panic).

**Authorization** is the two pure decisions of the negotiation, `resolve_index`
and `decode_authorization`. Replies are records of the members the decision
looks at. **NegotiatedClient** is `run_negotiated`.

**ScheduledReplay** joins each callback to one call of the session, and adds
the observer of terminal lines and the value `replay_with_traces` returns.

**AsyncJobs** numbers exchanges with a `serial` that exists only in the model,
so that a property can say which request a reply belongs to.

**Exploration** computes the merges with the loop of `Enumerator::visit`, as a table
of what the recursion returns from each node with so many steps to go (`Longer` is
the loop, from the answers of the calls one deeper), and then runs them; a run is one step in
which the runner returns one of a set of samples, validates it in the order of
the code, and tabulates its states and transitions. **CanonicalState** is the way
of an observed value through the codec into the form under which states are
compared: `encode_value`, the `walk` that reads it back, `canonical_value`, and as
a reference the value that was meant. A record whose keys are those of a wire
form, such as `{tag, value}`, is read back as that form, so the samples hold none.

**ImportScanner** reads the EXTENDS and INSTANCE clauses of a text of lexemes,
through comments, strings and nested blocks. **SpecClosure** is the queue of
`spec_from_files`, over a file system that maps each path to the file that it
leads to: a file, nothing (`Absent`, or `Dangling` for a link that leads nowhere,
which the code passes over alike, `spec.rs:119`), or something that exists and has no
canonical form (`Unresolvable`), which ends the call. Files may be unreadable. Its
scanner is a parameter: the run gives it ImportScanner, the proof any.

**TlsConnect** is one attempt of `connect_tls_mirror`: local checks, connection,
handshake reads under a timeout, pin. Peers stop, fall silent and are restarted
with another certificate at any time. **MirrorRegistry** makes candidates of a
registry's answer and tries them in order.

**StrictJson** is the recursive descent of `json::parse` as a stack of open
containers, reading tokens that are chosen as it goes. **JsonGrammar** generates
all documents within the limits, their texts and their meanings.

### Abstractions

- Time is two flags per execution or exploration: the deadline has passed, or
  it has not. Cleanup timeouts are a nondeterministic choice.
- JSON rows are records without wording; evidence is counted in rows in
  Scheduler (`MaxEvidence` for 8 MiB), in small numbers in the session
  (`MaxReceiptBytes` for 16 MiB) and the exploration.
- In the scheduler operations and identities of actors are not distinguished: a
  plan that the code refuses for them is a refusal without a cause.
- The observer's value is parsed with its own limits (`schedule.rs:430`); in
  Scheduler that is the choice of a value that is kept or not.
- The file system does not change during one call of `spec_from_files`.
- A pin is the certificate it names and the way it is written; an HTTP answer is
  one of the outcomes that `http_get` distinguishes; a text of JSON is its tokens
  without white space, which the parser skips before each of them.
- A socket that cannot be shut down is modelled in NegotiatedClient, whose
  result depends on it; the other clients ignore the result of close.
- Replies that are not strict JSON all give `negotiation_status_unexpected`,
  where the code has a few more names.

## 3. What TLC checks

Each run finishes within a few minutes, most in seconds.

| Run | Shows | Bounds |
|---|---|---|
| `scheduler_safety` | types, and the safety properties of the scheduler: quiescence, exclusive intervals, owned threads, teardown, wake-ups, evidence that follows the plan, final verdicts; Scheduler implements ExecutionInterface | 3 actors, 1 declared and 1 undeclared checkpoint, 2 admissible plans (all three operations overlapping, and serial), 6 refused ones, 2 cleanups |
| `scheduler_liveness` | every call returns, drop returns if bodies cooperate, and the evidence bound is not passed when it is reached in the middle of a plan | 2 actors; bodies may hang; bound of 8 rows, of which one plan needs 10 and the other 7, so that the last arrival is what is lost (a bound reached at a permit or an observation is covered by the theorem `EvidenceIsBounded` only); 1 cleanup |
| `binding_session` | receipts, replacement, disposal and retry | 3 executions, plan of one interval, receipts that fit and that do not |
| `binding_evidence` | **violation**: the 16 MiB bound of the session can be exceeded | same |
| `replay_client` | verdict, blame, alternation and return of the blocking clients; a mismatch names the action of the step that was not met, and the parameters of the latest `next_step` | two lists of traces, one of them with traces of a single state, 9 implementations, 1 line out of turn |
| `negotiated_client` | authority, disposal and first error | 11 registries, both policies, every class of reply |
| `scheduled_replay` | pass and comparison are earned, and every state is reported at the interval of the step it is for | two traces that fit the plan, or one that ends before it |
| `async_jobs` | replies answer their own calls | 4 calls, 1 line out of turn |
| `exploration` | completeness against a declarative reference of the merges, stop reasons that name what happened, observed coverage, no run after one whose execution is not known to be the submitted one and clean, and none beside an execution that still owns workers in a second exploration | 1 to 3 actors, up to 30 merges, every preemption bound, up to 3 inputs, every limit hit, 14 faulty declarations, values of every type, 2 explorations with one runner |
| `spec_closure` | the closure is the least one, in breadth-first order, of the imports that are declared, and the search ends | 4 files in 2 directories, every way of finding two modules in either, explicit and library search paths, texts of up to two clauses with comments, strings and nested blocks |
| `mirror_registry` | the first usable candidate, the pin in force, a call that returns | 2 hosts, 3 certificates, answers of up to 2 of 8 entries, 8 callers, 1 change of a peer |
| `strict_json` | the parser against the grammar, with and without repeated keys | every text of up to 4 nodes, 3 deep, over 2 strings, a number and a misspelt one |

Why the bounds are enough: three actors give every interleaving of permit,
arrival, stop and exit between the selected worker, one that is parked inside
its operation and one that has finished or not begun, the cases the controller
tells apart. Liveness is checked with two, the one that the controller waits for
and another, because the behaviour graph of three is out of reach. Two cleanups give incomplete-then-confirmed and incomplete twice. Three
executions let a row be retained, replaced and retained again. Two traces let
state leak from one to the next. The exploration's limits are set so that each
is reached first in some behaviour. Two files of one name and one of another give
cycles, diamonds, ambiguity and a module under two paths. Two candidates let the
options of one meet the other, and one change of a peer falls before, in or after
either handshake. Four nodes are one more than three levels need, so that both
limits of the parser are met and passed.

Each property has a mutant in `PROJECT.json`: a plausible bug in a definition
of the model that TLC must find with that property under the same
configuration.

### The finding

`docs/deterministic-scheduling.md:81` bounds session evidence to 16 MiB. When a
receipt does not fit, `retain` keeps a short error row and charges nothing for
it (`schedule_binding.rs:58`). `retry_cleanup` then subtracts that row's length
from the charged bytes before testing the bound (`schedule_binding.rs:194`), and
can store a receipt that exceeds the bound by that length. The excess is some
sixty bytes, and the session stays marked incomplete.

### Fairness

- Scheduler: the controller keeps running and its callbacks return ("promptly",
  `docs/deterministic-scheduling.md:51`), the clock advances (`WF(Expire)`), and
  the runtime part of each worker is scheduled. Nothing is assumed of bodies
  for `CallsReturn`, because the waits of the code poll every 10 ms and 2 ms and
  have deadlines. Drop has no timeout: `DropReturns` is stated under `Cooperation`:
  a body that runs in a stopped execution returns.
- Clients: the client keeps running and its callback returns; the mirror
  answers or dies, and a child exits when its input ends. `recv` has no timeout
  after the handshake, so against a silent mirror these properties do not hold,
  by design.
- Jobs: a call under way goes on, the server answers.
- Exploration: its thread runs and the runner returns; closure: the call goes on.
- Registry: the call goes on and a read returns what has arrived, or fails when
  its timeout expires. `http_get` has no timeout (`registry.rs:51`): `ConnectReturns`
  is stated for registries that answer or go away.

No strong fairness is used anywhere.

## 4. What is proved

A theorem here is about every value of the constants that the named assumptions
admit: any number of actors, any plan, any list of traces, any lines out of turn.
The run of the same property checks it on a small instance, where TLC would show
a counterexample. In each module the property is not inductive as it stands; what
follows names the invariant that is, and why each part of it is needed.

### The scheduler (`Scheduler_proofs`)

| Theorem | Property |
|---|---|
| `InvariantHolds` | `Inductive`, the inductive invariant of threads and phases |
| `TypesHold` | `TypeOK` |
| `ThreadsAreOwned` | `OwnsEveryThread` |
| `IntervalsAreExclusive` | `ExclusiveInterval` |
| `ObserverIsQuiescent` | `ObserverQuiescence` |
| `StopsAreExplained` | `StopIsExplained`, a part of the invariant |
| `TeardownIsSafe` | `TeardownOnceAfterJoin` |
| `NoWakeupIsLost` | `NoLostWakeup` |
| `ReportInvariantHolds` | `ReportInductive`, the inductive invariant of the report |
| `EvidenceAgrees` | `EvidenceFollowsPlan` |
| `EvidenceIsBounded` | `EvidenceWithinBound` |
| `FailuresAreCleanedUp` | `FailureWasCleanedUp` |
| `PassedMeansExecuted` | `PassedRanThePlan` |
| `VerdictsAreFinal` | `VerdictIsFinal`, an action property |
| `CallsInvariantHolds` | `CallsInductive`, the report at the last return |
| `CallsImplementInterface` | `ImplementsInterface`, the refinement of `ExecutionInterface` |

`ObserverQuiescence` at the moment the observer starts needs that a finished actor
was joined (`JoinDiscipline`) and that a parked phase means a waiting thread
(`ThreadPhase`); that in turn needs that permits are given only by the interval in
progress (`ExclusiveInterval`), whose actor exists because the plan was admitted
(`PlanAdmitted`). `NoLostWakeup` needs to know where a stop has already been
broadcast (`StopDelivered`), and teardown needs that a closed execution owns
nothing (`ClosedOwnsNothing`). `SchedulerInvariant` states these parts; it is
extended by `MCScheduler`, so that `INVARIANT Inductive` in the configuration of
`scheduler_safety` checks their conjunction.

The report needs a second invariant on top of the first: the rows name the intervals
in the order of the plan and are as many as have run (`RowsFollowPlan`,
`RowsKeepPace`), their charge is what the bound counts (`RowsAreCharged`), a failure
stops the workers before its call returns (`FailureStops`), and neither a completed
plan nor a cleanup changes what it said (`CompletionIsFinal`, `CleanupIsReported`).
The proof of the refinement has one step per action: every step of a call but the
last is a stutter of `ExecutionInterface`, whose state is the report as of the last
return, and the last maps to the call as a whole. Its invariant, `CallsInductive`,
relates that report to the state a call starts from, and says what the calls in
progress have already changed of it.

### The session (`BindingSession_proofs`)

| Theorem | Property |
|---|---|
| `SessionInvariantHolds` | types and `SessionInductive` |
| `EveryGenerationHasItsRow` | `OneRowPerExecution` |
| `CompletionIsHonest` | `FullyCompletedIsHonest` |
| `RetriesAreRetained` | `RetryUpdatesTheRow`, an action property |
| `FailureStays` | `FailureIsSticky`, an action property |

An execution that is replaced has left its row behind (`OwnsWhatItStarted`,
`RetainedIsOver`), and the rows before the last say that they passed, because a
session that holds an execution which did not pass starts no other. That the bytes
charged are the lengths of the rows is an induction over the rows: `Charges` is the
table of partial sums, which is shown to exist and to be unique by induction over
the naturals stated on a set (`Induction`), and then what appending and replacing
the last row do to it.

### Clients and the negotiation (`ReplayClient_proofs`, `ScheduledReplay_proofs`)

| Theorem | Property |
|---|---|
| `ReplayInvariantHolds` (ReplayClient) | types and the inductive invariant of client, connection and mirror |
| `ReplayIsRight` | `ReplayDecidesConformance` |
| `MismatchesAreExplained` | `MismatchNamesTheStep` |
| `AnswersMatchRequests` | `OneAnswerPerRequest` |
| `NegotiationInvariantHolds` | `NegotiationInductive` |
| `AuthorityComesFirst` | `NoAdapterWithoutAuthority` |
| `DisposedBeforeClosing` | `BindingsAreDisposed` |
| `ErrorsAreKept` | `FirstErrorIsKept`, an action property |
| `VerdictInvariantHolds` | `VerdictInductive` |

Both modules begin with the same lemmas about lines on their way: what a send, a
receive and a close do to the two queues of a connection.

That a replay is right needs the lockstep of the two ends: at any time one request
or one report is on its way, the request is for the step at which the mirror is, and
the report is the implementation's answer to that step, computed from the states of
the steps before it. When the mirror has agreed to a step, the implementation meets
it; so at the end it meets all, and the first that it does not meet is the one that
the mirror rejects. `MismatchNamesTheStep` says which parameters go with it: the loop sets them at a
`next_step` only (`client.rs:468`), so a mismatch at the first step of a trace has those
that an earlier trace left, or none. `OneAnswerPerRequest` counts the steps before the mirror's
position as a finite set (`StepsBefore`), since no sum over traces can be unfolded.

The negotiation goes through stages that are never left backwards
(`StagesInOrder`); that a binding exists only under a reply which granted it
(`GrantedByReply`) and was checked before the loop (`ChecksFirst`) is proved from
them, with `decode_authorization` analysed case by case (`GrantsAreSaid`). The
client's result repeats the mirror's verdict (`VerdictInductive`): lines of the
replay are said only in turn, so a client that has read "all steps are done" read it
from a mirror that had finished.

### Scheduled replay (`ScheduledReplay_proofs`)

| Theorem | Property |
|---|---|
| `ReplayInvariantHolds` | `ReplayInductive`, the inductive invariant of the composition |
| `PassingIsEarned` | `PassedIsEarned` |
| `ComparisonIsHonest` | `ComparisonIsTheMirrors` |
| `ReportsAreInStep` | `StatesAreReportedInStep` |

The invariant joins that of the client with that of the session, which is taken
over by `INSTANCE BindingSession_proofs` and its lemmas. What is new is
`SessionKeepsPace`: as long as the mirror has not rejected a state, the session is
in the execution of the mirror's trace, at the interval of the mirror's step; and
`EarlierTracesAreWhole`: the traces before it were as long as the plan, since a
session replaces only an execution that passed. `ReportsAreInStep` follows from
both: a report comes from a session that has kept pace, so from the interval of the
step it is for, after executions that each passed. `AgreedIsRun` says it of the last
trace once the mirror has agreed, and `ReturnedIsSo` keeps what `replay_with_traces`
returned.

### Jobs (`AsyncJobs_proofs`)

| Theorem | Property |
|---|---|
| `JobsInvariantHolds` | types and `JobsInductive` |
| `RepliesAnswerTheirCalls` | `EveryReplyAnswersItsCall` |

A connection that is still open carries the request of the call under way, or its
answer, and nothing of an earlier call (`OneExchange`): a call that ends without its
answer closes it. The jobs of the server are numbered by the calls that made them
(`JobsAreNumbered`), so an answer that a call accepts is about a job of its own.

### Exploration (`Exploration_proofs`)

| Theorem | Property |
|---|---|
| `ExplorationInvariantHolds` | types and `ExplorationInductive` |
| `ReasonsExplain` | `StopReasonExplains` |
| `UnknownCleanupStopsAll` | `UnknownCleanupStops`, an action property |
| `EvidenceInvariantHolds` | `EvidenceInductive`, the second layer of the invariant |
| `CompleteExhausts` | `CompleteIsExhaustive` |
| `TablesAreWhatWasObserved` | `TablesAreObserved`, a part of `CoverageIsObserved` |
| `CoverageIsWhatWasObserved` | `CoverageIsObserved`, where forms are faithful (`FormsAreFaithful`) |

**The report.** The n-th row is that of the n-th pair of a merge and an input
(`CasesInOrder`); a cut leaves its reason before anything else can (`CutsAreNamed`);
and as long as another run may begin every execution so far is clean (`CleanSoFar`).
A count of passed runs that equals the number of cases leaves none that did not pass
(`AllPassed`, by cardinalities). That a reason is met needs both layers: which limits a
run met is seen where its row is entered, and while runs go on the only reasons that
can stand are those of the enumeration (`ReasonInductive`).

**The enumeration.** The reference says what a merge is without saying how to find
one: a word over the actors in which each occurs as often as it has checkpoints, with
at most so many switches away from an actor that has not finished. The code finds
them by depth-first search from nodes (how far each chain is, who moved last, what
was spent). The lemma that joins the two is about every node that can be reached:
the merges found below it are those words of the steps left that stay within the
bound, each once (`MergesListReference` at the root). It goes by the number of steps
left; the words below a node are, for each chain that may move, that chain's next
step before the words below the next node, and words that begin differently differ.
Actors are sorted by name in the code and not in the reference, so words of chains
are renamed to words of names (`Renamed`). The cap and the cuts take the first merges
of the list, so what is enumerated is always a list without repetitions of merges
of the reference (`ShapesAreMerges`), and all of it when nothing cut it.

**The tables.** While the observations of a run are entered, the tables hold what
they held before and what the observations so far add to them: their forms, and the
edge between the last two (`WellEntered`). An observation that cannot be used, or one
beyond the bound, ends this and leaves what was entered before. A run that did not
succeed enters nothing. Over the runs, what is tabled is then the sum over the rows
(`TablesAreTrue`): each form once, each edge as often as it was passed, and at most
that in a table that was cut. `CoverageIsObserved` says so of states, while the tables
hold forms. What `canonical_state` computes is recursive and a constant of the module,
so the theorem is about the states for which it is faithful: there is then a bijection
of forms and states. TLC checks `CoverageIsObserved` with the recursive definitions
of CanonicalState, and that they are faithful on values of every type
(`ValuesAssumption` in MCExploration).

### Closure (`SpecClosure_proofs`)

| Theorem | Property |
|---|---|
| `SearchInvariant` | `Inductive`, the inductive invariant |
| `LeastClosure` | `ClosureIsLeast` |
| `SearchIsBreadthFirst` | the invariant of the order |
| `ClosureInOrder` | `ClosureIsBreadthFirst` |

The argument is that of a graph search. What is queued is an import of a visited
file (`QueueIsImported`), so a file that is visited next lies in every closed set
that holds the root (`Sound`). What a visited file imports is visited or still
queued (`Complete`), so when the queue is empty the visited set is closed. The
sources are the visited files, each once (`SourcesAreVisited`), and a failure has
a visited file behind it (`FailuresAreReal`). Sets that must be shown least are
quantified over, so no induction over the graph is needed. For the order, the queue
holds the imports of the sources in the order of the sources, without those that
were answered already; so a source's first import lies behind that of the one before.

### Registry (`MirrorRegistry_proofs`)

| Theorem | Property |
|---|---|
| `RegistryInvariantHolds` | types and `RegistryInductive`, the inductive invariant |
| `FirstUsableIsConnected` | `ConnectionIsTheFirstUsable` |

The candidates that are left are the usable entries of the answer behind those that
failed (`WhatIsLeft`), so the one that is tried is the first that has not failed,
and it is tried with its own options and no other's pin (`AttemptIsOfTheFirst`). A
socket that is handed over has passed the checks of that attempt (`ChecksInOrder`),
and a refusal names the pin it failed (`MismatchIsOfThePin`); so each entry passed
over was passed over rightly (`FailuresAreRight`). That the usable entries are those
of the answer, in its order, is an induction over the prefixes of the answer
(`UsableDescribe`), with the induction on a set of numbers.

### Assumptions on the constants

| Assumption | What it excludes |
|---|---|
| `Scheduler`: `NamesAssumption`, `ActorsAssumption`, `BoundsAssumption`, `PlansAssumption` | an adapter without actors, which `admit` refuses; the rest gives the constants their types |
| `BindingSession`: `BoundsAssumption`, `NoExecutionAssumption`; `ScheduledReplay`: `SessionAssumption`, the same for its session | nothing: the types of lengths and bounds, and that no execution is not one |
| `MirrorProcess`: `TracesAssumption` | traces without a state: a mirror replays behaviours, which have an initial state |
| `ReplayClient`: `LinesAssumption` | a line out of turn, or an answer to the registration, that is a line of the replay: no client can tell it from the real one |
| `NegotiatedClient`: `SelectionsAssumption`, `LinesAssumption` | the same for the negotiation; and a mirror whose error code is the name of one of the client's own results. Of these only `adapter_dispose_failed` is a code the program uses too: a mirror that sends it makes a refusal look like a failed disposal |
| `AsyncJobs`: `BoundsAssumption`, `NoCallAssumption`, `IntrusionsAssumption` | a line out of turn that names the job asked for, or that accepts or refuses a submission: it cannot be told from the answer |
| `Exploration`: `BoundsAssumption`, `SpacesAssumption` | nothing: bounds are numbers, lists of inputs, actors and checkpoints are lists, and names of actors are numbers, for their order |
| `SpecClosure`: `NoFileIsAFile`, `WorldsAreFileSystems`, `ImportsAreNames` | nothing: the types of a file system and a scanner |
| `MirrorRegistry`: `NoneAssumption`, `RepliesAssumption`, `OptionsAssumption` | nothing: the absence of a pin is no pin, an answer is a list of entries, and the options have their types |

TLC evaluates all of them for the instances of the runs.

### Only model-checked

- **Liveness**, under fairness: out of the prover's reach.
- `FormsAreFaithful`, the hypothesis under which `CoverageIsObserved` is proved: what
  `canonical_state` computes of every value is an induction over data. The library's
  induction and recursion theorems take operators as parameters, which no installed
  backend instantiates. The recursions over numbers (the merges, the observations
  of a run, the prefixes of a list) are proved about with `Induction` on a set.
- `ImportsAreDeclared` (MCSpecClosure) and `ReadsExactlyTheDocuments` (JsonGrammar):
  the scanner and the grammar are recursive operators. The closure is therefore
  proved for any scanner, and the scanner checked by itself.
- Canonical values and `StrictJson`: recursive, as above.

## 5. Not modelled

- **Contract validators** (`model_interface.rs` 638-1126): checks of the fields,
  lengths and types of one document, without state but for a count of nodes. A
  reference definition would repeat them line by line. What they decide is the
  flag `valid` of a selection in NegotiatedClient.
- **The parsers kept in `model_interface.rs` 283-637** (`RawStrictParser`,
  `StrictSeed`, `validate_number_tokens`): marked as dead code; `strict_parse`
  calls `json::parse`, which is StrictJson.
- **Message codec** (`protocol.rs`, but for values): pure conversions; a line that
  does not decode is the kind `malformed`.
- Spawning a mirror, plain TCP connections (initial states of MirrorConnection),
  the text of URLs and HTTP, the wording of receipts and errors.
- The bound of one megabyte on the text of a canonical state
  (`schedule_exploration.rs` 128-131): forms have no text in CanonicalState. The
  bounds on depth and nodes are there.
- A server that refuses the client's certificate only after the TLS 1.3 handshake
  is met by the first receive (`tests/server_mode_smoke.rs` accepts either); in
  MirrorConnection that is a mirror that has gone.

## 6. Plan

Done: all modules above, in the order scheduler and its proofs, interface and
session, connection and clients, negotiation, scheduled replay, jobs,
exploration, closure and its proof, registry, parser.

What is left to model: line framing with partial reads in `MirrorConnection`.

What is left to prove needs induction over data, for which see "Only
model-checked".
