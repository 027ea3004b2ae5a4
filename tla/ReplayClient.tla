----------------------------- MODULE ReplayClient -----------------------------
(***************************************************************************)
(* The blocking clients of src/src/client.rs on a connection of their own: *)
(* run_client*, run_client_with_traces* (mode "replay"), run_client_       *)
(* validate* ("validate") and run_client_gen_traces* ("gen_traces"),       *)
(* against the mirror of MirrorProcess.                                    *)
(***************************************************************************)
EXTENDS SteppingLoop, MirrorProcess, FiniteSets

CONSTANTS
    Implementations,        \* the StateComputers tried
    Compute(_, _, _, _, _), \* of an implementation, an action, parameters, the
                            \* previous state and the number of states served
    Panic                   \* what Compute returns when it panics

\* What the mirror says out of turn, or to a registration, is no line of the replay.
ASSUME LinesAssumption ==
    /\ \A line \in Intrusions : line.kind \notin ReplayKinds
    /\ \A kind \in {"register", "register_validate", "register_trace_gen"} :
          \A reply \in RegistrationReplies([kind |-> kind]) : reply.kind \notin ReplayKinds

VARIABLES
    mode, bound_ok,
    implementation, served

client == <<mode, bound_ok, implementation, served>>
vars   == <<connection, mirror, stepping, outcome, client>>

Init ==
    /\ Connected /\ MirrorInit /\ LoopInit("unregistered")
    /\ mode \in {"replay", "validate", "gen_traces"}
    /\ bound_ok \in IF mode = "validate" THEN BOOLEAN ELSE {TRUE}
    /\ implementation \in IF mode = "replay" THEN Implementations ELSE {Panic}
    /\ served = 0

Registration == [kind |-> CASE mode = "replay" -> "register"
                            [] mode = "validate" -> "register_validate"
                            [] OTHER -> "register_trace_gen"]

\* A bound outside [1, 100] is refused before anything is sent.
RefuseBound ==
    /\ loop = "unregistered" /\ ~bound_ok
    /\ End(Result("invalid_argument"))
    /\ UNCHANGED <<connection, mirror, client>>

Register ==
    /\ loop = "unregistered" /\ bound_ok
    /\ \/ Send(Registration) /\ loop' = "registered"
          /\ UNCHANGED <<asked, state, lastParam, lastAction, outcome>>
       \/ SendFails(Registration) /\ End(Result("io"))
    /\ UNCHANGED <<mirror, client>>

\* The reply that each mode goes on from.
Success_AnyReply == {"spec_valid", "gen_traces_done"}
Success == IF mode = "gen_traces" THEN {"gen_traces_done"} ELSE {"spec_valid"}

\* gen_traces knows no spec_validated, valid or not.
ReplyError(m) == IF mode = "gen_traces" /\ m.kind = "spec_invalid"
                 THEN Result("unexpected") ELSE ErrorOf(m)

ReceiveReply ==
    /\ loop = "registered"
    /\ Consume
    /\ IF Received.kind \notin Success THEN End(ReplyError(Received))
       ELSE IF mode # "replay" THEN End(Result("ok"))
       ELSE loop' = "receiving" /\ UNCHANGED <<asked, state, lastParam, lastAction, outcome>>
    /\ UNCHANGED <<mirror, client>>

Loop == Receive /\ UNCHANGED <<mirror, client>>

Answer == Compute(implementation, asked.action, asked.value, Previous, served)

CallCompute ==
    /\ loop = "computing"
    /\ IF Answer = Panic
       THEN CallbackFails("panic") /\ UNCHANGED served
       ELSE (ReportState(Answer) \/ ReportFails(Answer)) /\ served' = served + 1
    /\ UNCHANGED <<mirror, mode, bound_ok, implementation>>

\* Every way out closes the connection, by close or by dropping it.
Close ==
    /\ ~Running
    /\ BeginClose \/ EndClose
    /\ UNCHANGED <<mirror, stepping, outcome, client>>

ClientStep == RefuseBound \/ Register \/ ReceiveReply \/ Loop \/ CallCompute \/ Close

Idle == UNCHANGED <<stepping, outcome, client>>

Next == ClientStep \/ (MirrorStep /\ Idle)

Returned == link = "closed"

\* The client keeps running, the callback returns, the mirror keeps answering.
Spec == Init /\ [][Next]_vars /\ WF_vars(ClientStep) /\ WF_vars(MirrorAnswers /\ Idle)

-----------------------------------------------------------------------------
(***************************************************************************)
(* Properties.                                                             *)
(***************************************************************************)
\* The implementation meets a trace when each of its answers, given the
\* expected states before it, is the expected one.
StepsBefore(ts, t) == Cardinality(UNION {{u} \X DOMAIN ts[u] : u \in 1..(t - 1)})

Due(impl, ts, t, s) ==
    LET it == ts[t][s] IN
    Compute(impl, it.action, it.value, IF s = 1 THEN Empty ELSE ts[t][s - 1].expected,
            StepsBefore(ts, t) + s - 1)

Meets(t, s) == Due(implementation, traces, t, s) = traces[t][s].expected

Conforms == \A t \in 1..Len(traces) : \A s \in 1..Len(traces[t]) : Meets(t, s)

\* The result of a replay is right about the implementation: Ok only for one
\* that meets every trace, StepMismatch only for one that does not.
ReplayDecidesConformance ==
    mode = "replay" =>
        /\ outcome.kind = "ok" => Conforms
        /\ outcome.kind = "mismatch" => ~Conforms

\* The parameters given last when step s of the t-th trace has been answered, or
\* when s is 0 the traces before it: those of the latest next_step, for what
\* initial_state gives is not kept; and none before the first next_step.
GivenBefore(p, ts, t) ==
    \/ /\ p = Empty
       /\ \A u \in 1..(t - 1) : Len(ts[u]) = 1
    \/ \E u \in 1..(t - 1) :
          /\ Len(ts[u]) > 1 /\ p = ts[u][Len(ts[u])].value
          /\ \A v \in (u + 1)..(t - 1) : Len(ts[v]) = 1

LastGiven(p, ts, t, s) == IF s > 1 THEN p = ts[t][s].value ELSE GivenBefore(p, ts, t)

\* A mismatch names the action of the step that failed, whether or not the mirror
\* named it.  With it go the parameters given last: those of that step, unless it
\* began a trace, and then those of an earlier trace, or none.
MismatchNamesTheStep ==
    outcome.kind = "mismatch" =>
        /\ ~Meets(trace, step)
        /\ outcome.action = TheStep.action
        /\ LastGiven(outcome.params, traces, trace, step)

\* While the mirror waits for a state, exactly one request or report is on its
\* way or being computed; while it does not, none is.
Requests == Cardinality({i \in DOMAIN toClient : Asks(toClient[i])})
Reports  == Cardinality({i \in DOMAIN toMirror : toMirror[i].kind = "report_state"})

OneAnswerPerRequest ==
    (mirrorUp /\ Running) =>
        Requests + (IF loop = "computing" THEN 1 ELSE 0) + Reports
            = (IF at = "awaiting" THEN 1 ELSE 0)

\* Every call returns: the child, if there is one, has been waited for.
EveryCallReturns == <>Returned
=============================================================================
