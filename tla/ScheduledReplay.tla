---------------------------- MODULE ScheduledReplay ----------------------------
(***************************************************************************)
(* schedule_binding::replay_with_traces (src/src/schedule_binding.rs): the *)
(* negotiated client replays traces with a binding that drives a           *)
(* BindingSession.  initial_state starts a fresh execution, next_step      *)
(* advances it by one interval, the reported state is what its observer    *)
(* saw, and the binding's disposal is the session's.  What the mirror said *)
(* last is observed on the connection, below the client.                   *)
(***************************************************************************)
EXTENDS NegotiatedClient

CONSTANTS PlanLength, NoExecution, MaxInitializations, MaxReceiptBytes,
          RowBytes, ErrorRowBytes

VARIABLES
    execution, receipt_length, executions, receipt_bytes, receipt_complete,
    initializations, disposed, retained, session_disposals, session_disposal,
    terminal,       \* the terminal line observed: "", or the kind of the last
    replay          \* what replay_with_traces returned, once it has

session == <<execution, receipt_length, executions, receipt_bytes, receipt_complete,
             initializations, disposed, retained, session_disposals, session_disposal>>
replayVars == <<vars, session, terminal, replay>>

Session == INSTANCE BindingSession
    WITH disposals <- session_disposals, disposal <- session_disposal

\* What BindingSession assumes.
ASSUME SessionAssumption ==
    /\ {PlanLength, MaxInitializations, MaxReceiptBytes, ErrorRowBytes} \subseteq Nat
    /\ RowBytes \subseteq Nat
    /\ NoExecution \notin Session!Execution!Executions

ReplayRunning == ~replay.returned

ReplayInit ==
    /\ NegotiationInit
    /\ \/ Session!Init
       \/ /\ execution = NoExecution /\ receipt_length = 0
          /\ executions = <<>> /\ receipt_bytes = 0 /\ receipt_complete = TRUE
          /\ initializations = 0 /\ retained = FALSE
          /\ disposed = TRUE /\ session_disposals = 1 /\ session_disposal = "ok"
    /\ terminal = ""
    /\ replay = [returned |-> FALSE, passed |-> FALSE, comparison |-> "incomplete"]

Fresh == initializations = 0 /\ session_disposals = 0 /\ ~disposed

(***************************************************************************)
(* A reused session is refused, and the connection closed unused.          *)
(***************************************************************************)
RefuseReused ==
    /\ loop = "unregistered" /\ ~Fresh
    /\ End(Result("schedule_session_reused"))
    /\ UNCHANGED <<connection, mirror, negotiation, session, terminal, replay>>

(***************************************************************************)
(* The client's steps, with the observer on what it receives.              *)
(***************************************************************************)
Terminals == {"all_steps_done", "step_mismatch"}

Observed == IF Received.kind \in Terminals THEN Received.kind ELSE terminal

Quietly(action) == action /\ UNCHANGED <<session, terminal, replay>>

Begin      == Fresh /\ Quietly(Refuse \/ Register)
Negotiate  == Quietly(Create \/ CheckBinding)
ListenOnce == ReceiveReply /\ terminal' = Observed /\ UNCHANGED <<session, replay>>
Listen     == Loop /\ terminal' = Observed /\ UNCHANGED <<session, replay>>

(***************************************************************************)
(* The binding: each callback is one call of the session, and a state is   *)
(* reported only when the call succeeded.                                  *)
(***************************************************************************)
ReportOr(succeeded) ==
    \/ succeeded /\ \E value \in Values : ReportState(value) \/ ReportFails(value)
    \/ ~succeeded /\ CallbackFails("adapter_error")
    \/ CallbackFails("adapter_failure")

Started == initializations' # initializations /\ ~execution'.failed

ComputeInitial ==
    /\ loop = "computing" /\ asked.kind = "initial_state"
    /\ \/ Session!InitializeFirst
       \/ Session!InitializeAgain
       \/ ~Session!MayInitialize /\ UNCHANGED session
    /\ ReportOr(Started)
    /\ UNCHANGED <<mirror, negotiation, terminal, replay>>

ComputeNext ==
    /\ loop = "computing" /\ asked.kind = "next_step"
    /\ Session!Advance
    /\ ReportOr(~execution.closed /\ ~execution'.failed)
    /\ UNCHANGED <<mirror, negotiation, terminal, replay>>

\* The adapter panics before it calls the session.
Panics ==
    /\ CallbackFails("adapter_failure")
    /\ UNCHANGED <<mirror, negotiation, session, terminal, replay>>

DisposeBinding ==
    /\ Dispose
    /\ Session!DisposeNothing \/ Session!Dispose(FALSE)
    /\ disposal' = session_disposal'
    /\ UNCHANGED <<terminal, replay>>

(***************************************************************************)
(* What replay_with_traces returns once the client has.                    *)
(***************************************************************************)
Comparison_Observed ==
    CASE terminal = "step_mismatch" -> "step_mismatch"
      [] terminal = "all_steps_done" -> "matched"
      [] OTHER -> "incomplete"
Comparison ==
    CASE terminal = "step_mismatch" /\ outcome.kind = "mismatch" -> "step_mismatch"
      [] /\ terminal = "all_steps_done"
         /\ outcome.kind \in {"ok", "adapter_dispose_failed"} -> "matched"
      [] OTHER -> "incomplete"

Passed_ByTheMirror == outcome.kind = "ok" /\ Comparison = "matched"
Passed == outcome.kind = "ok" /\ Comparison = "matched" /\ Session!FullyCompleted

Return ==
    /\ ReplayRunning /\ link = "closed"
    /\ replay' = [returned |-> TRUE, passed |-> Passed, comparison |-> Comparison]
    /\ UNCHANGED <<vars, session, terminal>>

ReplayStep == RefuseReused \/ Begin \/ Negotiate \/ ListenOnce \/ Listen \/ ComputeInitial
                 \/ ComputeNext \/ Panics \/ DisposeBinding \/ Quietly(Close) \/ Return

\* Threads of the execution arrive when they like; the caller may retry the
\* cleanup of a session whose replay has returned.
LateThread == Session!LateArrival /\ UNCHANGED <<vars, terminal, replay>>
Retry      == ~ReplayRunning /\ Session!RetryCleanup /\ UNCHANGED <<vars, terminal, replay>>

ReplayIdle == Idle /\ UNCHANGED <<session, terminal, replay>>

ReplayNext == ReplayStep \/ LateThread \/ Retry \/ (MirrorStep /\ ReplayIdle)

ReplaySpec == /\ ReplayInit /\ [][ReplayNext]_replayVars
              /\ WF_replayVars(ReplayStep)
              /\ WF_replayVars(MirrorAnswers /\ ReplayIdle)

-----------------------------------------------------------------------------
(***************************************************************************)
(* Properties.                                                             *)
(***************************************************************************)
\* A replay has passed only if the mirror agreed with every state of every
\* trace, and each trace ran in an execution of its own that completed its
\* whole plan, was cleaned up, and left its receipt.
PassedIsEarned ==
    (~ReplayRunning /\ replay.passed) =>
        /\ trace > Len(traces)
        /\ Len(executions) = Len(traces)
        /\ \A t \in 1..Len(traces) :
              /\ Len(traces[t]) = PlanLength + 1
              /\ executions[t].receipt.completed
              /\ executions[t].receipt.cleanup = "Confirmed"

\* The comparison says what the mirror compared: matched only when it finished
\* every trace, step_mismatch only when it rejected a state.  A disposal that
\* fails afterwards changes neither.
ComparisonIsTheMirrors ==
    ~ReplayRunning =>
        /\ replay.comparison = "matched" => trace > Len(traces)
        /\ replay.comparison = "step_mismatch" => at = "done" /\ trace <= Len(traces)
        /\ (replay.comparison = "incomplete" /\ outcome.kind = "adapter_dispose_failed") =>
              trace <= Len(traces)

\* Session and mirror keep step: what is reported for step k of the t-th trace is
\* what the t-th execution shows k - 1 intervals into its plan, and it is reported
\* only if every execution before that one ran a whole trace, passed and confirmed
\* its cleanup.  So a start that was refused, a predecessor whose teardown failed
\* or whose cleanup is incomplete, and an interval that failed report nothing.
EarlierTracesPassed(n) ==
    \A t \in 1..n :
        /\ t \in DOMAIN executions /\ ~Session!Omitted(executions[t])
        /\ Session!Passed(executions[t].receipt)
        /\ Len(traces[t]) = PlanLength + 1

StatesAreReportedInStep ==
    [][(loop = "computing" /\ toMirror' # toMirror) =>
          /\ execution' # NoExecution /\ ~execution'.failed
          /\ initializations' = trace /\ execution'.next = step - 1
          /\ EarlierTracesPassed(trace - 1)']_replayVars

=============================================================================
