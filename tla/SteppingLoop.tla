----------------------------- MODULE SteppingLoop -----------------------------
(***************************************************************************)
(* client::run_stepping_loop (src/src/client.rs): each request of the      *)
(* mirror is answered with the state the callback computes from it and the *)
(* previous state, until the mirror ends the session one way or another.   *)
(* The callback's result is chosen by the module that composes this one.   *)
(***************************************************************************)
EXTENDS MirrorConnection

CONSTANTS
    NoLine,
    Empty       \* State::new()

VARIABLES
    loop,        \* "receiving", "computing", "over"; or before the loop
    asked,       \* the request being computed, or NoLine
    state, lastParam, lastAction,
    outcome      \* [kind, action, params] of the result; kind "running" before

stepping == <<loop, asked, state, lastParam, lastAction>>

Result(kind) == [kind |-> kind, action |-> NoAction, params |-> Empty]
Running      == outcome.kind = "running"

LoopInit(first) ==
    /\ loop = first /\ asked = NoLine
    /\ state = Empty /\ lastParam = Empty /\ lastAction = NoAction
    /\ outcome = Result("running")

End(result) ==
    /\ loop' = "over" /\ outcome' = result
    /\ asked' = NoLine
    /\ UNCHANGED <<state, lastParam, lastAction>>

\* The error each line of the mirror becomes, outside the loop too.
ErrorOf(m) ==
    IF m.kind \in {"transport_closed", "malformed", "spec_invalid",
                   "protocol_error", "register_error"}
    THEN Result(m.kind) ELSE Result("unexpected")

Asks(m) == m.kind \in {"initial_state", "next_step"}

TakeRequest(m) ==
    /\ Asks(m)
    /\ loop' = "computing" /\ asked' = m /\ lastAction' = m.action
    /\ UNCHANGED <<state, lastParam, outcome>>

TakeStepOk(m) ==
    /\ m.kind = "step_ok"
    /\ UNCHANGED <<stepping, outcome>>

Blamed_Unnamed(m) == m.action
Blamed(m) == IF m.action = NoAction THEN lastAction ELSE m.action

TakeMismatch(m) ==
    /\ m.kind = "step_mismatch"
    /\ End([kind |-> "mismatch", action |-> Blamed(m), params |-> lastParam])

\* Any line but these four is an error; so is spec_invalid, out of place here.
TakeEnd(m) ==
    /\ ~Asks(m) /\ m.kind \notin {"step_ok", "step_mismatch"}
    /\ End(IF m.kind = "all_steps_done" THEN Result("ok")
           ELSE IF m.kind = "spec_invalid" THEN Result("unexpected") ELSE ErrorOf(m))

Receive ==
    /\ loop = "receiving"
    /\ Consume
    /\ LET m == Received IN
       TakeRequest(m) \/ TakeStepOk(m) \/ TakeMismatch(m) \/ TakeEnd(m)

(***************************************************************************)
(* The callback: its arguments, and what each result leads to.             *)
(***************************************************************************)
Previous_Kept == state
Previous == IF asked.kind = "initial_state" THEN Empty ELSE state

ParamsAfter == IF asked.kind = "next_step" THEN asked.value ELSE lastParam

Report(value) == [kind |-> "report_state", value |-> value]

ReportState(value) ==
    /\ loop = "computing"
    /\ Send(Report(value))
    /\ state' = value /\ lastParam' = ParamsAfter
    /\ loop' = "receiving" /\ asked' = NoLine
    /\ UNCHANGED <<lastAction, outcome>>

ReportFails(value) ==
    /\ loop = "computing"
    /\ SendFails(Report(value))
    /\ End(Result("io"))

\* The callback returns an error or panics: nothing is reported.
CallbackFails(kind) ==
    /\ loop = "computing"
    /\ End(Result(kind))
    /\ UNCHANGED connection
=============================================================================
