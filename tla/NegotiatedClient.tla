--------------------------- MODULE NegotiatedClient ---------------------------
(***************************************************************************)
(* run_negotiated of src/src/model_interface.rs: select a compiled adapter,*)
(* register with its interface pinned, let the mirror's reply decide       *)
(* whether the adapter, the legacy fallback or nothing is created, replay  *)
(* the traces with the binding, dispose of it and close.                   *)
(*                                                                         *)
(* loop: "unregistered", "registered", "creating", "checking", then the    *)
(* loop's own values; after "over" the binding is disposed of and the      *)
(* connection closed.                                                      *)
(***************************************************************************)
EXTENDS SteppingLoop, MirrorProcess, Authorization

CONSTANTS
    Selections,     \* [registry, key, policy, fallback, valid, large]
    Values,         \* states a computer may return
    NoBinding

ASSUME SelectionsAssumption ==
    \A s \in Selections : DOMAIN s.registry = 1..Len(s.registry)

\* What the mirror says out of turn neither accepts the registration nor is a line
\* of the replay, and the codes of its errors are none of the client's own results.
ASSUME LinesAssumption ==
    /\ \A line \in Intrusions : line.kind \notin ReplayKinds \cup {"spec_valid"}
    /\ \A s \in Selections :
          \A line \in Intrusions
                        \cup RegistrationReplies([kind |-> "register", pin |-> s.key.digest]) :
             line.kind = "register_error" /\ line.extension # NoExtension =>
                line.extension.code \notin
                   {"running", "ok", "mismatch", "adapter_dispose_failed"}

VARIABLES
    selection,
    reply,          \* the registration reply, or NoLine
    binding,        \* [by, digest]: by a registered factory, or 0 for the fallback
    disposals, disposal

negotiation == <<selection, reply, binding, disposals, disposal>>
vars == <<connection, mirror, stepping, outcome, negotiation>>

key == selection.key

NegotiationInit ==
    /\ Connected /\ MirrorInit /\ LoopInit("unregistered")
    /\ selection \in Selections
    /\ reply = NoLine /\ binding = NoBinding
    /\ disposals = 0 /\ disposal = "none"

Init == NegotiationInit

Stay(next) == loop' = next /\ UNCHANGED <<asked, state, lastParam, lastAction, outcome>>

(***************************************************************************)
(* Before the registration: the metadata must parse, the contract version  *)
(* be the runner's, and exactly one adapter be registered under the key.   *)
(***************************************************************************)
Version == "v1"

Registrable == /\ selection.valid /\ key.version = Version /\ ~selection.large
               /\ Resolved(selection.registry, key)

SelectionError ==
    IF ~selection.valid THEN "contract_invalid"
    ELSE IF key.version # Version THEN "state_computer_contract_mismatch"
    ELSE IF ~Resolved(selection.registry, key) THEN ResolveError(selection.registry, key)
    ELSE "negotiation_status_unexpected"

Refuse ==
    /\ loop = "unregistered" /\ ~Registrable
    /\ End(Result(SelectionError))
    /\ UNCHANGED <<connection, mirror, negotiation>>

Registration == [kind |-> "register", pin |-> key.digest]

Register ==
    /\ loop = "unregistered" /\ Registrable
    /\ \/ Send(Registration) /\ Stay("registered")
       \/ SendFails(Registration) /\ End(Result("io"))
    /\ UNCHANGED <<mirror, negotiation>>

(***************************************************************************)
(* The reply decides which factory is called, if any.                      *)
(***************************************************************************)
Decision(line) == DecodeAuthorization(line, selection.policy, selection.fallback, key.digest)

ReceiveReply ==
    /\ loop = "registered"
    /\ Consume
    /\ reply' = Received
    /\ IF Decision(Received).verdict = "error" THEN End(Result(Decision(Received).code))
       ELSE Stay("creating")
    /\ UNCHANGED <<mirror, selection, binding, disposals, disposal>>

Factory == IF Decision(reply).verdict = "fallback" THEN 0
           ELSE ResolveIndex(selection.registry, key)

Create ==
    /\ loop = "creating"
    /\ \/ /\ \E digest \in {key.digest, Absent} : binding' = [by |-> Factory, digest |-> digest]
          /\ Stay("checking")
       \/ End(Result("adapter_factory_failed")) /\ UNCHANGED binding
    /\ UNCHANGED <<connection, mirror, selection, reply, disposals, disposal>>

\* Absent stands for any other digest than the one in the key.
DigestFits == binding.digest = key.digest

\* assert_compatible_config may refuse the configuration, or panic.
CheckBinding ==
    /\ loop = "checking"
    /\ IF ~DigestFits THEN End(Result("binding_digest_mismatch"))
       ELSE \/ Stay("receiving")
            \/ End(Result("binding_config_mismatch"))
            \/ End(Result("adapter_failure"))
    /\ UNCHANGED <<connection, mirror, negotiation>>

Loop == Receive /\ UNCHANGED <<mirror, negotiation>>

\* The adapter's own error, or a panic caught by the runner.
CallComputer ==
    /\ \/ \E value \in Values : ReportState(value) \/ ReportFails(value)
       \/ \E kind \in {"adapter_error", "adapter_failure"} : CallbackFails(kind)
    /\ UNCHANGED <<mirror, negotiation>>

(***************************************************************************)
(* Afterwards: the binding is disposed of whatever happened, the           *)
(* connection is closed, and the first error is the result.                *)
(***************************************************************************)
FirstError_Last(kind) == Result(kind)
FirstError(kind) == IF outcome.kind = "ok" THEN Result(kind) ELSE outcome

Undisposed_OnlyAfterOk == binding # NoBinding /\ disposals = 0 /\ outcome.kind = "ok"
Undisposed == binding # NoBinding /\ disposals = 0

Dispose ==
    /\ loop = "over" /\ Undisposed
    /\ disposals' = disposals + 1
    /\ \/ disposal' = "ok" /\ UNCHANGED outcome
       \/ disposal' = "err" /\ outcome' = FirstError("adapter_dispose_failed")
    /\ UNCHANGED <<connection, mirror, stepping, selection, reply, binding>>

\* Shutting a socket down may fail; waiting for the child ends the close.
Close ==
    /\ loop = "over" /\ ~Undisposed
    /\ BeginClose \/ EndClose
    /\ IF child THEN UNCHANGED outcome
       ELSE outcome' \in {outcome, FirstError("io")}
    /\ UNCHANGED <<mirror, stepping, negotiation>>

ClientStep == Refuse \/ Register \/ ReceiveReply \/ Create \/ CheckBinding
                  \/ Loop \/ CallComputer \/ Dispose \/ Close

Idle == UNCHANGED <<stepping, outcome, negotiation>>

Next == ClientStep \/ (MirrorStep /\ Idle)

Spec == Init /\ [][Next]_vars /\ WF_vars(ClientStep) /\ WF_vars(MirrorAnswers /\ Idle)

-----------------------------------------------------------------------------
(***************************************************************************)
(* Properties.                                                             *)
(***************************************************************************)
\* A factory is called only with the mirror's authority: the compiled adapter
\* of the key when the mirror matched the very digest that was pinned and sent
\* no descriptor with it; the fallback when the policy prefers a match, one was
\* offered, and the mirror said nothing about the interface, or that it cannot.
\* And a binding made for another interface never computes a state.  An adapter
\* that is ambiguous or missing is found before anything is sent to the mirror.
MirrorMatched ==
    /\ reply.extension # NoExtension
    /\ reply.extension.status = "matched"
    /\ reply.extension.digest = key.digest
    /\ reply.extension.descriptorSchema = DescriptorSchema
    /\ ~reply.extension.payload

MirrorDeclined ==
    reply.extension # NoExtension =>
        /\ reply.extension.status \in {"unsupported", "unavailable"}
        /\ {reply.extension.digest, reply.extension.descriptorSchema} = {Absent}
        /\ ~reply.extension.payload /\ ~reply.extension.provenance

NoAdapterWithoutAuthority ==
    /\ (toMirror # <<>> \/ at # "listening" \/ loop = "registered") =>
          Cardinality({i \in DOMAIN selection.registry : selection.registry[i] = key}) = 1
    /\ binding # NoBinding =>
          /\ reply.kind = "spec_valid"
          /\ IF binding.by = 0
             THEN selection.policy = "prefer" /\ selection.fallback /\ MirrorDeclined
             ELSE selection.registry[binding.by] = key /\ MirrorMatched
          /\ asked # NoLine \/ state # Empty => binding.digest = key.digest

\* A binding that was created is disposed of, once, before the connection is
\* closed, on every way out, panics included.
BindingsAreDisposed ==
    link # "open" => disposals = IF binding = NoBinding THEN 0 ELSE 1

\* The first error is the result: neither the disposal nor the close that
\* follow it replace it.
FirstErrorIsKept == [][~Running /\ outcome.kind # "ok" => outcome' = outcome]_vars

=============================================================================
