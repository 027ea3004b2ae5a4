----------------------------- MODULE MirrorProcess -----------------------------
(***************************************************************************)
(* The mirror, which is not in this repository: the peer that the client   *)
(* code and the test servers suppose.  It answers the registration, asks   *)
(* for the states of each trace in turn, compares the reports, and stops   *)
(* at the first mismatch.  It may also say something out of turn, or die   *)
(* and lose the lines still on their way.                                  *)
(***************************************************************************)
EXTENDS MirrorConnection

CONSTANTS
    TraceLists,             \* lists of traces, a trace a sequence of
                            \* [action, value, expected]
    RegistrationReplies(_), \* the replies to a registration line
    Intrusions,             \* lines it may send out of turn
    MaxIntrusions           \* bound on their number

\* It replays traces of at least a state.
ASSUME TracesAssumption ==
    \A ts \in TraceLists :
        /\ Len(ts) \in Nat /\ DOMAIN ts = 1..Len(ts)
        /\ \A t \in DOMAIN ts : Len(ts[t]) \in Nat \ {0} /\ DOMAIN ts[t] = 1..Len(ts[t])

ReplayKinds == {"initial_state", "next_step", "step_ok", "step_mismatch", "all_steps_done"}

VARIABLES
    traces,      \* the traces it replays
    at,          \* "listening", "asking", "awaiting" or "done"
    trace, step, \* the step asked for next
    intrusions

mirror == <<traces, at, trace, step, intrusions>>

MirrorInit ==
    /\ traces \in TraceLists
    /\ at = "listening" /\ trace = 1 /\ step = 1 /\ intrusions = 0

TheStep == traces[trace][step]

Says(line) ==
    /\ mirrorUp
    /\ toClient' = Append(toClient, line)
    /\ UNCHANGED <<child, link, mirrorUp>>

MirrorRegisters ==
    /\ at = "listening" /\ toMirror # <<>>
    /\ LET registration == Head(toMirror) IN
       \E reply \in RegistrationReplies(registration) :
          /\ Says(reply)
          /\ at' = IF reply.kind = "spec_valid" /\ registration.kind = "register"
                   THEN "asking" ELSE "done"
    /\ toMirror' = Tail(toMirror)
    /\ UNCHANGED <<traces, trace, step, intrusions>>

MirrorAsks ==
    /\ at = "asking" /\ trace <= Len(traces)
    /\ Says([kind |-> IF step = 1 THEN "initial_state" ELSE "next_step",
             action |-> TheStep.action, value |-> TheStep.value])
    /\ at' = "awaiting"
    /\ UNCHANGED <<toMirror, traces, trace, step, intrusions>>

MirrorAgrees ==
    /\ at = "awaiting" /\ toMirror # <<>>
    /\ Head(toMirror).value = TheStep.expected
    /\ Says([kind |-> "step_ok"])
    /\ toMirror' = Tail(toMirror)
    /\ at' = "asking"
    /\ IF step < Len(traces[trace])
       THEN step' = step + 1 /\ UNCHANGED trace
       ELSE step' = 1 /\ trace' = trace + 1
    /\ UNCHANGED <<traces, intrusions>>

\* The action of step_mismatch is optional.
MirrorDisagrees ==
    /\ at = "awaiting" /\ toMirror # <<>>
    /\ Head(toMirror).value # TheStep.expected
    /\ \E action \in {TheStep.action, NoAction} :
          Says([kind |-> "step_mismatch", action |-> action])
    /\ toMirror' = Tail(toMirror)
    /\ at' = "done"
    /\ UNCHANGED <<traces, trace, step, intrusions>>

MirrorFinishes ==
    /\ at = "asking" /\ trace > Len(traces)
    /\ Says([kind |-> "all_steps_done"])
    /\ at' = "done"
    /\ UNCHANGED <<toMirror, traces, trace, step, intrusions>>

MirrorIntrudes ==
    /\ intrusions < MaxIntrusions
    /\ \E line \in Intrusions : Says(line)
    /\ intrusions' = intrusions + 1
    /\ UNCHANGED <<toMirror, traces, at, trace, step>>

\* It has nothing left to say, or finds its end of the connection closed.
MirrorExits ==
    /\ mirrorUp
    /\ at = "done" \/ link # "open"
    /\ mirrorUp' = FALSE
    /\ UNCHANGED <<child, link, toClient, toMirror, mirror>>

MirrorDies ==
    /\ mirrorUp /\ mirrorUp' = FALSE
    /\ \E kept \in 0..Len(toClient) : toClient' = SubSeq(toClient, 1, kept)
    /\ UNCHANGED <<child, link, toMirror, mirror>>

MirrorAnswers == MirrorRegisters \/ MirrorAsks \/ MirrorAgrees \/ MirrorDisagrees
                     \/ MirrorFinishes \/ MirrorExits

MirrorStep == MirrorAnswers \/ MirrorIntrudes \/ MirrorDies
=============================================================================
