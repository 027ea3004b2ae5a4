------------------------------- MODULE AsyncJobs -------------------------------
(***************************************************************************)
(* The asynchronous jobs of src/src/client.rs: submit_validate_async,      *)
(* submit_trace_gen_async, query_job, await_job and cancel_job, called one *)
(* after another on one borrowed connection that outlives each call.  The  *)
(* server is external: it answers requests in order, one line each, and    *)
(* may say something out of turn or die.                                   *)
(*                                                                         *)
(* serial numbers the exchanges.  The code has no such number: it is kept  *)
(* here so that properties can say which request a reply answers.          *)
(***************************************************************************)
EXTENDS MirrorConnection, FiniteSets

CONSTANTS
    NoCall,
    Intrusions,     \* lines the server may send out of turn
    MaxIntrusions, MaxCalls

Kinds == {"validate", "gen_traces"}
Ids   == 1..MaxCalls

ASSUME BoundsAssumption == MaxCalls \in Nat /\ MaxIntrusions \in Nat

ASSUME NoCallAssumption ==
    NoCall \notin [op : {"submit", "query", "await", "cancel"}, kind : Kinds \cup {""},
                   id : Ids \cup {0}]

\* A line out of turn is not one that the caller could not tell from an answer.
ASSUME IntrusionsAssumption ==
    \A line \in Intrusions :
        /\ line.kind \notin {"job_accepted", "register_error"}
        /\ line.kind \in {"job_status", "job_result"} => line.job.id \notin Ids

VARIABLES
    serial, call,   \* the exchange under way, or NoCall
    answer,         \* what the last call returned
    accepted,       \* jobs the caller was told were accepted
    jobs,           \* the server's jobs, by identifier
    intrusions

caller == <<serial, call, answer, accepted>>
server == <<jobs, intrusions>>
vars   == <<connection, caller, server>>

Nothing == [result |-> "none", line |-> NoCall, serial |-> 0]

Init ==
    /\ Connected
    /\ serial = 0 /\ call = NoCall /\ answer = Nothing /\ accepted = {}
    /\ jobs = {} /\ intrusions = 0

(***************************************************************************)
(* The calls.  A submission names a kind, the others a job that was        *)
(* accepted; arguments are checked before anything is sent.                *)
(***************************************************************************)
Submission(kind) == [op |-> "submit", kind |-> kind, id |-> 0]
Request(op, id)  == [op |-> op, kind |-> "", id |-> id]

Calls == {Submission(kind) : kind \in Kinds}
             \cup {Request(op, job.id) : op \in {"query", "await", "cancel"}, job \in accepted}

Returns(result, line) == answer' = [result |-> result, line |-> line, serial |-> serial']

\* A bound outside [1, 100], or a connection that is a child process.
Refuse ==
    /\ call = NoCall /\ serial < MaxCalls
    /\ serial' = serial + 1
    /\ Returns("invalid_argument", NoCall)
    /\ UNCHANGED <<connection, call, accepted, server>>

ClosesAfter(kind) == kind # "register_error"

Poison(kind) == link' = IF ClosesAfter(kind) THEN "closed" ELSE link

Line(c) == [kind |-> c.op, about |-> c, serial |-> serial']

BeginCall ==
    /\ call = NoCall /\ serial < MaxCalls /\ ~child
    /\ serial' = serial + 1
    /\ \E c \in Calls :
          \/ Send(Line(c)) /\ call' = c /\ UNCHANGED answer
          \/ /\ link # "open" \/ Line(c) \in TooLong \/ ~mirrorUp
             /\ Poison("io")
             /\ Returns("error", NoCall)
             /\ UNCHANGED <<child, toClient, toMirror, mirrorUp, call>>
    /\ UNCHANGED <<accepted, server>>

Accepts(c, line) == line.kind = "job_accepted" /\ c.op = "submit" /\ line.job.kind = c.kind

Tells_AnyJob(c, line) == line.kind \in {"job_status", "job_result"} /\ c.op # "submit"
Tells(c, line) == /\ line.kind \in {"job_status", "job_result"} /\ c.op # "submit"
                  /\ line.job.id = c.id

EndCall ==
    /\ call # NoCall
    /\ Readable
    /\ UNCHANGED serial
    /\ toClient' = IF HasLine THEN Remaining ELSE toClient
    /\ call' = NoCall
    /\ IF Accepts(call, Received) \/ Tells(call, Received)
       THEN Returns("ok", Received) /\ UNCHANGED link
       ELSE Returns("error", NoCall) /\ Poison(Received.kind)
    /\ accepted' = accepted \cup IF Accepts(call, Received) THEN {Received.job} ELSE {}
    /\ UNCHANGED <<child, toMirror, mirrorUp, server>>

(***************************************************************************)
(* The server.                                                             *)
(***************************************************************************)
Job(kind) == [id |-> Cardinality(jobs) + 1, kind |-> kind]

Says(line) == mirrorUp /\ toClient' = Append(toClient, line)

Reply(kind, job, n) == [kind |-> kind, job |-> job, serial |-> n]
NoJob == [id |-> 0, kind |-> ""]

\* A submission may be refused, or confused with one of the other kind.
ServerAccepts ==
    /\ toMirror # <<>> /\ Head(toMirror).kind = "submit"
    /\ LET request == Head(toMirror) IN
       \/ /\ jobs' = jobs \cup {Job(request.about.kind)}
          /\ Says(Reply("job_accepted", Job(request.about.kind), request.serial))
       \/ /\ \E kind \in {"register_error", "protocol_error", "oversized"} :
                Says(Reply(kind, NoJob, request.serial))
          /\ UNCHANGED jobs
       \/ /\ \E kind \in Kinds \ {request.about.kind} :
                Says(Reply("job_accepted", [id |-> 0, kind |-> kind], request.serial))
          /\ UNCHANGED jobs
    /\ toMirror' = Tail(toMirror)
    /\ UNCHANGED <<child, link, mirrorUp, caller, intrusions>>

ServerTells ==
    /\ toMirror # <<>> /\ Head(toMirror).kind # "submit"
    /\ LET request == Head(toMirror) IN
       \/ \E job \in jobs, kind \in {"job_status", "job_result"} :
             job.id = request.about.id /\ Says(Reply(kind, job, request.serial))
       \/ \E kind \in {"register_error", "protocol_error", "oversized"} :
             Says(Reply(kind, NoJob, request.serial))
    /\ toMirror' = Tail(toMirror)
    /\ UNCHANGED <<child, link, mirrorUp, caller, server>>

ServerIntrudes ==
    /\ intrusions < MaxIntrusions
    /\ \E line \in Intrusions : Says(line)
    /\ intrusions' = intrusions + 1
    /\ UNCHANGED <<child, link, toMirror, mirrorUp, caller, jobs>>

ServerDies ==
    /\ mirrorUp /\ mirrorUp' = FALSE
    /\ \E kept \in 0..Len(toClient) : toClient' = SubSeq(toClient, 1, kept)
    /\ UNCHANGED <<child, link, toMirror, caller, server>>

ServerAnswers == ServerAccepts \/ ServerTells

Next == Refuse \/ BeginCall \/ EndCall \/ ServerAnswers \/ ServerIntrudes \/ ServerDies

\* A call in progress goes on; the server answers, or is seen to be gone.
Spec == Init /\ [][Next]_vars /\ WF_vars(EndCall) /\ WF_vars(ServerAnswers)

-----------------------------------------------------------------------------
(***************************************************************************)
(* Properties.                                                             *)
(***************************************************************************)
\* A reply that a call returns answers that very call: an exchange that went
\* wrong never leaves a line behind for the next one to take, and a job the
\* caller believes accepted is one the server has, of the kind submitted.
EveryReplyAnswersItsCall ==
    /\ answer.result = "ok" => answer.line.serial = answer.serial
    /\ accepted \subseteq jobs
=============================================================================
