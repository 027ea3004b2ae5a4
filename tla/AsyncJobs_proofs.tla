---------------------------- MODULE AsyncJobs_proofs ----------------------------
(***************************************************************************)
(* Proofs about AsyncJobs: for any number of calls and any lines out of    *)
(* turn that can be told from an answer, no call takes the answer of       *)
(* another.                                                                *)
(***************************************************************************)
EXTENDS AsyncJobs, FiniteSetTheorems, TLAPS

(***************************************************************************)
(* The inductive invariant.                                                *)
(***************************************************************************)
Requests == {Submission(kind) : kind \in Kinds}
                \cup {Request(op, id) : op \in {"query", "await", "cancel"}, id \in Ids}

RequestLine(c, n) == [kind |-> c.op, about |-> c, serial |-> n]

ReplyKinds == {"job_accepted", "job_status", "job_result", "register_error",
               "protocol_error", "oversized"}
ReplyLines == [kind : ReplyKinds, job : [id : Nat, kind : Kinds \cup {""}], serial : Nat]
SaidLines  == Intrusions \cup {Malformed} \cup ReplyLines

TypeOK ==
    /\ link \in {"open", "closed"} /\ mirrorUp \in BOOLEAN
    /\ serial \in 0..MaxCalls /\ call \in Requests \cup {NoCall}
    /\ toClient \in Seq(SaidLines)
    /\ toMirror = <<>> \/ \E c \in Requests, n \in Ids : toMirror = <<RequestLine(c, n)>>
    /\ jobs \subseteq [id : Ids, kind : Kinds]

\* The server numbers its jobs; each was made by a call of its own.
JobsAreNumbered ==
    /\ IsFiniteSet(jobs)
    /\ \A job \in jobs : job.id \in 1..Cardinality(jobs)
    /\ Cardinality(jobs) + (IF toMirror = <<>> THEN 0 ELSE 1) <= serial

\* The answer to the call under way, and the only line on its way that is not out
\* of turn.
IsTheAnswer(i) ==
    /\ call # NoCall /\ toMirror = <<>>
    /\ toClient[i].serial = serial
    /\ Accepts(call, toClient[i]) => toClient[i].job \in jobs
    /\ \A j \in DOMAIN toClient : j # i => toClient[j] \in Intrusions

\* A connection that is still open carries the request of the call under way, or
\* its answer, and nothing of an earlier call.
OneExchange ==
    /\ call # NoCall => link = "open"
    /\ link = "open" =>
          /\ toMirror # <<>> => call # NoCall /\ toMirror = <<RequestLine(call, serial)>>
          /\ \A i \in DOMAIN toClient : toClient[i] \in Intrusions \/ IsTheAnswer(i)

JobsInductive == JobsAreNumbered /\ OneExchange /\ EveryReplyAnswersItsCall
(***************************************************************************)
(* The invariant is inductive.                                             *)
(***************************************************************************)
\* What a call may ask for.
LEMMA RequestsAreWellFormed ==
    /\ NoCall \notin Requests
    /\ \A c \in Requests :
          /\ c.op # "submit" => c.id \in Ids
          /\ c.op = "submit" => c.kind \in Kinds
<1>. SUFFICES ASSUME NEW c \in Requests
              PROVE  /\ c # NoCall
                     /\ c.op # "submit" => c.id \in Ids
                     /\ c.op = "submit" => c.kind \in Kinds
  OBVIOUS
<1>1. CASE \E kind \in Kinds : c = Submission(kind)
  <2>1. PICK kind \in Kinds : c = [op |-> "submit", kind |-> kind, id |-> 0]
    BY <1>1 DEF Submission
  <2>2. c # NoCall
    <3>1. c \in [op : {"submit", "query", "await", "cancel"}, kind : Kinds \cup {""},
                 id : Ids \cup {0}]
      BY <2>1
    <3>. QED  BY <3>1, NoCallAssumption
  <2>3. c.op = "submit" /\ c.kind \in Kinds  BY <2>1
  <2>. QED  BY <2>2, <2>3
<1>2. CASE \E op \in {"query", "await", "cancel"}, id \in Ids : c = Request(op, id)
  <2>1. PICK op \in {"query", "await", "cancel"}, id \in Ids :
           c = [op |-> op, kind |-> "", id |-> id]
    BY <1>2 DEF Request
  <2>2. c # NoCall
    <3>1. c \in [op : {"submit", "query", "await", "cancel"}, kind : Kinds \cup {""},
                 id : Ids \cup {0}]
      BY <2>1
    <3>. QED  BY <3>1, NoCallAssumption
  <2>3. c.op # "submit" /\ c.id \in Ids  BY <2>1
  <2>. QED  BY <2>2, <2>3
<1>. QED  BY <1>1, <1>2 DEF Requests

LEMMA InitEstablishes == Init => TypeOK /\ JobsInductive
<1>. SUFFICES ASSUME Init PROVE TypeOK /\ JobsInductive  OBVIOUS
<1>1. /\ link = "open" /\ mirrorUp = TRUE /\ toClient = <<>> /\ toMirror = <<>>
      /\ serial = 0 /\ call = NoCall /\ accepted = {} /\ jobs = {}
      /\ answer.result = "none"
  BY DEF Init, Connected, Nothing
<1>2. toClient \in Seq(SaidLines)  BY <1>1
<1>3. TypeOK  BY <1>1, <1>2, BoundsAssumption DEF TypeOK
<1>4. IsFiniteSet({}) /\ Cardinality({}) = 0  BY FS_EmptySet
<1>5. JobsAreNumbered  BY <1>1, <1>4 DEF JobsAreNumbered
<1>6. OneExchange  BY <1>1 DEF OneExchange
<1>7. EveryReplyAnswersItsCall  BY <1>1 DEF EveryReplyAnswersItsCall
<1>. QED  BY <1>3, <1>5, <1>6, <1>7 DEF JobsInductive

LEMMA RefuseKeeps ==
    ASSUME TypeOK, JobsInductive, Refuse
    PROVE  TypeOK' /\ JobsInductive'
<1>1. /\ call = NoCall /\ serial' = serial + 1 /\ serial + 1 \in 0..MaxCalls
      /\ link' = link /\ mirrorUp' = mirrorUp /\ toClient' = toClient /\ toMirror' = toMirror
      /\ call' = call /\ accepted' = accepted /\ jobs' = jobs
      /\ answer'.result = "invalid_argument"
  BY BoundsAssumption DEF Refuse, connection, server, Returns, TypeOK
<1>2. TypeOK'  BY <1>1 DEF TypeOK
<1>3. JobsAreNumbered'
  <2>1. Cardinality(jobs) \in Nat  BY FS_CardinalityType DEF JobsInductive, JobsAreNumbered
  <2>2. serial \in Nat  BY BoundsAssumption DEF TypeOK
  <2>. QED  BY <1>1, <2>1, <2>2 DEF JobsInductive, JobsAreNumbered
<1>4. OneExchange'  BY <1>1 DEF JobsInductive, OneExchange, IsTheAnswer
<1>5. EveryReplyAnswersItsCall'  BY <1>1 DEF JobsInductive, EveryReplyAnswersItsCall
<1>. QED  BY <1>2, <1>3, <1>4, <1>5 DEF JobsInductive

LEMMA BeginCallKeeps ==
    ASSUME TypeOK, JobsInductive, BeginCall
    PROVE  TypeOK' /\ JobsInductive'
<1>. USE DEF JobsInductive
<1>1. /\ call = NoCall /\ serial' = serial + 1 /\ serial + 1 \in Ids /\ serial \in Nat
      /\ accepted' = accepted /\ jobs' = jobs
  BY BoundsAssumption DEF BeginCall, server, TypeOK, Ids
<1>2. Cardinality(jobs) \in Nat  BY FS_CardinalityType DEF JobsAreNumbered
<1>3. PICK c \in Calls :
         \/ Send(Line(c)) /\ call' = c /\ UNCHANGED answer
         \/ /\ link # "open" \/ Line(c) \in TooLong \/ ~mirrorUp
            /\ Poison("io")
            /\ Returns("error", NoCall)
            /\ UNCHANGED <<child, toClient, toMirror, mirrorUp, call>>
  BY DEF BeginCall
<1>4. c \in Requests
  BY DEF Calls, Requests, EveryReplyAnswersItsCall, TypeOK
<1>5. CASE Send(Line(c)) /\ call' = c /\ UNCHANGED answer
  <2>1. link = "open" /\ toMirror = <<>>  BY <1>1, <1>5 DEF Send, OneExchange
  <2>2. /\ link' = link /\ mirrorUp' = mirrorUp /\ toClient' = toClient
        /\ toMirror' = <<RequestLine(c, serial + 1)>>
    BY <1>1, <1>5, <2>1 DEF Send, Delivered, Line, RequestLine
  <2>3. TypeOK'
    <3>1. serial + 1 \in 0..MaxCalls  BY <1>1, BoundsAssumption DEF Ids
    <3>2. \E d \in Requests, n \in Ids : toMirror' = <<RequestLine(d, n)>>
      BY <1>1, <1>4, <2>2
    <3>. QED  BY <1>1, <1>4, <1>5, <2>2, <3>1, <3>2 DEF TypeOK
  <2>4. JobsAreNumbered'
    <3>1. Cardinality(jobs) + 1 <= serial + 1  BY <1>1, <1>2, <2>1 DEF JobsAreNumbered
    <3>2. toMirror' # <<>>  BY <2>2
    <3>. QED  BY <1>1, <3>1, <3>2 DEF JobsAreNumbered
  <2>5. OneExchange'
    <3>1. \A i \in DOMAIN toClient : toClient[i] \in Intrusions
      BY <1>1, <2>1 DEF OneExchange, IsTheAnswer
    <3>2. call' # NoCall  BY <1>4, <1>5, RequestsAreWellFormed
    <3>. QED  BY <1>1, <1>5, <2>1, <2>2, <3>1, <3>2 DEF OneExchange
  <2>6. EveryReplyAnswersItsCall'  BY <1>1, <1>5 DEF EveryReplyAnswersItsCall
  <2>. QED  BY <2>3, <2>4, <2>5, <2>6
<1>6. CASE /\ Poison("io") /\ Returns("error", NoCall)
           /\ UNCHANGED <<child, toClient, toMirror, mirrorUp, call>>
  <2>1. link' = "closed" /\ answer'.result = "error"
    BY <1>6 DEF Poison, ClosesAfter, Returns
  <2>2. TypeOK'
    <3>1. serial + 1 \in 0..MaxCalls  BY <1>1, BoundsAssumption DEF Ids
    <3>. QED  BY <1>1, <1>6, <2>1, <3>1 DEF TypeOK
  <2>3. JobsAreNumbered'  BY <1>1, <1>2, <1>6 DEF JobsAreNumbered
  <2>4. OneExchange'  BY <1>1, <1>6, <2>1 DEF OneExchange
  <2>5. EveryReplyAnswersItsCall'  BY <1>1, <2>1 DEF EveryReplyAnswersItsCall
  <2>. QED  BY <2>2, <2>3, <2>4, <2>5
<1>. QED  BY <1>3, <1>5, <1>6
\* What a call finds on the connection: a line, or the end of it, or one too long.
LEMMA LineReceived ==
    ASSUME TypeOK, EndCall
    PROVE  /\ toClient' \in Seq(SaidLines)
           /\ \/ Received.kind \in {"transport_closed", "malformed"}
              \/ /\ link = "open" /\ toClient # <<>> /\ 1 \in DOMAIN toClient
                 /\ Received = toClient[1]
                 /\ \A i \in DOMAIN toClient' :
                       i + 1 \in DOMAIN toClient /\ i + 1 # 1 /\ toClient'[i] = toClient[i + 1]
<1>1. toClient \in Seq(SaidLines) /\ toClient' = IF HasLine THEN Remaining ELSE toClient
  BY DEF TypeOK, EndCall
<1>2. CASE ~HasLine  BY <1>1, <1>2 DEF Received
<1>3. CASE HasLine /\ Head(toClient).kind = "oversized"
  <2>1. toClient # <<>> /\ toClient' = <<Malformed>> \o Tail(toClient) /\ Malformed \in SaidLines
    BY <1>1, <1>3 DEF Remaining, HasLine, SaidLines
  <2>2. Received.kind = "malformed"  BY <1>3 DEF Received, Malformed
  <2>3. Tail(toClient) \in Seq(SaidLines) /\ <<Malformed>> \in Seq(SaidLines)  BY <1>1, <2>1
  <2>. QED  BY <2>1, <2>2, <2>3
<1>4. CASE HasLine /\ Head(toClient).kind # "oversized"
  <2>1. /\ link = "open" /\ toClient # <<>> /\ toClient' = Tail(toClient)
        /\ Received = Head(toClient)
    BY <1>1, <1>4 DEF Remaining, HasLine, Received
  <2>. QED  BY <1>1, <2>1
<1>. QED  BY <1>2, <1>3, <1>4

\* A line out of turn is taken for no answer, and closes the connection.
LEMMA IntrusionsAreRefused ==
    ASSUME NEW line \in Intrusions, NEW c \in Requests
    PROVE  ~Accepts(c, line) /\ ~Tells(c, line) /\ ClosesAfter(line.kind)
<1>1. line.kind \notin {"job_accepted", "register_error"}  BY IntrusionsAssumption
<1>2. ASSUME Tells(c, line) PROVE FALSE
  <2>1. line.job.id \notin Ids /\ line.job.id = c.id /\ c.op # "submit"
    BY <1>2, IntrusionsAssumption DEF Tells
  <2>. QED  BY <2>1, RequestsAreWellFormed
<1>. QED  BY <1>1, <1>2 DEF Accepts, ClosesAfter

LEMMA EndCallKeeps ==
    ASSUME TypeOK, JobsInductive, EndCall
    PROVE  TypeOK' /\ JobsInductive'
<1>. USE DEF JobsInductive
<1>1. /\ call \in Requests /\ call' = NoCall /\ serial' = serial /\ jobs' = jobs
      /\ toMirror' = toMirror /\ mirrorUp' = mirrorUp
  BY DEF EndCall, server, TypeOK
<1>2. link' \in {link, "closed"}  BY DEF EndCall, Poison
<1>3. TypeOK'  BY <1>1, <1>2, LineReceived DEF TypeOK
<1>4. JobsAreNumbered'  BY <1>1 DEF JobsAreNumbered
<1>5. ASSUME ~Accepts(call, Received), ~Tells(call, Received), ClosesAfter(Received.kind)
      PROVE  TypeOK' /\ JobsInductive'
  <2>1. link' = "closed" /\ answer'.result = "error" /\ accepted' = accepted
    BY <1>5 DEF EndCall, Poison, Returns
  <2>2. OneExchange'  BY <1>1, <2>1 DEF OneExchange
  <2>3. EveryReplyAnswersItsCall'  BY <1>1, <2>1 DEF EveryReplyAnswersItsCall
  <2>. QED  BY <1>3, <1>4, <2>2, <2>3
<1>6. CASE Received.kind \in {"transport_closed", "malformed"}
  <2>1. ~Accepts(call, Received)  BY <1>6 DEF Accepts
  <2>2. ~Tells(call, Received)  BY <1>6 DEF Tells
  <2>3. ClosesAfter(Received.kind)  BY <1>6 DEF ClosesAfter
  <2>. QED  BY <1>5, <2>1, <2>2, <2>3
<1>7. CASE Received.kind \notin {"transport_closed", "malformed"}
  <2>1. /\ link = "open" /\ 1 \in DOMAIN toClient /\ Received = toClient[1]
        /\ \A i \in DOMAIN toClient' :
              i + 1 \in DOMAIN toClient /\ i + 1 # 1 /\ toClient'[i] = toClient[i + 1]
    BY <1>7, LineReceived
  <2>2. CASE Received \in Intrusions
    <3>1. ~Accepts(call, Received) /\ ~Tells(call, Received) /\ ClosesAfter(Received.kind)
      BY <1>1, <2>2, IntrusionsAreRefused
    <3>. QED  BY <1>5, <3>1
  <2>3. CASE IsTheAnswer(1)
    <3>1. /\ toMirror = <<>> /\ Received.serial = serial
          /\ Accepts(call, Received) => Received.job \in jobs
          /\ \A j \in DOMAIN toClient : j # 1 => toClient[j] \in Intrusions
      BY <2>1, <2>3 DEF IsTheAnswer
    <3>2. \A i \in DOMAIN toClient' : toClient'[i] \in Intrusions  BY <2>1, <3>1
    <3>3. OneExchange'  BY <1>1, <3>1, <3>2 DEF OneExchange
    <3>4. accepted' \subseteq jobs'
      BY <1>1, <3>1 DEF EndCall, EveryReplyAnswersItsCall
    <3>5. answer'.result = "ok" => answer'.line.serial = answer'.serial
      <4>1. CASE Returns("ok", Received)
        <5>1. answer' = [result |-> "ok", line |-> Received, serial |-> serial']
          BY <4>1 DEF Returns
        <5>. QED  BY <1>1, <3>1, <5>1
      <4>2. CASE Returns("error", NoCall)
        <5>1. answer' = [result |-> "error", line |-> NoCall, serial |-> serial']
          BY <4>2 DEF Returns
        <5>. QED  BY <5>1
      <4>. QED  BY <4>1, <4>2 DEF EndCall
    <3>6. EveryReplyAnswersItsCall'  BY <3>4, <3>5 DEF EveryReplyAnswersItsCall
    <3>. QED  BY <1>3, <1>4, <3>3, <3>6
  <2>. QED  BY <2>1, <2>2, <2>3 DEF OneExchange
<1>. QED  BY <1>6, <1>7
\* A line that the server says.
LEMMA LineSaid ==
    ASSUME TypeOK, NEW line \in SaidLines, Says(line)
    PROVE  /\ toClient' \in Seq(SaidLines)
           /\ \A i \in DOMAIN toClient' :
                 \/ i \in DOMAIN toClient /\ toClient'[i] = toClient[i]
                 \/ i = Len(toClient) + 1 /\ toClient'[i] = line
BY DEF TypeOK, Says

\* A line out of turn is said, or the server dies: what is on its way stays what it was.
LEMMA OthersKeep ==
    ASSUME TypeOK, JobsInductive, ServerIntrudes \/ ServerDies
    PROVE  TypeOK' /\ JobsInductive'
<1>. USE DEF JobsInductive
<1>1. /\ link' = link /\ toMirror' = toMirror /\ serial' = serial /\ call' = call
      /\ answer' = answer /\ accepted' = accepted /\ jobs' = jobs
  BY DEF ServerIntrudes, ServerDies, caller, server
<1>2. /\ toClient' \in Seq(SaidLines) /\ mirrorUp' \in BOOLEAN
      /\ \A i \in DOMAIN toClient' :
            \/ i \in DOMAIN toClient /\ toClient'[i] = toClient[i]
            \/ toClient'[i] \in Intrusions
  <2>1. CASE ServerIntrudes
    <3>1. PICK line \in Intrusions : Says(line)  BY <2>1 DEF ServerIntrudes
    <3>2. line \in SaidLines  BY DEF SaidLines
    <3>. QED  BY <2>1, <3>1, <3>2, LineSaid DEF ServerIntrudes, TypeOK
  <2>2. CASE ServerDies
    <3>1. PICK kept \in 0..Len(toClient) : toClient' = SubSeq(toClient, 1, kept)
      BY <2>2 DEF ServerDies
    <3>2. toClient \in Seq(SaidLines) /\ kept \in Nat /\ kept <= Len(toClient)
      BY <3>1 DEF TypeOK
    <3>3. toClient' \in Seq(SaidLines) /\ DOMAIN toClient' = 1..kept
      BY <3>1, <3>2
    <3>4. \A i \in 1..kept : i \in DOMAIN toClient /\ toClient'[i] = toClient[i]
      BY <3>1, <3>2
    <3>. QED  BY <2>2, <3>3, <3>4 DEF ServerDies
  <2>. QED  BY <2>1, <2>2
<1>3. TypeOK'  BY <1>1, <1>2 DEF TypeOK
<1>4. JobsAreNumbered'  BY <1>1 DEF JobsAreNumbered
<1>5. OneExchange'
  <2>. SUFFICES ASSUME link = "open", NEW i \in DOMAIN toClient'
                PROVE  toClient'[i] \in Intrusions \/ IsTheAnswer(i)'
    BY <1>1 DEF OneExchange
  <2>1. CASE toClient'[i] \in Intrusions  BY <2>1
  <2>2. CASE toClient'[i] \notin Intrusions
    <3>1. i \in DOMAIN toClient /\ toClient'[i] = toClient[i]  BY <1>2, <2>2
    <3>2. IsTheAnswer(i)  BY <2>2, <3>1 DEF OneExchange
    <3>3. \A j \in DOMAIN toClient' : j # i => toClient'[j] \in Intrusions
      BY <1>2, <3>2 DEF IsTheAnswer
    <3>4. Accepts(call, toClient[i]) => toClient[i].job \in jobs  BY <3>2 DEF IsTheAnswer
    <3>. QED  BY <1>1, <3>1, <3>2, <3>3, <3>4 DEF IsTheAnswer, Accepts
  <2>. QED  BY <2>1, <2>2
<1>6. EveryReplyAnswersItsCall'  BY <1>1 DEF EveryReplyAnswersItsCall
<1>. QED  BY <1>3, <1>4, <1>5, <1>6

\* An answer that the server gives to the request it took.
LEMMA AnswerKeeps ==
    ASSUME TypeOK, JobsInductive, JobsAreNumbered', jobs' \subseteq [id : Ids, kind : Kinds],
           jobs \subseteq jobs', NEW line \in ReplyLines, Says(line),
           toMirror # <<>>, toMirror' = Tail(toMirror),
           line.serial = Head(toMirror).serial,
           Accepts(Head(toMirror).about, line) => line.job \in jobs',
           link' = link, mirrorUp' = mirrorUp, caller' = caller
    PROVE  TypeOK' /\ JobsInductive'
<1>. USE DEF JobsInductive
<1>1. serial' = serial /\ call' = call /\ answer' = answer /\ accepted' = accepted
  BY DEF caller
<1>2. line \in SaidLines  BY DEF SaidLines
<1>3. toMirror' = <<>>  BY DEF TypeOK
<1>4. TypeOK'  BY <1>1, <1>2, <1>3, LineSaid DEF TypeOK
<1>5. OneExchange'
  <2>. SUFFICES ASSUME link = "open", NEW i \in DOMAIN toClient'
                PROVE  toClient'[i] \in Intrusions \/ IsTheAnswer(i)'
    BY <1>1, <1>3 DEF OneExchange
  <2>1. call # NoCall /\ toMirror = <<RequestLine(call, serial)>>  BY DEF OneExchange
  <2>2. Head(toMirror) = RequestLine(call, serial)  BY <2>1
  <2>3. Head(toMirror).serial = serial /\ Head(toMirror).about = call
    BY <2>2 DEF RequestLine
  <2>4. \A j \in DOMAIN toClient : toClient[j] \in Intrusions
    BY <2>1 DEF OneExchange, IsTheAnswer
  <2>5. \A j \in DOMAIN toClient' : j # Len(toClient) + 1 => toClient'[j] \in Intrusions
    BY <1>2, <2>4, LineSaid
  <2>6. CASE i = Len(toClient) + 1
    <3>1. toClient'[i] = line
      <4>1. i \notin DOMAIN toClient  BY <2>6 DEF TypeOK
      <4>. QED  BY <1>2, <4>1, LineSaid
    <3>2. toClient'[i].serial = serial  BY <2>3, <3>1
    <3>3. Accepts(call, toClient'[i]) => toClient'[i].job \in jobs'  BY <2>3, <3>1
    <3>. QED  BY <1>1, <1>3, <2>1, <2>5, <2>6, <3>2, <3>3 DEF IsTheAnswer, Accepts
  <2>7. CASE i # Len(toClient) + 1  BY <2>5, <2>7
  <2>. QED  BY <2>6, <2>7
<1>6. EveryReplyAnswersItsCall'  BY <1>1 DEF EveryReplyAnswersItsCall
<1>. QED  BY <1>4, <1>5, <1>6
\* The request that the server takes.
LEMMA RequestTaken ==
    ASSUME TypeOK, toMirror # <<>>
    PROVE  /\ Head(toMirror).about \in Requests /\ Head(toMirror).serial \in Nat
           /\ Head(toMirror).kind = Head(toMirror).about.op
           /\ Tail(toMirror) = <<>>
<1>1. PICK c \in Requests, n \in Ids : toMirror = <<RequestLine(c, n)>>  BY DEF TypeOK
<1>2. Head(toMirror) = RequestLine(c, n) /\ Tail(toMirror) = <<>>  BY <1>1
<1>3. n \in Nat  BY BoundsAssumption DEF Ids
<1>. QED  BY <1>2, <1>3 DEF RequestLine

\* A reply that names no job answers, and leaves the server's jobs alone.
LEMMA JobsUnchanged ==
    ASSUME TypeOK, JobsInductive, jobs' = jobs, serial' = serial, toMirror # <<>>,
           toMirror' = Tail(toMirror)
    PROVE  JobsAreNumbered' /\ jobs' \subseteq [id : Ids, kind : Kinds]
<1>1. toMirror' = <<>>  BY RequestTaken
<1>2. /\ IsFiniteSet(jobs) /\ Cardinality(jobs) + 1 <= serial
      /\ \A job \in jobs : job.id \in 1..Cardinality(jobs)
  BY DEF JobsInductive, JobsAreNumbered
<1>3. Cardinality(jobs) \in Nat /\ serial \in Nat
  BY <1>2, FS_CardinalityType, BoundsAssumption DEF TypeOK
<1>4. Cardinality(jobs) <= serial  BY <1>2, <1>3
<1>5. jobs' \subseteq [id : Ids, kind : Kinds]  BY DEF TypeOK
<1>6. IsFiniteSet(jobs') /\ \A job \in jobs' : job.id \in 1..Cardinality(jobs')  BY <1>2
<1>7. Cardinality(jobs') + 0 <= serial'  BY <1>3, <1>4
<1>. QED  BY <1>1, <1>5, <1>6, <1>7 DEF JobsAreNumbered

\* A job that the server makes gets the next number.
LEMMA JobMade ==
    ASSUME TypeOK, JobsInductive, NEW kind \in Kinds, jobs' = jobs \cup {Job(kind)},
           serial' = serial, toMirror # <<>>, toMirror' = Tail(toMirror)
    PROVE  /\ JobsAreNumbered' /\ jobs' \subseteq [id : Ids, kind : Kinds]
           /\ Job(kind) \in [id : Nat, kind : Kinds \cup {""}]
<1>. DEFINE job == Job(kind)
<1>1. toMirror' = <<>>  BY RequestTaken
<1>2. /\ IsFiniteSet(jobs) /\ Cardinality(jobs) + 1 <= serial
      /\ \A j \in jobs : j.id \in 1..Cardinality(jobs)
  BY DEF JobsInductive, JobsAreNumbered
<1>3. Cardinality(jobs) \in Nat /\ serial \in Nat /\ serial <= MaxCalls
  BY <1>2, FS_CardinalityType, BoundsAssumption DEF TypeOK
<1>4. job = [id |-> Cardinality(jobs) + 1, kind |-> kind]  BY DEF Job
<1>5. Cardinality(jobs) + 1 \in Ids /\ Cardinality(jobs) + 1 \in Nat
  BY <1>2, <1>3, BoundsAssumption DEF Ids
<1>. HIDE DEF job
<1>6. job \in [id : Ids, kind : Kinds]  BY <1>4, <1>5
<1>7. job \in [id : Nat, kind : Kinds \cup {""}]  BY <1>4, <1>5
<1>8. job \notin jobs
  <2>1. job.id \notin 1..Cardinality(jobs)  BY <1>3, <1>4
  <2>. QED  BY <1>2, <2>1
<1>9. jobs' = jobs \cup {job}  BY DEF job
<1>10. IsFiniteSet(jobs') /\ Cardinality(jobs') = Cardinality(jobs) + 1
  <2>1. /\ IsFiniteSet(jobs \cup {job})
        /\ Cardinality(jobs \cup {job}) = Cardinality(jobs) + 1
    BY <1>2, <1>8, FS_AddElement
  <2>. QED  BY <1>9, <2>1
<1>11. \A j \in jobs' : j.id \in 1..(Cardinality(jobs) + 1)
  <2>1. \A j \in jobs : j.id \in 1..(Cardinality(jobs) + 1)  BY <1>2, <1>3
  <2>2. job.id \in 1..(Cardinality(jobs) + 1)  BY <1>3, <1>4
  <2>. QED  BY <1>9, <2>1, <2>2
<1>12. JobsAreNumbered'
  <2>1. Cardinality(jobs') + 0 <= serial'  BY <1>2, <1>3, <1>10
  <2>2. \A j \in jobs' : j.id \in 1..Cardinality(jobs')  BY <1>10, <1>11
  <2>. QED  BY <1>1, <1>10, <2>1, <2>2 DEF JobsAreNumbered
<1>13. jobs' \subseteq [id : Ids, kind : Kinds]  BY <1>6, <1>9 DEF TypeOK
<1>. QED  BY <1>7, <1>12, <1>13 DEF job

LEMMA ServerAcceptsKeeps ==
    ASSUME TypeOK, JobsInductive, ServerAccepts
    PROVE  TypeOK' /\ JobsInductive'
<1>. DEFINE request == Head(toMirror)
<1>1. /\ request.about \in Requests /\ request.serial \in Nat
      /\ request.about.op = "submit" /\ request.about.kind \in Kinds
      /\ Tail(toMirror) = <<>>
  BY RequestTaken, RequestsAreWellFormed DEF ServerAccepts
<1>2. /\ toMirror # <<>> /\ toMirror' = Tail(toMirror) /\ link' = link /\ mirrorUp' = mirrorUp
      /\ caller' = caller /\ serial' = serial
  BY DEF ServerAccepts, caller
<1>4. CASE /\ jobs' = jobs \cup {Job(request.about.kind)}
           /\ Says(Reply("job_accepted", Job(request.about.kind), request.serial))
  <2>. DEFINE job  == Job(request.about.kind)
              line == Reply("job_accepted", job, request.serial)
  <2>1. /\ JobsAreNumbered' /\ jobs' \subseteq [id : Ids, kind : Kinds]
        /\ job \in [id : Nat, kind : Kinds \cup {""}]
    BY <1>1, <1>2, <1>4, JobMade
  <2>2. jobs \subseteq jobs' /\ job \in jobs'  BY <1>4
  <2>3. "job_accepted" \in ReplyKinds  BY DEF ReplyKinds
  <2>. HIDE DEF job
  <2>4. line \in ReplyLines /\ line.job = job /\ line.serial = request.serial
    BY <1>1, <2>1, <2>3 DEF Reply, ReplyLines
  <2>5. Says(line)  BY <1>4 DEF job
  <2>. HIDE DEF line
  <2>6. line.serial = Head(toMirror).serial
        /\ (Accepts(Head(toMirror).about, line) => line.job \in jobs')
    BY <2>2, <2>4
  <2>. QED  BY <1>2, <2>1, <2>2, <2>4, <2>5, <2>6, AnswerKeeps
<1>5. ASSUME jobs' = jobs, NEW line \in ReplyLines, Says(line), line.serial = request.serial,
             ~Accepts(request.about, line)
      PROVE  TypeOK' /\ JobsInductive'
  <2>1. JobsAreNumbered' /\ jobs' \subseteq [id : Ids, kind : Kinds]
    BY <1>2, <1>5, JobsUnchanged
  <2>. QED  BY <1>2, <1>5, <2>1, AnswerKeeps
<1>6. NoJob \in [id : Nat, kind : Kinds \cup {""}]  BY DEF NoJob
<1>7. CASE /\ jobs' = jobs
           /\ \E kind \in {"register_error", "protocol_error", "oversized"} :
                 Says(Reply(kind, NoJob, request.serial))
  <2>1. PICK kind \in {"register_error", "protocol_error", "oversized"} :
           Says(Reply(kind, NoJob, request.serial))
    BY <1>7
  <2>. DEFINE line == Reply(kind, NoJob, request.serial)
  <2>2. kind \in ReplyKinds  BY DEF ReplyKinds
  <2>3. line \in ReplyLines /\ line.kind = kind /\ line.serial = request.serial
    BY <1>1, <1>6, <2>2 DEF Reply, ReplyLines
  <2>. HIDE DEF line
  <2>4. ~Accepts(request.about, line)  BY <2>3 DEF Accepts
  <2>5. Says(line)  BY <2>1 DEF line
  <2>. QED  BY <1>5, <1>7, <2>3, <2>4, <2>5
<1>8. CASE /\ jobs' = jobs
           /\ \E kind \in Kinds \ {request.about.kind} :
                 Says(Reply("job_accepted", [id |-> 0, kind |-> kind], request.serial))
  <2>1. PICK kind \in Kinds \ {request.about.kind} :
           Says(Reply("job_accepted", [id |-> 0, kind |-> kind], request.serial))
    BY <1>8
  <2>. DEFINE job  == [id |-> 0, kind |-> kind]
              line == Reply("job_accepted", job, request.serial)
  <2>2. job \in [id : Nat, kind : Kinds \cup {""}] /\ job.kind # request.about.kind  BY DEF Kinds
  <2>3. "job_accepted" \in ReplyKinds  BY DEF ReplyKinds
  <2>. HIDE DEF job
  <2>4. line \in ReplyLines /\ line.job = job /\ line.serial = request.serial
    BY <1>1, <2>2, <2>3 DEF Reply, ReplyLines
  <2>. HIDE DEF line
  <2>5. ~Accepts(request.about, line)  BY <2>2, <2>4 DEF Accepts
  <2>6. Says(line)  BY <2>1 DEF line, job
  <2>. QED  BY <1>5, <1>8, <2>4, <2>5, <2>6
<1>. QED  BY <1>4, <1>7, <1>8 DEF ServerAccepts

LEMMA ServerTellsKeeps ==
    ASSUME TypeOK, JobsInductive, ServerTells
    PROVE  TypeOK' /\ JobsInductive'
<1>. DEFINE request == Head(toMirror)
<1>1. /\ request.serial \in Nat /\ request.about.op # "submit"
      /\ toMirror # <<>> /\ toMirror' = Tail(toMirror) /\ link' = link /\ mirrorUp' = mirrorUp
      /\ caller' = caller /\ serial' = serial /\ jobs' = jobs
  BY RequestTaken DEF ServerTells, caller, server
<1>2. JobsAreNumbered' /\ jobs' \subseteq [id : Ids, kind : Kinds]  BY <1>1, JobsUnchanged
<1>3. ASSUME NEW line \in ReplyLines, Says(line), line.serial = request.serial
      PROVE  TypeOK' /\ JobsInductive'
  <2>1. ~Accepts(request.about, line)  BY <1>1 DEF Accepts
  <2>. QED  BY <1>1, <1>2, <1>3, <2>1, AnswerKeeps
<1>4. Ids \subseteq Nat  BY BoundsAssumption DEF Ids
<1>5. \A job \in jobs : job \in [id : Nat, kind : Kinds \cup {""}]
  <2>1. \A job \in [id : Ids, kind : Kinds] : job \in [id : Nat, kind : Kinds \cup {""}]  BY <1>4
  <2>. QED  BY <2>1 DEF TypeOK
<1>6. NoJob \in [id : Nat, kind : Kinds \cup {""}]  BY DEF NoJob
<1>7. PICK kind \in ReplyKinds, job \in [id : Nat, kind : Kinds \cup {""}] :
         Says(Reply(kind, job, request.serial))
  BY <1>5, <1>6 DEF ServerTells, ReplyKinds
<1>8. /\ Reply(kind, job, request.serial) \in ReplyLines
      /\ Reply(kind, job, request.serial).serial = request.serial
  BY <1>1 DEF Reply, ReplyLines
<1>. QED  BY <1>3, <1>7, <1>8

\* Every step of the caller and of the server keeps the invariant.
THEOREM JobsInvariantHolds == Spec => [](TypeOK /\ JobsInductive)
<1>1. Init => TypeOK /\ JobsInductive  BY InitEstablishes
<1>2. TypeOK /\ JobsInductive /\ [Next]_vars => (TypeOK /\ JobsInductive)'
  <2>. SUFFICES ASSUME TypeOK, JobsInductive, [Next]_vars
                PROVE  TypeOK' /\ JobsInductive'
    OBVIOUS
  <2>1. CASE UNCHANGED vars
    BY <2>1 DEF vars, connection, caller, server, TypeOK, JobsInductive, JobsAreNumbered,
                OneExchange, IsTheAnswer, Accepts, EveryReplyAnswersItsCall
  <2>2. CASE Next
    BY <2>2, RefuseKeeps, BeginCallKeeps, EndCallKeeps, ServerAcceptsKeeps, ServerTellsKeeps,
       OthersKeep DEF Next, ServerAnswers
  <2>. QED  BY <2>1, <2>2
<1>. QED  BY <1>1, <1>2, PTL DEF Spec

\* No job function returns the answer to another call, whatever went wrong in the calls
\* before it, and a job the caller was told of is one the server has.
THEOREM RepliesAnswerTheirCalls == Spec => []EveryReplyAnswersItsCall
<1>1. TypeOK /\ JobsInductive => EveryReplyAnswersItsCall  BY DEF JobsInductive
<1>. QED  BY <1>1, JobsInvariantHolds, PTL
=============================================================================
