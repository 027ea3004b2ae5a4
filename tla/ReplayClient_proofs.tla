-------------------------- MODULE ReplayClient_proofs --------------------------
(***************************************************************************)
(* Proofs about ReplayClient: for any list of traces, implementation, line *)
(* out of turn and death of the mirror, the result of a replay is right    *)
(* about the implementation.                                               *)
(***************************************************************************)
EXTENDS ReplayClient, FiniteSetTheorems, TLAPS

(***************************************************************************)
(* Lines on their way: what appending, taking, spoiling and losing lines   *)
(* does to the others.                                                     *)
(***************************************************************************)
\* Whatever the lines are, they are a sequence.
IsLines(s) == s \in Seq({s[i] : i \in DOMAIN s})

\* A sequence of anything is one of its lines.
LEMMA SequencesAreLines ==
    ASSUME NEW S, NEW s \in Seq(S)
    PROVE  IsLines(s) /\ Len(s) \in Nat /\ DOMAIN s = 1..Len(s)
<1>. DEFINE T == {s[i] : i \in DOMAIN s}
<1>1. Len(s) \in Nat /\ DOMAIN s = 1..Len(s) /\ s = [i \in 1..Len(s) |-> s[i]]  OBVIOUS
<1>2. \A i \in 1..Len(s) : s[i] \in T  BY <1>1
<1>. HIDE DEF T
<1>3. s \in [1..Len(s) -> T]  BY <1>1, <1>2
<1>4. s \in Seq(T)  BY <1>1, <1>3
<1>. QED  BY <1>1, <1>4 DEF IsLines, T

\* Lines have a number, and are counted from one.
LEMMA LinesAreIndexed ==
    ASSUME NEW s, IsLines(s)
    PROVE  Len(s) \in Nat /\ DOMAIN s = 1..Len(s)
BY DEF IsLines

\* A line that is said is the last one.
LEMMA LineAppended ==
    ASSUME NEW s, NEW line, IsLines(s)
    PROVE  /\ IsLines(Append(s, line))
           /\ DOMAIN Append(s, line) = 1..(Len(s) + 1)
           /\ \A i \in DOMAIN s : i \in DOMAIN Append(s, line) /\ Append(s, line)[i] = s[i]
           /\ Append(s, line)[Len(s) + 1] = line
           /\ \A i \in DOMAIN Append(s, line) : i \in DOMAIN s \/ i = Len(s) + 1
<1>. DEFINE S == {s[i] : i \in DOMAIN s}
            T == S \cup {line}
<1>1. s \in Seq(S)  BY DEF IsLines
<1>. HIDE DEF S
<1>2. s \in Seq(T) /\ line \in T  BY <1>1
<1>. HIDE DEF T
<1>3. Append(s, line) \in Seq(T)  BY <1>2
<1>4. IsLines(Append(s, line))  BY <1>3, SequencesAreLines
<1>5. /\ DOMAIN Append(s, line) = 1..(Len(s) + 1) /\ Len(s) \in Nat /\ DOMAIN s = 1..Len(s)
      /\ \A i \in 1..Len(s) : Append(s, line)[i] = s[i]
      /\ Append(s, line)[Len(s) + 1] = line
  BY <1>2
<1>. QED  BY <1>4, <1>5

\* The first line is taken, and the others move up.
LEMMA FirstLineTaken ==
    ASSUME NEW s, IsLines(s), s # <<>>
    PROVE  /\ IsLines(Tail(s)) /\ 1 \in DOMAIN s /\ Head(s) = s[1]
           /\ \A i \in DOMAIN Tail(s) : i + 1 \in DOMAIN s /\ Tail(s)[i] = s[i + 1]
           /\ \A i \in DOMAIN s : i # 1 => i - 1 \in DOMAIN Tail(s)
<1>. DEFINE S == {s[i] : i \in DOMAIN s}
<1>1. s \in Seq(S)  BY DEF IsLines
<1>. HIDE DEF S
<1>2. Tail(s) \in Seq(S)  BY <1>1
<1>3. IsLines(Tail(s))  BY <1>2, SequencesAreLines
<1>4. /\ DOMAIN s = 1..Len(s) /\ Len(s) \in Nat /\ Len(s) # 0 /\ Head(s) = s[1]
      /\ DOMAIN Tail(s) = 1..(Len(s) - 1)
      /\ \A i \in 1..(Len(s) - 1) : Tail(s)[i] = s[i + 1]
  BY <1>1
<1>. QED  BY <1>3, <1>4

\* Of a line that is too long the beginning is taken and the rest stays.
LEMMA FirstLineSpoiled ==
    ASSUME NEW s, NEW line, IsLines(s), s # <<>>
    PROVE  /\ IsLines(<<line>> \o Tail(s)) /\ DOMAIN (<<line>> \o Tail(s)) = DOMAIN s
           /\ (<<line>> \o Tail(s))[1] = line
           /\ \A i \in DOMAIN s : i # 1 => (<<line>> \o Tail(s))[i] = s[i]
<1>. DEFINE S == {s[i] : i \in DOMAIN s}
            T == S \cup {line}
<1>1. s \in Seq(S)  BY DEF IsLines
<1>. HIDE DEF S
<1>2. s \in Seq(T) /\ line \in T  BY <1>1
<1>. HIDE DEF T
<1>3. Tail(s) \in Seq(T) /\ <<line>> \in Seq(T) /\ Len(<<line>>) = 1 /\ <<line>>[1] = line
  BY <1>2
<1>4. /\ DOMAIN s = 1..Len(s) /\ Len(s) \in Nat /\ Len(s) # 0
      /\ Len(Tail(s)) = Len(s) - 1
      /\ \A i \in 1..(Len(s) - 1) : Tail(s)[i] = s[i + 1]
  BY <1>2
<1>5. <<line>> \o Tail(s) \in Seq(T) /\ Len(<<line>> \o Tail(s)) = Len(s)
  BY <1>3, <1>4
<1>6. IsLines(<<line>> \o Tail(s)) /\ DOMAIN (<<line>> \o Tail(s)) = DOMAIN s
  BY <1>4, <1>5, SequencesAreLines
<1>7. (<<line>> \o Tail(s))[1] = line  BY <1>3, <1>4
<1>8. ASSUME NEW i \in DOMAIN s, i # 1 PROVE (<<line>> \o Tail(s))[i] = s[i]
  <2>1. i \in 2..Len(s) /\ i - 1 \in 1..(Len(s) - 1) /\ (i - 1) + 1 = i  BY <1>4, <1>8
  <2>2. (<<line>> \o Tail(s))[i] = Tail(s)[i - 1]  BY <1>3, <1>4, <2>1
  <2>. QED  BY <1>4, <2>1, <2>2
<1>. QED  BY <1>6, <1>7, <1>8

\* A mirror that dies loses the lines from some line on.
LEMMA LinesLost ==
    ASSUME NEW s, IsLines(s), NEW k \in 0..Len(s)
    PROVE  /\ IsLines(SubSeq(s, 1, k))
           /\ \A i \in DOMAIN SubSeq(s, 1, k) : i \in DOMAIN s /\ SubSeq(s, 1, k)[i] = s[i]
<1>. DEFINE S == {s[i] : i \in DOMAIN s}
<1>1. s \in Seq(S)  BY DEF IsLines
<1>. HIDE DEF S
<1>2. Len(s) \in Nat /\ DOMAIN s = 1..Len(s) /\ k \in Nat /\ k <= Len(s)  BY <1>1
<1>3. SubSeq(s, 1, k) \in Seq(S) /\ Len(SubSeq(s, 1, k)) = k  BY <1>1, <1>2
<1>4. \A i \in 1..k : SubSeq(s, 1, k)[i] = s[i]  BY <1>1, <1>2
<1>5. IsLines(SubSeq(s, 1, k)) /\ DOMAIN SubSeq(s, 1, k) = 1..k
  BY <1>3, SequencesAreLines
<1>. QED  BY <1>2, <1>4, <1>5

\* What the client takes from the connection: the first line; or, if there is none
\* or it is too long, an error.
LEMMA LineConsumed ==
    ASSUME IsLines(toClient), Consume
    PROVE  /\ link' = link /\ toMirror' = toMirror /\ mirrorUp' = mirrorUp
           /\ IsLines(toClient')
           /\ \/ /\ toClient # <<>> /\ toClient' = Tail(toClient)
                 /\ 1 \in DOMAIN toClient /\ Received = toClient[1]
              \/ /\ Received.kind \in {"transport_closed", "malformed"}
                 /\ \A i \in DOMAIN toClient' :
                       toClient'[i].kind # "malformed" =>
                           i \in DOMAIN toClient /\ toClient'[i] = toClient[i]
<1>1. link' = link /\ toMirror' = toMirror /\ mirrorUp' = mirrorUp  BY DEF Consume
<1>2. CASE ~HasLine
  <2>1. toClient' = toClient /\ Received.kind = "transport_closed"
    BY <1>2 DEF Consume, Received
  <2>. QED  BY <1>1, <2>1
<1>3. CASE HasLine /\ Head(toClient).kind # "oversized"
  <2>1. /\ toClient # <<>> /\ toClient' = Tail(toClient) /\ Received = Head(toClient)
    BY <1>3 DEF Consume, Received, Remaining, HasLine
  <2>. QED  BY <1>1, <2>1, FirstLineTaken
<1>4. CASE HasLine /\ Head(toClient).kind = "oversized"
  <2>1. /\ toClient # <<>> /\ toClient' = <<Malformed>> \o Tail(toClient)
        /\ Received = Malformed /\ Malformed.kind = "malformed"
    BY <1>4 DEF Consume, Received, Remaining, HasLine, Malformed
  <2>3. /\ IsLines(toClient') /\ DOMAIN toClient' = DOMAIN toClient
        /\ toClient'[1] = Malformed
        /\ \A i \in DOMAIN toClient : i # 1 => toClient'[i] = toClient[i]
    BY <2>1, FirstLineSpoiled
  <2>. QED  BY <1>1, <2>1, <2>3
<1>. QED  BY <1>2, <1>3, <1>4

(***************************************************************************)
(* The inductive invariant.                                                *)
(***************************************************************************)
TypeOK ==
    /\ traces \in TraceLists /\ mode \in {"replay", "validate", "gen_traces"}
    /\ at \in {"listening", "asking", "awaiting", "done"}
    /\ trace \in 1..(Len(traces) + 1)
    /\ step \in Nat \ {0} /\ served \in Nat
    /\ IF trace <= Len(traces) THEN step <= Len(traces[trace]) ELSE step = 1
    /\ IsLines(toClient)

\* Only a replay gets beyond the registration; the result is there once it is over.
StagesOfTheCall ==
    /\ mode # "replay" => /\ at \in {"listening", "done"}
                          /\ loop \in {"unregistered", "registered", "over"}
    /\ loop = "unregistered" => at = "listening" /\ toMirror = <<>>
    /\ loop # "over" <=> Running

\* What the mirror has still to read: the registration, or the report it waits for,
\* which is the implementation's answer to the step it asked for.
DueReport == Report(Due(implementation, traces, trace, step))

MirrorReads ==
    /\ at = "listening" => /\ toMirror \in {<<>>, <<Registration>>}
                           /\ trace = 1 /\ step = 1 /\ served = 0
    /\ at \in {"asking", "done"} => toMirror = <<>>
    /\ at = "awaiting" => trace <= Len(traces) /\ toMirror \in {<<>>, <<DueReport>>}

\* How far the client has got, given how far the mirror has.
Reported == at = "awaiting" /\ toMirror # <<>>

ClientKeepsPace ==
    loop # "over" /\ at # "done" =>
        /\ served = StepsBefore(traces, trace) + step - (IF Reported THEN 0 ELSE 1)
        /\ IF Reported THEN state = Due(implementation, traces, trace, step)
           ELSE /\ step > 1 => state = traces[trace][step - 1].expected
                /\ LastGiven(lastParam, traces, trace, step - 1)

\* The request on its way, or being computed, is for the step the mirror waits for.
DueRequest == [kind |-> IF step = 1 THEN "initial_state" ELSE "next_step",
               action |-> TheStep.action, value |-> TheStep.value]

RequestsAreDue ==
    /\ \A i \in DOMAIN toClient : Asks(toClient[i]) =>
          /\ at = "awaiting" /\ toMirror = <<>> /\ loop # "computing"
          /\ toClient[i] = DueRequest
          /\ \A j \in DOMAIN toClient : Asks(toClient[j]) => j = i
    /\ loop = "computing" =>
          /\ at = "awaiting" /\ toMirror = <<>>
          /\ asked = DueRequest /\ lastAction = TheStep.action

\* While the mirror waits, somebody has its request or its report.
NoRequestIsLost ==
    at = "awaiting" /\ mirrorUp /\ loop # "over" =>
        \/ \E i \in DOMAIN toClient : Asks(toClient[i])
        \/ loop = "computing"
        \/ toMirror # <<>>

\* What the client remembers of the step it answered last.
RemembersTheStep ==
    lastAction = TheStep.action /\ LastGiven(lastParam, traces, trace, step)

\* A verdict on its way, and the result it becomes.
Failed == at = "done" /\ trace <= Len(traces) /\ ~Meets(trace, step)

Verdicts ==
    /\ \A i \in DOMAIN toClient :
          /\ toClient[i].kind = "step_mismatch" =>
                Failed /\ RemembersTheStep /\ toClient[i].action \in {TheStep.action, NoAction}
          /\ toClient[i].kind = "all_steps_done" => trace > Len(traces)
    /\ Reported => RemembersTheStep
    /\ outcome.kind = "mismatch" =>
          /\ Failed
          /\ outcome.action = TheStep.action
          /\ LastGiven(outcome.params, traces, trace, step)
    /\ outcome.kind = "ok" /\ mode = "replay" => trace > Len(traces)

\* The mirror goes on only from steps that the implementation meets.
MetSoFar ==
    \A t \in 1..Len(traces) : \A s \in 1..Len(traces[t]) :
        t < trace \/ (t = trace /\ s < step) => Meets(t, s)

ReplayInductive ==
    /\ StagesOfTheCall
    /\ MirrorReads
    /\ ClientKeepsPace
    /\ RequestsAreDue
    /\ NoRequestIsLost
    /\ Verdicts
    /\ MetSoFar

(***************************************************************************)
(* The steps before a trace, counted.                                      *)
(***************************************************************************)
LEMMA StepsCounted ==
    ASSUME NEW ts \in TraceLists, NEW t \in 1..Len(ts)
    PROVE  /\ StepsBefore(ts, 1) = 0
           /\ StepsBefore(ts, t) \in Nat
           /\ StepsBefore(ts, t + 1) = StepsBefore(ts, t) + Len(ts[t])
<1>. DEFINE Steps(u) == {u} \X DOMAIN ts[u]
            Before(n) == UNION {Steps(u) : u \in 1..(n - 1)}
<1>1. /\ Len(ts) \in Nat /\ DOMAIN ts = 1..Len(ts)
      /\ \A u \in 1..Len(ts) : Len(ts[u]) \in Nat /\ DOMAIN ts[u] = 1..Len(ts[u])
  BY TracesAssumption
<1>2. \A u \in 1..Len(ts) : IsFiniteSet(Steps(u)) /\ Cardinality(Steps(u)) = Len(ts[u])
  <2>. SUFFICES ASSUME NEW u \in 1..Len(ts)
                PROVE  IsFiniteSet(Steps(u)) /\ Cardinality(Steps(u)) = Len(ts[u])
    OBVIOUS
  <2>1. IsFiniteSet(DOMAIN ts[u]) /\ Cardinality(DOMAIN ts[u]) = Len(ts[u])
    <3>1. IsFiniteSet(1..Len(ts[u])) /\ Cardinality(1..Len(ts[u])) = Len(ts[u])
      <4>1. 1 \in Int /\ Len(ts[u]) \in Int /\ Len(ts[u]) >= 0  BY <1>1
      <4>2. /\ IsFiniteSet(1..Len(ts[u]))
            /\ Cardinality(1..Len(ts[u])) = IF 1 > Len(ts[u]) THEN 0 ELSE Len(ts[u]) - 1 + 1
        BY <4>1, FS_Interval
      <4>. QED  BY <4>1, <4>2
    <3>. QED  BY <1>1, <3>1
  <2>2. IsFiniteSet({u}) /\ Cardinality({u}) = 1  BY FS_Singleton
  <2>3. /\ IsFiniteSet({u} \X DOMAIN ts[u])
        /\ Cardinality({u} \X DOMAIN ts[u]) = Cardinality({u}) * Cardinality(DOMAIN ts[u])
    BY <2>1, <2>2, FS_Product
  <2>. QED  BY <1>1, <2>1, <2>2, <2>3
<1>3. IsFiniteSet(Before(t))
  <2>1. IsFiniteSet(1..(t - 1))  BY FS_Interval
  <2>2. IsFiniteSet({Steps(u) : u \in 1..(t - 1)})
    <3>. DEFINE Image == {Steps(u) : u \in 1..(t - 1)}
                f == [u \in 1..(t - 1) |-> Steps(u)]
    <3>. HIDE DEF Steps
    <3>1. f \in Surjection(1..(t - 1), Image)  BY DEF Surjection
    <3>. HIDE DEF f, Image
    <3>2. IsFiniteSet(Image)  BY <2>1, <3>1, FS_Surjection
    <3>. QED  BY <3>2 DEF Image
  <2>3. \A u \in 1..(t - 1) : IsFiniteSet(Steps(u))
    <3>1. \A u \in 1..(t - 1) : u \in 1..Len(ts)  BY <1>1
    <3>. QED  BY <1>2, <3>1
  <2>. HIDE DEF Steps
  <2>. QED  BY <2>2, <2>3, FS_UNION
<1>4. Before(t + 1) = Before(t) \cup Steps(t) /\ Before(t) \cap Steps(t) = {}
  <2>1. \A u : u \in 1..((t + 1) - 1) <=> u \in 1..(t - 1) \/ u = t  OBVIOUS
  <2>2. \A u : u \in 1..(t - 1) => u # t  OBVIOUS
  <2>3. \A u, p : p \in Steps(u) => p[1] = u  OBVIOUS
  <2>. HIDE DEF Steps
  <2>4. Before(t + 1) = Before(t) \cup Steps(t)  BY <2>1
  <2>5. Before(t) \cap Steps(t) = {}  BY <2>2, <2>3
  <2>. QED  BY <2>4, <2>5
<1>5. Before(1) = {}
  <2>1. 1..(1 - 1) = {}  OBVIOUS
  <2>. QED  BY <2>1
<1>6. StepsBefore(ts, 1) = Cardinality(Before(1))
      /\ StepsBefore(ts, t) = Cardinality(Before(t))
      /\ StepsBefore(ts, t + 1) = Cardinality(Before(t + 1))
  BY DEF StepsBefore
<1>7. IsFiniteSet(Steps(t)) /\ Cardinality(Steps(t)) = Len(ts[t])  BY <1>2
<1>. HIDE DEF Before, Steps
<1>8. Cardinality(Before(t)) \in Nat  BY <1>3, FS_CardinalityType
<1>9. Cardinality(Before(t) \cup Steps(t)) =
         Cardinality(Before(t)) + Cardinality(Steps(t)) - Cardinality(Before(t) \cap Steps(t))
  BY <1>3, <1>7, FS_Union
<1>10. Cardinality({}) = 0  BY FS_EmptySet
<1>11. Len(ts[t]) \in Nat  BY <1>1
<1>12. StepsBefore(ts, t + 1) = Cardinality(Before(t)) + Len(ts[t])
  <2>1. Cardinality(Before(t) \cap Steps(t)) = 0  BY <1>4, <1>10
  <2>2. StepsBefore(ts, t + 1) = Cardinality(Before(t) \cup Steps(t))  BY <1>4, <1>6
  <2>. HIDE DEF StepsBefore
  <2>. QED  BY <1>7, <1>8, <1>9, <1>11, <2>1, <2>2
<1>. QED  BY <1>5, <1>6, <1>8, <1>10, <1>12

(***************************************************************************)
(* The invariant is inductive.                                             *)
(***************************************************************************)
\* The lines of the replay that are on their way after a step are some that were
\* before it, in their order.
Kept ==
    /\ IsLines(toClient')
    /\ \/ \A i \in DOMAIN toClient' : toClient'[i].kind \in ReplayKinds =>
              i \in DOMAIN toClient /\ toClient'[i] = toClient[i]
       \/ \A i \in DOMAIN toClient' : i + 1 \in DOMAIN toClient /\ toClient'[i] = toClient[i + 1]

LEMMA ConsumedIsKept ==
    ASSUME TypeOK, Consume
    PROVE  Kept
<1>0. "malformed" \notin ReplayKinds  BY DEF ReplayKinds
<1>1. IsLines(toClient')  BY LineConsumed DEF TypeOK
<1>2. CASE /\ Received.kind \in {"transport_closed", "malformed"}
           /\ \A i \in DOMAIN toClient' : toClient'[i].kind # "malformed" =>
                 i \in DOMAIN toClient /\ toClient'[i] = toClient[i]
  BY <1>0, <1>1, <1>2 DEF Kept
<1>3. CASE toClient # <<>> /\ toClient' = Tail(toClient)
  BY <1>1, <1>3, FirstLineTaken DEF Kept, TypeOK
<1>. QED  BY <1>2, <1>3, LineConsumed DEF TypeOK

\* What the invariant says of lines on their way it says of those that are kept.
LEMMA KeptLines ==
    ASSUME TypeOK, RequestsAreDue, Verdicts, Kept
    PROVE  \A i \in DOMAIN toClient' :
              /\ Asks(toClient'[i]) =>
                    /\ at = "awaiting" /\ toMirror = <<>> /\ loop # "computing"
                    /\ toClient'[i] = DueRequest
                    /\ \A j \in DOMAIN toClient' : Asks(toClient'[j]) => j = i
              /\ toClient'[i].kind = "step_mismatch" =>
                    /\ Failed /\ RemembersTheStep
                    /\ toClient'[i].action \in {TheStep.action, NoAction}
              /\ toClient'[i].kind = "all_steps_done" => trace > Len(traces)
<1>1. \A m : Asks(m) => m.kind \in ReplayKinds  BY DEF Asks, ReplayKinds
<1>2. {"step_mismatch", "all_steps_done"} \subseteq ReplayKinds  BY DEF ReplayKinds
<1>3. DOMAIN toClient' \subseteq Nat /\ DOMAIN toClient \subseteq Nat
  BY LinesAreIndexed DEF Kept, TypeOK
<1>4. CASE \A i \in DOMAIN toClient' : toClient'[i].kind \in ReplayKinds =>
              i \in DOMAIN toClient /\ toClient'[i] = toClient[i]
  BY <1>1, <1>2, <1>4 DEF RequestsAreDue, Verdicts
<1>5. CASE \A i \in DOMAIN toClient' : i + 1 \in DOMAIN toClient /\ toClient'[i] = toClient[i + 1]
  <2>. SUFFICES ASSUME NEW i \in DOMAIN toClient'
       PROVE  /\ Asks(toClient'[i]) =>
                    /\ at = "awaiting" /\ toMirror = <<>> /\ loop # "computing"
                    /\ toClient'[i] = DueRequest
                    /\ \A j \in DOMAIN toClient' : Asks(toClient'[j]) => j = i
              /\ toClient'[i].kind = "step_mismatch" =>
                    /\ Failed /\ RemembersTheStep
                    /\ toClient'[i].action \in {TheStep.action, NoAction}
              /\ toClient'[i].kind = "all_steps_done" => trace > Len(traces)
    OBVIOUS
  <2>1. i + 1 \in DOMAIN toClient /\ toClient'[i] = toClient[i + 1]  BY <1>5
  <2>2. ASSUME Asks(toClient'[i]), NEW j \in DOMAIN toClient', Asks(toClient'[j])
        PROVE  j = i
    <3>1. j + 1 \in DOMAIN toClient /\ toClient'[j] = toClient[j + 1]  BY <1>5
    <3>2. j + 1 = i + 1  BY <2>1, <2>2, <3>1 DEF RequestsAreDue
    <3>. QED  BY <1>3, <3>2
  <2>3. Asks(toClient'[i]) =>
           /\ at = "awaiting" /\ toMirror = <<>> /\ loop # "computing"
           /\ toClient'[i] = DueRequest
    BY <2>1 DEF RequestsAreDue
  <2>4. /\ toClient'[i].kind = "step_mismatch" =>
                    /\ Failed /\ RemembersTheStep
                    /\ toClient'[i].action \in {TheStep.action, NoAction}
        /\ toClient'[i].kind = "all_steps_done" => trace > Len(traces)
    BY <2>1 DEF Verdicts
  <2>. QED  BY <2>2, <2>3, <2>4
<1>. QED  BY <1>4, <1>5 DEF Kept

\* What a step of the client leaves alone.
ClientKeeps ==
    /\ mirror' = mirror /\ mode' = mode /\ implementation' = implementation
    /\ mirrorUp' = mirrorUp

\* A call that ends, with a result that is right.
LEMMA EndKeeps ==
    ASSUME TypeOK, ReplayInductive, ClientKeeps, Kept, toMirror' = toMirror,
           loop' = "over", ~Running', served' \in Nat,
           at = "listening" => served' = served,
           lastAction' = lastAction, lastParam' = lastParam,
           outcome'.kind = "mismatch" =>
              /\ Failed
              /\ outcome'.action = TheStep.action
              /\ LastGiven(outcome'.params, traces, trace, step),
           outcome'.kind = "ok" /\ mode = "replay" => trace > Len(traces)
    PROVE  TypeOK' /\ ReplayInductive'
<1>. USE DEF ReplayInductive
<1>1. /\ traces' = traces /\ at' = at /\ trace' = trace /\ step' = step
      /\ mode' = mode /\ implementation' = implementation /\ mirrorUp' = mirrorUp
  BY DEF ClientKeeps, mirror
<1>2. TypeOK'  BY <1>1 DEF TypeOK, Kept
<1>3. StagesOfTheCall'  BY <1>1 DEF StagesOfTheCall
<1>4. MirrorReads'  BY <1>1 DEF MirrorReads, DueReport, Registration
<1>5. ClientKeepsPace' /\ NoRequestIsLost'  BY DEF ClientKeepsPace, NoRequestIsLost
<1>6. RequestsAreDue'
  BY <1>1, KeptLines DEF RequestsAreDue, DueRequest, TheStep
<1>7. Verdicts'
  BY <1>1, KeptLines DEF Verdicts, Failed, Meets, RemembersTheStep, TheStep, Reported
<1>8. MetSoFar'  BY <1>1 DEF MetSoFar, Meets
<1>. QED  BY <1>2, <1>3, <1>4, <1>5, <1>6, <1>7, <1>8

\* A call that ends with neither verdict.
LEMMA EndWithAnErrorKeeps ==
    ASSUME TypeOK, ReplayInductive, ClientKeeps, Kept, toMirror' = toMirror,
           NEW kind, kind \notin {"running", "mismatch"},
           kind = "ok" => mode # "replay",
           End(Result(kind)), served' \in Nat, at = "listening" => served' = served
    PROVE  TypeOK' /\ ReplayInductive'
<1>1. /\ loop' = "over" /\ lastAction' = lastAction /\ lastParam' = lastParam
      /\ outcome'.kind = kind
  BY DEF End, Result
<1>. QED  BY <1>1, EndKeeps DEF Running

LEMMA NothingConsumed ==
    ASSUME TypeOK, toClient' = toClient
    PROVE  Kept
BY DEF TypeOK, Kept

\* The errors that lines become are no verdicts.
LEMMA ErrorsAreNoVerdicts ==
    ASSUME NEW m
    PROVE  /\ \E kind : /\ kind \notin {"running", "mismatch", "ok"}
                        /\ ErrorOf(m) = Result(kind)
           /\ \E kind : /\ kind \notin {"running", "mismatch", "ok"}
                        /\ ReplyError(m) = Result(kind)
<1>1. \E kind : kind \notin {"running", "mismatch", "ok"} /\ ErrorOf(m) = Result(kind)
  <2>1. CASE m.kind \in {"transport_closed", "malformed", "spec_invalid",
                         "protocol_error", "register_error"}
    BY <2>1 DEF ErrorOf
  <2>2. CASE m.kind \notin {"transport_closed", "malformed", "spec_invalid",
                            "protocol_error", "register_error"}
    <3>1. ErrorOf(m) = Result("unexpected")  BY <2>2 DEF ErrorOf
    <3>. QED  BY <3>1
  <2>. QED  BY <2>1, <2>2
<1>. QED  BY <1>1 DEF ReplyError

LEMMA RefuseBoundKeeps ==
    ASSUME TypeOK, ReplayInductive, RefuseBound
    PROVE  TypeOK' /\ ReplayInductive'
<1>1. /\ ClientKeeps /\ toMirror' = toMirror /\ toClient' = toClient
      /\ End(Result("invalid_argument")) /\ served' = served
  BY DEF RefuseBound, ClientKeeps, connection, client
<1>2. served' \in Nat  BY <1>1 DEF TypeOK
<1>. QED  BY <1>1, <1>2, NothingConsumed, EndWithAnErrorKeeps

\* A step that ends nothing, consumes no line of the replay and computes nothing.
LEMMA WaitingKeeps ==
    ASSUME TypeOK, ReplayInductive, ClientKeeps, IsLines(toClient'), served' = served,
           \A i \in DOMAIN toClient : Asks(toClient[i]) =>
              \E j \in DOMAIN toClient' : Asks(toClient'[j]),
           Kept, toMirror' = toMirror, loop # "over", loop # "computing",
           loop' \notin {"computing", "over", "unregistered"}, outcome' = outcome,
           mode # "replay" => loop' = "registered",
           state' = state, lastAction' = lastAction, lastParam' = lastParam
    PROVE  TypeOK' /\ ReplayInductive'
<1>. USE DEF ReplayInductive
<1>1. /\ traces' = traces /\ at' = at /\ trace' = trace /\ step' = step
      /\ mode' = mode /\ implementation' = implementation /\ mirrorUp' = mirrorUp
  BY DEF ClientKeeps, mirror
<1>2. TypeOK'  BY <1>1 DEF TypeOK
<1>3. StagesOfTheCall'  BY <1>1 DEF StagesOfTheCall, Running
<1>4. MirrorReads'  BY <1>1 DEF MirrorReads, DueReport, Registration
<1>5. ClientKeepsPace'  BY <1>1 DEF ClientKeepsPace, Reported
<1>6. RequestsAreDue'
  BY <1>1, KeptLines DEF RequestsAreDue, DueRequest, TheStep
<1>7. NoRequestIsLost'  BY <1>1 DEF NoRequestIsLost
<1>8. Verdicts'
  BY <1>1, KeptLines DEF Verdicts, Failed, Meets, RemembersTheStep, TheStep, Reported
<1>9. MetSoFar'  BY <1>1 DEF MetSoFar, Meets
<1>. QED  BY <1>2, <1>3, <1>4, <1>5, <1>6, <1>7, <1>8, <1>9

LEMMA RegisterKeeps ==
    ASSUME TypeOK, ReplayInductive, Register
    PROVE  TypeOK' /\ ReplayInductive'
<1>1. ClientKeeps /\ toClient' = toClient /\ served' = served /\ loop = "unregistered"
  BY DEF Register, ClientKeeps, client, Send, SendFails, connection
<1>2. at = "listening" /\ toMirror = <<>>
  BY <1>1 DEF ReplayInductive, StagesOfTheCall
<1>3. CASE SendFails(Registration) /\ End(Result("io"))
  <2>1. toMirror' = toMirror /\ served' \in Nat
    BY <1>1, <1>3 DEF SendFails, connection, TypeOK
  <2>. QED  BY <1>1, <1>3, <2>1, NothingConsumed, EndWithAnErrorKeeps
<1>4. CASE /\ Send(Registration) /\ loop' = "registered"
           /\ UNCHANGED <<asked, state, lastParam, lastAction, outcome>>
  <2>. USE DEF ReplayInductive
  <2>1. /\ traces' = traces /\ at' = at /\ trace' = trace /\ step' = step
        /\ mode' = mode /\ implementation' = implementation /\ mirrorUp' = mirrorUp
    BY <1>1 DEF ClientKeeps, mirror
  <2>2. toMirror' = <<Registration>>
    BY <1>2, <1>4 DEF Send, Delivered
  <2>3. /\ loop' = "registered" /\ state' = state /\ lastParam' = lastParam
        /\ lastAction' = lastAction /\ outcome' = outcome
    BY <1>4
  <2>4. TypeOK'  BY <1>1, <2>1 DEF TypeOK
  <2>5. StagesOfTheCall'  BY <1>1, <1>2, <2>1, <2>3 DEF StagesOfTheCall, Running
  <2>6. MirrorReads'  BY <1>1, <1>2, <2>1, <2>2 DEF MirrorReads, Registration
  <2>7. ClientKeepsPace'  BY <1>1, <1>2, <2>1, <2>3 DEF ClientKeepsPace, Reported
  <2>8. RequestsAreDue'  BY <1>1, <1>2, <2>3 DEF RequestsAreDue, Asks
  <2>9. NoRequestIsLost'  BY <1>2, <2>1 DEF NoRequestIsLost
  <2>10. Verdicts'
    BY <1>1, <1>2, <2>1, <2>3
       DEF Verdicts, Failed, Meets, RemembersTheStep, TheStep, Reported
  <2>11. MetSoFar'  BY <2>1 DEF MetSoFar, Meets
  <2>. QED  BY <2>4, <2>5, <2>6, <2>7, <2>8, <2>9, <2>10, <2>11
<1>. QED  BY <1>3, <1>4 DEF Register

LEMMA ReceiveReplyKeeps ==
    ASSUME TypeOK, ReplayInductive, ReceiveReply
    PROVE  TypeOK' /\ ReplayInductive'
<1>1. /\ Consume /\ loop = "registered" /\ served' = served
      /\ traces' = traces /\ mirror' = mirror /\ mode' = mode
      /\ implementation' = implementation
  BY DEF ReceiveReply, client, mirror
<1>2. ClientKeeps /\ toMirror' = toMirror /\ IsLines(toClient') /\ Kept
  BY <1>1, LineConsumed, ConsumedIsKept DEF ClientKeeps, TypeOK
<1>3. served' \in Nat  BY <1>1 DEF TypeOK
<1>4. CASE End(ReplyError(Received))
  <2>1. PICK kind : kind \notin {"running", "mismatch", "ok"}
                    /\ ReplyError(Received) = Result(kind)
    BY ErrorsAreNoVerdicts
  <2>. QED  BY <1>1, <1>2, <1>3, <1>4, <2>1, EndWithAnErrorKeeps
<1>5. CASE mode # "replay" /\ End(Result("ok"))
  BY <1>1, <1>2, <1>3, <1>5, EndWithAnErrorKeeps
<1>6. CASE /\ Received.kind \in Success /\ mode = "replay" /\ loop' = "receiving"
           /\ UNCHANGED <<asked, state, lastParam, lastAction, outcome>>
  <2>1. ~Asks(Received) /\ Received.kind \notin {"transport_closed", "malformed"}
    BY <1>6 DEF Success, Asks
  <2>2. toClient # <<>> /\ toClient' = Tail(toClient) /\ Received = toClient[1]
    BY <1>1, <2>1, LineConsumed DEF TypeOK
  <2>3. ASSUME NEW i \in DOMAIN toClient, Asks(toClient[i])
        PROVE  \E j \in DOMAIN toClient' : Asks(toClient'[j])
    <3>1. i # 1  BY <2>1, <2>2, <2>3
    <3>2. i - 1 \in DOMAIN toClient' /\ toClient'[i - 1] = toClient[(i - 1) + 1]
      BY <2>2, <3>1, FirstLineTaken DEF TypeOK
    <3>3. i \in Nat  BY LinesAreIndexed DEF TypeOK
    <3>. QED  BY <2>3, <3>2, <3>3
  <2>. QED  BY <1>1, <1>2, <1>6, <2>3, WaitingKeeps
<1>. QED  BY <1>4, <1>5, <1>6 DEF ReceiveReply

\* What a step of the loop leaves alone, and what it takes.
LEMMA LoopConsumes ==
    ASSUME TypeOK, ReplayInductive, Loop
    PROVE  /\ ClientKeeps /\ toMirror' = toMirror /\ Kept /\ IsLines(toClient')
           /\ served' = served /\ served' \in Nat /\ loop = "receiving" /\ mode = "replay"
           /\ Received.kind \notin {"transport_closed", "malformed"} =>
                 /\ toClient # <<>> /\ toClient' = Tail(toClient)
                 /\ 1 \in DOMAIN toClient /\ Received = toClient[1]
<1>1. /\ Consume /\ loop = "receiving" /\ mirror' = mirror /\ mode' = mode
      /\ implementation' = implementation /\ served' = served
  BY DEF Loop, Receive, client
<1>2. ClientKeeps /\ toMirror' = toMirror /\ IsLines(toClient') /\ Kept
  BY <1>1, LineConsumed, ConsumedIsKept DEF ClientKeeps, TypeOK
<1>3. mode = "replay"  BY <1>1 DEF ReplayInductive, StagesOfTheCall
<1>4. served' \in Nat  BY <1>1 DEF TypeOK
<1>. QED  BY <1>1, <1>2, <1>3, <1>4, LineConsumed DEF TypeOK

LEMMA TakeRequestKeeps ==
    ASSUME TypeOK, ReplayInductive, Loop, TakeRequest(Received)
    PROVE  TypeOK' /\ ReplayInductive'
<1>. USE DEF ReplayInductive
<1>1. /\ ClientKeeps /\ toMirror' = toMirror /\ Kept /\ IsLines(toClient')
      /\ served' = served /\ served' \in Nat /\ loop = "receiving" /\ mode = "replay"
      /\ Received.kind \notin {"transport_closed", "malformed"} =>
            /\ toClient # <<>> /\ toClient' = Tail(toClient)
            /\ 1 \in DOMAIN toClient /\ Received = toClient[1]
  BY LoopConsumes
<1>2. /\ Asks(Received) /\ loop' = "computing" /\ asked' = Received
      /\ lastAction' = Received.action /\ state' = state /\ lastParam' = lastParam
      /\ outcome' = outcome
  BY DEF TakeRequest
<1>3. toClient # <<>> /\ toClient' = Tail(toClient) /\ 1 \in DOMAIN toClient
      /\ Received = toClient[1]
  BY <1>1, <1>2 DEF Asks
<1>4. /\ at = "awaiting" /\ toMirror = <<>> /\ Received = DueRequest
      /\ \A j \in DOMAIN toClient : Asks(toClient[j]) => j = 1
  BY <1>2, <1>3 DEF RequestsAreDue
<1>5. lastAction' = TheStep.action  BY <1>2, <1>4 DEF DueRequest
<1>6. \A i \in DOMAIN toClient' : ~Asks(toClient'[i])
  <2>1. ASSUME NEW i \in DOMAIN toClient' PROVE ~Asks(toClient'[i])
    <3>1. i + 1 \in DOMAIN toClient /\ toClient'[i] = toClient[i + 1] /\ i \in Nat
      BY <1>1, <1>3, FirstLineTaken, LinesAreIndexed DEF TypeOK
    <3>2. i \in 1..Len(toClient')  BY <1>1, LinesAreIndexed
    <3>. QED  BY <1>4, <3>1, <3>2
  <2>. QED  BY <2>1
<1>7. /\ traces' = traces /\ at' = at /\ trace' = trace /\ step' = step
      /\ mode' = mode /\ implementation' = implementation /\ mirrorUp' = mirrorUp
  BY <1>1 DEF ClientKeeps, mirror
<1>8. TypeOK'  BY <1>1, <1>7 DEF TypeOK
<1>9. StagesOfTheCall'  BY <1>1, <1>2, <1>7 DEF StagesOfTheCall, Running
<1>10. MirrorReads'  BY <1>1, <1>7 DEF MirrorReads, DueReport, Registration
<1>11. ClientKeepsPace'  BY <1>1, <1>2, <1>7 DEF ClientKeepsPace, Reported
<1>12. RequestsAreDue'
  BY <1>1, <1>2, <1>4, <1>5, <1>6, <1>7 DEF RequestsAreDue, DueRequest, TheStep
<1>13. NoRequestIsLost'  BY <1>2 DEF NoRequestIsLost
<1>14. Verdicts'
  <2>1. \A i \in DOMAIN toClient' : toClient'[i].kind # "step_mismatch"
                                    /\ (toClient'[i].kind = "all_steps_done" => trace > Len(traces))
    BY <1>1, <1>4, KeptLines DEF Failed
  <2>2. ~Reported /\ ~Reported' /\ outcome.kind # "mismatch"
    BY <1>1, <1>4, <1>7 DEF Reported, Verdicts, Failed
  <2>. QED  BY <1>2, <1>7, <2>1, <2>2 DEF Verdicts
<1>15. MetSoFar'  BY <1>7 DEF MetSoFar, Meets
<1>. QED  BY <1>8, <1>9, <1>10, <1>11, <1>12, <1>13, <1>14, <1>15

LEMMA TakeStepOkKeeps ==
    ASSUME TypeOK, ReplayInductive, Loop, TakeStepOk(Received)
    PROVE  TypeOK' /\ ReplayInductive'
<1>1. /\ ClientKeeps /\ toMirror' = toMirror /\ Kept /\ IsLines(toClient')
      /\ served' = served /\ served' \in Nat /\ loop = "receiving" /\ mode = "replay"
      /\ Received.kind \notin {"transport_closed", "malformed"} =>
            /\ toClient # <<>> /\ toClient' = Tail(toClient)
            /\ 1 \in DOMAIN toClient /\ Received = toClient[1]
  BY LoopConsumes
<1>2. /\ Received.kind = "step_ok" /\ ~Asks(Received) /\ loop' = loop /\ outcome' = outcome
      /\ state' = state /\ lastAction' = lastAction /\ lastParam' = lastParam
  BY DEF TakeStepOk, stepping, Asks
<1>3. toClient # <<>> /\ toClient' = Tail(toClient) /\ Received = toClient[1]
  BY <1>1, <1>2
<1>4. ASSUME NEW i \in DOMAIN toClient, Asks(toClient[i])
      PROVE  \E j \in DOMAIN toClient' : Asks(toClient'[j])
  <2>1. i # 1  BY <1>2, <1>3, <1>4
  <2>2. i - 1 \in DOMAIN toClient' /\ toClient'[i - 1] = toClient[(i - 1) + 1]
    BY <1>3, <2>1, FirstLineTaken DEF TypeOK
  <2>3. i \in Nat  BY LinesAreIndexed DEF TypeOK
  <2>. QED  BY <1>4, <2>2, <2>3
<1>. QED  BY <1>1, <1>2, <1>4, WaitingKeeps

LEMMA TakeMismatchKeeps ==
    ASSUME TypeOK, ReplayInductive, Loop, TakeMismatch(Received)
    PROVE  TypeOK' /\ ReplayInductive'
<1>1. /\ ClientKeeps /\ toMirror' = toMirror /\ Kept /\ IsLines(toClient')
      /\ served' = served /\ served' \in Nat /\ loop = "receiving" /\ mode = "replay"
      /\ Received.kind \notin {"transport_closed", "malformed"} =>
            /\ toClient # <<>> /\ toClient' = Tail(toClient)
            /\ 1 \in DOMAIN toClient /\ Received = toClient[1]
  BY LoopConsumes
<1>2. /\ Received.kind = "step_mismatch" /\ loop' = "over"
      /\ lastAction' = lastAction /\ lastParam' = lastParam
      /\ outcome' = [kind |-> "mismatch", action |-> Blamed(Received), params |-> lastParam]
  BY DEF TakeMismatch, End
<1>3. 1 \in DOMAIN toClient /\ Received = toClient[1]  BY <1>1, <1>2
<1>4. /\ Failed /\ RemembersTheStep /\ Received.action \in {TheStep.action, NoAction}
  BY <1>2, <1>3 DEF ReplayInductive, Verdicts
<1>5. Blamed(Received) = TheStep.action  BY <1>4 DEF Blamed, RemembersTheStep
<1>6. /\ outcome'.kind = "mismatch" /\ outcome'.action = TheStep.action
      /\ outcome'.params = lastParam
  BY <1>2, <1>5
<1>. QED  BY <1>1, <1>2, <1>4, <1>6, EndKeeps DEF RemembersTheStep, Running

LEMMA TakeEndKeeps ==
    ASSUME TypeOK, ReplayInductive, Loop, TakeEnd(Received)
    PROVE  TypeOK' /\ ReplayInductive'
<1>1. /\ ClientKeeps /\ toMirror' = toMirror /\ Kept /\ IsLines(toClient')
      /\ served' = served /\ served' \in Nat /\ loop = "receiving" /\ mode = "replay"
      /\ Received.kind \notin {"transport_closed", "malformed"} =>
            /\ toClient # <<>> /\ toClient' = Tail(toClient)
            /\ 1 \in DOMAIN toClient /\ Received = toClient[1]
  BY LoopConsumes
<1>2. CASE Received.kind = "all_steps_done"
  <2>1. End(Result("ok"))  BY <1>2 DEF TakeEnd
  <2>2. /\ loop' = "over" /\ lastAction' = lastAction /\ lastParam' = lastParam
        /\ outcome'.kind = "ok"
    BY <2>1 DEF End, Result
  <2>3. trace > Len(traces)  BY <1>1, <1>2 DEF ReplayInductive, Verdicts
  <2>. QED  BY <1>1, <2>2, <2>3, EndKeeps DEF Running
<1>3. CASE Received.kind # "all_steps_done"
  <2>1. PICK kind : kind \notin {"running", "mismatch", "ok"} /\ End(Result(kind))
    BY <1>3, ErrorsAreNoVerdicts DEF TakeEnd
  <2>. QED  BY <1>1, <2>1, EndWithAnErrorKeeps
<1>. QED  BY <1>2, <1>3

\* Every step of the loop takes one of the four.
LEMMA LoopKeeps ==
    ASSUME TypeOK, ReplayInductive, Loop
    PROVE  TypeOK' /\ ReplayInductive'
BY TakeRequestKeeps, TakeStepOkKeeps, TakeMismatchKeeps, TakeEndKeeps DEF Loop, Receive

\* What is given last once a step is answered: what it gave, or, if it is the first
\* of its trace, what was given before.
LEMMA AnsweringGives ==
    ASSUME step \in Nat \ {0}, LastGiven(lastParam, traces, trace, step - 1),
           ParamsAfter = (IF step = 1 THEN lastParam ELSE TheStep.value)
    PROVE  LastGiven(ParamsAfter, traces, trace, step)
<1>1. CASE step = 1
  <2>1. ~(step - 1 > 1) /\ ~(step > 1)  BY <1>1
  <2>. QED  BY <1>1, <2>1 DEF LastGiven
<1>2. CASE step # 1
  <2>1. step > 1  BY <1>2
  <2>. QED  BY <1>2, <2>1 DEF LastGiven, TheStep
<1>. QED  BY <1>1, <1>2

\* What the last step of a trace leaves to the next trace.
LEMMA LastStepLeaves ==
    ASSUME NEW ts, NEW t \in Nat \ {0}, NEW p, Len(ts[t]) \in Nat \ {0},
           LastGiven(p, ts, t, Len(ts[t]))
    PROVE  LastGiven(p, ts, t + 1, 0)
<1>1. LastGiven(p, ts, t + 1, 0) <=> GivenBefore(p, ts, t + 1)  BY DEF LastGiven
<1>2. (t + 1) - 1 = t  OBVIOUS
<1>3. CASE Len(ts[t]) > 1
  <2>1. p = ts[t][Len(ts[t])].value  BY <1>3 DEF LastGiven
  <2>2. t \in 1..((t + 1) - 1) /\ (t + 1)..((t + 1) - 1) = {}  OBVIOUS
  <2>. QED  BY <1>1, <1>3, <2>1, <2>2 DEF GivenBefore
<1>4. CASE ~(Len(ts[t]) > 1)
  <2>1. Len(ts[t]) = 1 /\ GivenBefore(p, ts, t)
    <3>. DEFINE n == Len(ts[t])
    <3>1. n \in Nat \ {0} /\ ~(n > 1)  BY <1>4
    <3>2. GivenBefore(p, ts, t)  BY <1>4 DEF LastGiven
    <3>. HIDE DEF n
    <3>3. n = 1  BY <3>1
    <3>. QED  BY <3>2, <3>3 DEF n
  <2>2. \A u : u \in 1..((t + 1) - 1) <=> u \in 1..(t - 1) \/ u = t  OBVIOUS
  <2>3. CASE p = Empty /\ \A u \in 1..(t - 1) : Len(ts[u]) = 1
    BY <1>1, <2>1, <2>2, <2>3 DEF GivenBefore
  <2>4. CASE \E u \in 1..(t - 1) :
                /\ Len(ts[u]) > 1 /\ p = ts[u][Len(ts[u])].value
                /\ \A v \in (u + 1)..(t - 1) : Len(ts[v]) = 1
    <3>1. PICK u \in 1..(t - 1) :
                /\ Len(ts[u]) > 1 /\ p = ts[u][Len(ts[u])].value
                /\ \A v \in (u + 1)..(t - 1) : Len(ts[v]) = 1
      BY <2>4
    <3>2. \A v : v \in (u + 1)..((t + 1) - 1) => v \in (u + 1)..(t - 1) \/ v = t  OBVIOUS
    <3>3. \A v \in (u + 1)..((t + 1) - 1) : Len(ts[v]) = 1  BY <2>1, <3>1, <3>2
    <3>4. u \in 1..((t + 1) - 1)  BY <2>2
    <3>. QED  BY <1>1, <3>1, <3>3, <3>4 DEF GivenBefore
  <2>. QED  BY <2>1, <2>3, <2>4 DEF GivenBefore
<1>. QED  BY <1>3, <1>4

\* The callback is given what the step is due: so is its answer.
LEMMA AnswerIsDue ==
    ASSUME TypeOK, ReplayInductive, loop = "computing"
    PROVE  /\ Answer = Due(implementation, traces, trace, step)
           /\ ParamsAfter = (IF step = 1 THEN lastParam ELSE TheStep.value)
           /\ at = "awaiting" /\ toMirror = <<>> /\ lastAction = TheStep.action
           /\ trace <= Len(traces) /\ mode = "replay"
           /\ served = StepsBefore(traces, trace) + step - 1
           /\ LastGiven(ParamsAfter, traces, trace, step)
<1>. USE DEF ReplayInductive
<1>1. at = "awaiting" /\ toMirror = <<>> /\ asked = DueRequest /\ lastAction = TheStep.action
  BY DEF RequestsAreDue
<1>2. /\ asked.action = TheStep.action /\ asked.value = TheStep.value
      /\ asked.kind = (IF step = 1 THEN "initial_state" ELSE "next_step")
  BY <1>1 DEF DueRequest
<1>3. trace <= Len(traces) /\ mode = "replay"
  BY <1>1 DEF MirrorReads, StagesOfTheCall
<1>4. ~Reported  BY <1>1 DEF Reported
<1>5. /\ served = StepsBefore(traces, trace) + step - 1
      /\ step > 1 => state = traces[trace][step - 1].expected
      /\ LastGiven(lastParam, traces, trace, step - 1)
  BY <1>1, <1>4 DEF ClientKeepsPace
<1>6. step \in Nat \ {0}  BY DEF TypeOK
<1>7. Previous = IF step = 1 THEN Empty ELSE traces[trace][step - 1].expected
  BY <1>2, <1>5, <1>6 DEF Previous
<1>8. ParamsAfter = IF step = 1 THEN lastParam ELSE TheStep.value
  BY <1>2 DEF ParamsAfter
<1>9. Answer = Due(implementation, traces, trace, step)
  BY <1>2, <1>5, <1>7 DEF Answer, Due, TheStep
<1>10. LastGiven(ParamsAfter, traces, trace, step)
  BY <1>5, <1>6, <1>8, AnsweringGives
<1>. QED  BY <1>1, <1>3, <1>5, <1>8, <1>9, <1>10

LEMMA CallComputeKeeps ==
    ASSUME TypeOK, ReplayInductive, CallCompute
    PROVE  TypeOK' /\ ReplayInductive'
<1>1. /\ Answer = Due(implementation, traces, trace, step)
      /\ ParamsAfter = (IF step = 1 THEN lastParam ELSE TheStep.value)
      /\ at = "awaiting" /\ toMirror = <<>> /\ lastAction = TheStep.action
      /\ trace <= Len(traces) /\ mode = "replay"
      /\ served = StepsBefore(traces, trace) + step - 1
      /\ LastGiven(ParamsAfter, traces, trace, step)
  BY AnswerIsDue DEF CallCompute
<1>2. /\ loop = "computing" /\ mirror' = mirror /\ mode' = mode
      /\ implementation' = implementation
  BY DEF CallCompute
<1>3. served \in Nat /\ served + 1 \in Nat  BY DEF TypeOK
<1>4. CASE CallbackFails("panic") /\ served' = served
  <2>1. /\ End(Result("panic")) /\ toClient' = toClient /\ toMirror' = toMirror /\ ClientKeeps
    BY <1>2, <1>4 DEF CallbackFails, connection, ClientKeeps
  <2>. QED  BY <1>3, <1>4, <2>1, NothingConsumed, EndWithAnErrorKeeps
<1>5. CASE ReportFails(Answer) /\ served' = served + 1
  <2>1. /\ End(Result("io")) /\ toClient' = toClient /\ toMirror' = toMirror /\ ClientKeeps
    BY <1>2, <1>5 DEF ReportFails, SendFails, connection, ClientKeeps
  <2>. QED  BY <1>1, <1>3, <1>5, <2>1, NothingConsumed, EndWithAnErrorKeeps
<1>6. CASE ReportState(Answer) /\ served' = served + 1
  <2>. USE DEF ReplayInductive
  <2>1. /\ state' = Answer /\ lastParam' = ParamsAfter /\ loop' = "receiving"
        /\ lastAction' = lastAction /\ outcome' = outcome
        /\ toMirror' = <<Report(Answer)>> /\ toClient' = toClient /\ mirrorUp' = mirrorUp
    BY <1>1, <1>6 DEF ReportState, Send, Delivered
  <2>2. /\ traces' = traces /\ at' = at /\ trace' = trace /\ step' = step
        /\ mode' = mode /\ implementation' = implementation
    BY <1>2 DEF mirror
  <2>3. \A i \in DOMAIN toClient : ~Asks(toClient[i])  BY <1>2 DEF RequestsAreDue
  <2>4. Reported'  BY <1>1, <2>1, <2>2 DEF Reported
  <2>5. TypeOK'  BY <1>3, <1>6, <2>1, <2>2 DEF TypeOK
  <2>6. StagesOfTheCall'  BY <1>1, <1>2, <2>1, <2>2 DEF StagesOfTheCall, Running
  <2>7. MirrorReads'  BY <1>1, <2>1, <2>2 DEF MirrorReads, DueReport
  <2>8. ClientKeepsPace'
    <3>1. StepsBefore(traces, trace) + step \in Nat /\ step \in Nat
      BY <1>1, StepsCounted DEF TypeOK
    <3>2. StepsBefore(traces, trace) \in Nat
      BY <1>1, StepsCounted DEF TypeOK
    <3>3. served' = StepsBefore(traces, trace) + step - 0
      BY <1>1, <1>6, <3>1, <3>2
    <3>. QED  BY <1>1, <2>1, <2>2, <2>4, <3>3 DEF ClientKeepsPace
  <2>9. RequestsAreDue'  BY <2>1, <2>3 DEF RequestsAreDue, Asks
  <2>10. NoRequestIsLost'  BY <2>1 DEF NoRequestIsLost
  <2>11. RemembersTheStep'
    BY <1>1, <2>1, <2>2 DEF RemembersTheStep, TheStep, TypeOK
  <2>12. Verdicts'
    <3>1. /\ outcome.kind # "mismatch"
          /\ \A i \in DOMAIN toClient : toClient[i].kind # "step_mismatch"
      BY <1>1 DEF Verdicts, Failed
    <3>. QED  BY <2>1, <2>2, <2>11, <3>1 DEF Verdicts
  <2>13. MetSoFar'  BY <2>2 DEF MetSoFar, Meets
  <2>. QED  BY <2>5, <2>6, <2>7, <2>8, <2>9, <2>10, <2>12, <2>13
<1>. QED  BY <1>4, <1>5, <1>6 DEF CallCompute

\* A closed connection, or nothing at all.
LEMMA CloseKeeps ==
    ASSUME TypeOK, ReplayInductive, Close \/ UNCHANGED vars
    PROVE  TypeOK' /\ ReplayInductive'
<1>1. /\ traces' = traces /\ at' = at /\ trace' = trace /\ step' = step
      /\ mode' = mode /\ implementation' = implementation /\ mirrorUp' = mirrorUp
      /\ toClient' = toClient /\ toMirror' = toMirror /\ served' = served
      /\ loop' = loop /\ asked' = asked /\ state' = state /\ lastAction' = lastAction
      /\ lastParam' = lastParam /\ outcome' = outcome
  BY DEF Close, BeginClose, EndClose, vars, connection, mirror, stepping, client
<1>. USE DEF ReplayInductive
<1>2. TypeOK'  BY <1>1 DEF TypeOK
<1>3. StagesOfTheCall'  BY <1>1 DEF StagesOfTheCall, Running
<1>4. MirrorReads'  BY <1>1 DEF MirrorReads, DueReport, Registration
<1>5. ClientKeepsPace'  BY <1>1 DEF ClientKeepsPace, Reported
<1>6. RequestsAreDue'  BY <1>1 DEF RequestsAreDue, DueRequest, TheStep
<1>7. NoRequestIsLost'  BY <1>1 DEF NoRequestIsLost
<1>8. Verdicts'
  BY <1>1 DEF Verdicts, Failed, Meets, RemembersTheStep, TheStep, Reported
<1>9. MetSoFar'  BY <1>1 DEF MetSoFar, Meets
<1>. QED  BY <1>2, <1>3, <1>4, <1>5, <1>6, <1>7, <1>8, <1>9

\* What a step of the mirror leaves alone, and what a line it says adds.
MirrorKeeps ==
    /\ traces' = traces /\ mode' = mode /\ implementation' = implementation
    /\ served' = served /\ loop' = loop /\ asked' = asked /\ state' = state
    /\ lastAction' = lastAction /\ lastParam' = lastParam /\ outcome' = outcome

LEMMA LineSaid ==
    ASSUME TypeOK, NEW line, Says(line)
    PROVE  /\ IsLines(toClient') /\ mirrorUp /\ mirrorUp' = mirrorUp
           /\ \A i \in DOMAIN toClient' :
                 \/ i \in DOMAIN toClient /\ toClient'[i] = toClient[i]
                 \/ i = Len(toClient) + 1 /\ toClient'[i] = line
           /\ \A i \in DOMAIN toClient : i \in DOMAIN toClient' /\ toClient'[i] = toClient[i]
           /\ Len(toClient) + 1 \in DOMAIN toClient' /\ toClient'[Len(toClient) + 1] = line
<1>1. /\ IsLines(toClient) /\ toClient' = Append(toClient, line)
      /\ mirrorUp /\ mirrorUp' = mirrorUp
  BY DEF TypeOK, Says
<1>2. Len(toClient) \in Nat  BY <1>1, LinesAreIndexed
<1>. QED  BY <1>1, <1>2, LineAppended

LEMMA IntrusionIsKept ==
    ASSUME TypeOK, NEW line, Says(line), line.kind \notin ReplayKinds
    PROVE  Kept
BY LineSaid DEF Kept

LEMMA MirrorRegistersKeeps ==
    ASSUME TypeOK, ReplayInductive, MirrorRegisters, MirrorKeeps
    PROVE  TypeOK' /\ ReplayInductive'
<1>. USE DEF ReplayInductive, MirrorKeeps
<1>1. at = "listening" /\ toMirror = <<Registration>> /\ trace = 1 /\ step = 1 /\ served = 0
  BY DEF MirrorRegisters, MirrorReads
<1>2. Head(toMirror) = Registration /\ Tail(toMirror) = <<>>  BY <1>1
<1>3. Registration.kind \in {"register", "register_validate", "register_trace_gen"}
      /\ Registration = [kind |-> Registration.kind]
      /\ (Registration.kind = "register" => mode = "replay")
  BY DEF TypeOK, Registration
<1>4. PICK reply \in RegistrationReplies(Registration) :
         /\ Says(reply)
         /\ at' = IF reply.kind = "spec_valid" /\ Registration.kind = "register"
                  THEN "asking" ELSE "done"
  BY <1>2 DEF MirrorRegisters
<1>5. reply.kind \notin ReplayKinds  BY <1>3, <1>4, LinesAssumption
<1>6. Kept /\ IsLines(toClient') /\ mirrorUp' = mirrorUp
  BY <1>4, <1>5, LineSaid, IntrusionIsKept
<1>7. /\ toMirror' = <<>> /\ trace' = trace /\ step' = step
      /\ at' \in {"asking", "done"} /\ (mode # "replay" => at' = "done")
  BY <1>2, <1>3, <1>4 DEF MirrorRegisters
<1>8. loop # "unregistered" /\ loop # "computing" /\ ~Reported /\ ~Failed
  BY <1>1 DEF StagesOfTheCall, RequestsAreDue, Reported, Failed
<1>9. /\ \A i \in DOMAIN toClient' : ~Asks(toClient'[i])
      /\ \A i \in DOMAIN toClient' : toClient'[i].kind # "step_mismatch"
      /\ \A i \in DOMAIN toClient' : toClient'[i].kind = "all_steps_done" => trace > Len(traces)
  BY <1>1, <1>6, <1>8, KeptLines
<1>10. TypeOK'  BY <1>6, <1>7 DEF TypeOK
<1>11. StagesOfTheCall'  BY <1>7, <1>8 DEF StagesOfTheCall, Running
<1>12. MirrorReads'  BY <1>7 DEF MirrorReads
<1>13. ~Reported'  BY <1>7 DEF Reported
<1>14. ClientKeepsPace'  BY <1>1, <1>7, <1>8, <1>13 DEF ClientKeepsPace
<1>15. RequestsAreDue'  BY <1>8, <1>9 DEF RequestsAreDue
<1>16. NoRequestIsLost'  BY <1>7 DEF NoRequestIsLost
<1>17. Verdicts'
  <2>1. outcome.kind # "mismatch" /\ (outcome.kind = "ok" /\ mode = "replay" => trace > Len(traces))
    BY <1>8 DEF Verdicts
  <2>. QED  BY <1>7, <1>9, <1>13, <2>1 DEF Verdicts
<1>18. MetSoFar'  BY <1>7 DEF MetSoFar, Meets
<1>. QED  BY <1>10, <1>11, <1>12, <1>14, <1>15, <1>16, <1>17, <1>18

LEMMA MirrorAsksKeeps ==
    ASSUME TypeOK, ReplayInductive, MirrorAsks, MirrorKeeps
    PROVE  TypeOK' /\ ReplayInductive'
<1>. USE DEF ReplayInductive, MirrorKeeps
<1>1. /\ at = "asking" /\ trace <= Len(traces) /\ at' = "awaiting"
      /\ toMirror' = toMirror /\ trace' = trace /\ step' = step
      /\ Says(DueRequest)
  BY DEF MirrorAsks, DueRequest
<1>2. toMirror = <<>> /\ mode = "replay"  BY <1>1 DEF MirrorReads, StagesOfTheCall
<1>3. Asks(DueRequest) /\ DueRequest.kind \notin {"step_mismatch", "all_steps_done"}
  BY DEF DueRequest, Asks
<1>4. loop # "unregistered" /\ loop # "computing" /\ ~Reported /\ ~Failed
  BY <1>1 DEF StagesOfTheCall, RequestsAreDue, Reported, Failed
<1>5. /\ IsLines(toClient') /\ mirrorUp' = mirrorUp
      /\ \A i \in DOMAIN toClient' :
            \/ i \in DOMAIN toClient /\ toClient'[i] = toClient[i]
            \/ i = Len(toClient) + 1 /\ toClient'[i] = DueRequest
      /\ Len(toClient) + 1 \in DOMAIN toClient' /\ toClient'[Len(toClient) + 1] = DueRequest
  BY <1>1, LineSaid
<1>6. \A i \in DOMAIN toClient : ~Asks(toClient[i])  BY <1>1 DEF RequestsAreDue
<1>7. \A i \in DOMAIN toClient' : Asks(toClient'[i]) =>
         i = Len(toClient) + 1 /\ toClient'[i] = DueRequest
  BY <1>5, <1>6
<1>8. DueRequest' = DueRequest  BY <1>1 DEF DueRequest, TheStep
<1>9. TypeOK'  BY <1>1, <1>5 DEF TypeOK
<1>10. StagesOfTheCall'  BY <1>1, <1>2, <1>4 DEF StagesOfTheCall, Running
<1>11. MirrorReads'  BY <1>1, <1>2 DEF MirrorReads
<1>12. ~Reported'  BY <1>1, <1>2 DEF Reported
<1>13. ClientKeepsPace'  BY <1>1, <1>4, <1>12 DEF ClientKeepsPace
<1>14. RequestsAreDue'  BY <1>1, <1>2, <1>4, <1>7, <1>8 DEF RequestsAreDue
<1>15. NoRequestIsLost'  BY <1>3, <1>5 DEF NoRequestIsLost
<1>16. Verdicts'
  <2>1. /\ outcome.kind # "mismatch" /\ (outcome.kind = "ok" /\ mode = "replay" => trace > Len(traces))
        /\ \A i \in DOMAIN toClient : /\ toClient[i].kind # "step_mismatch"
                                      /\ toClient[i].kind = "all_steps_done" => trace > Len(traces)
    BY <1>4 DEF Verdicts
  <2>2. \A i \in DOMAIN toClient' : /\ toClient'[i].kind # "step_mismatch"
                                    /\ toClient'[i].kind = "all_steps_done" => trace > Len(traces)
    BY <1>3, <1>5, <2>1
  <2>. QED  BY <1>1, <1>12, <2>1, <2>2 DEF Verdicts
<1>17. MetSoFar'  BY <1>1 DEF MetSoFar, Meets
<1>. QED  BY <1>9, <1>10, <1>11, <1>13, <1>14, <1>15, <1>16, <1>17
\* What the mirror finds in the report it waits for.
LEMMA ReportIsDue ==
    ASSUME TypeOK, ReplayInductive, at = "awaiting", toMirror # <<>>
    PROVE  /\ Head(toMirror).value = Due(implementation, traces, trace, step)
           /\ Tail(toMirror) = <<>> /\ trace <= Len(traces) /\ Reported /\ mode = "replay"
           /\ loop # "unregistered" /\ loop # "computing" /\ ~Failed
           /\ \A i \in DOMAIN toClient : ~Asks(toClient[i])
<1>. USE DEF ReplayInductive
<1>1. toMirror = <<DueReport>> /\ trace <= Len(traces)  BY DEF MirrorReads
<1>2. Head(toMirror) = DueReport /\ Tail(toMirror) = <<>>  BY <1>1
<1>3. Head(toMirror).value = Due(implementation, traces, trace, step)
  BY <1>2 DEF DueReport, Report
<1>. QED
  BY <1>1, <1>2, <1>3 DEF StagesOfTheCall, RequestsAreDue, Reported, Failed

\* A step_ok: the implementation meets the step, and the next one is due.
LEMMA MirrorAgreesKeeps ==
    ASSUME TypeOK, ReplayInductive, MirrorAgrees, MirrorKeeps
    PROVE  TypeOK' /\ ReplayInductive'
<1>. USE DEF ReplayInductive, MirrorKeeps
<1>. DEFINE Line == [kind |-> "step_ok"]
<1>1. /\ at = "awaiting" /\ toMirror # <<>> /\ at' = "asking"
      /\ Head(toMirror).value = TheStep.expected /\ Says(Line)
      /\ toMirror' = Tail(toMirror)
      /\ IF step < Len(traces[trace]) THEN step' = step + 1 /\ trace' = trace
                                      ELSE step' = 1 /\ trace' = trace + 1
  BY DEF MirrorAgrees
<1>2. /\ Head(toMirror).value = Due(implementation, traces, trace, step)
      /\ Tail(toMirror) = <<>> /\ trace <= Len(traces) /\ Reported /\ mode = "replay"
      /\ loop # "unregistered" /\ loop # "computing" /\ ~Failed
      /\ \A i \in DOMAIN toClient : ~Asks(toClient[i])
  BY <1>1, ReportIsDue
<1>3. Meets(trace, step)  BY <1>1, <1>2 DEF Meets, TheStep
<1>4. /\ ~Asks(Line) /\ Line.kind \notin {"step_mismatch", "all_steps_done"}
  BY DEF Asks
<1>5. /\ IsLines(toClient') /\ mirrorUp' = mirrorUp
      /\ \A i \in DOMAIN toClient' :
            \/ i \in DOMAIN toClient /\ toClient'[i] = toClient[i]
            \/ i = Len(toClient) + 1 /\ toClient'[i] = Line
  BY <1>1, LineSaid
<1>6. /\ traces \in TraceLists /\ trace \in 1..Len(traces) /\ step \in 1..Len(traces[trace])
      /\ Len(traces) \in Nat /\ Len(traces[trace]) \in Nat \ {0}
      /\ DOMAIN traces = 1..Len(traces)
  <2>1. /\ traces \in TraceLists /\ Len(traces) \in Nat /\ DOMAIN traces = 1..Len(traces)
    BY TracesAssumption DEF TypeOK
  <2>2. trace \in 1..Len(traces)  BY <1>2, <2>1 DEF TypeOK
  <2>3. Len(traces[trace]) \in Nat \ {0}  BY <2>1, <2>2, TracesAssumption
  <2>4. step \in 1..Len(traces[trace])  BY <1>2, <2>3 DEF TypeOK
  <2>. QED  BY <2>1, <2>2, <2>3, <2>4
<1>7. TypeOK'
  <2>1. CASE step < Len(traces[trace])
    <3>1. step' = step + 1 /\ trace' = trace  BY <1>1, <2>1
    <3>2. step + 1 <= Len(traces[trace]) /\ step + 1 \in Nat \ {0}  BY <1>6, <2>1
    <3>. QED  BY <1>1, <1>2, <1>5, <3>1, <3>2 DEF TypeOK
  <2>2. CASE ~(step < Len(traces[trace]))
    <3>1. step' = 1 /\ trace' = trace + 1  BY <1>1, <2>2
    <3>2. trace + 1 \in 1..(Len(traces) + 1)  BY <1>6
    <3>3. trace + 1 <= Len(traces) =>
             trace + 1 \in 1..Len(traces) /\ Len(traces[trace + 1]) \in Nat \ {0}
      BY <1>6, <3>2, TracesAssumption
    <3>4. trace + 1 <= Len(traces) => 1 <= Len(traces[trace + 1])  BY <3>3
    <3>. QED  BY <1>1, <1>5, <3>1, <3>2, <3>4 DEF TypeOK
  <2>. QED  BY <2>1, <2>2
<1>8. StagesOfTheCall'  BY <1>1, <1>2 DEF StagesOfTheCall, Running
<1>9. MirrorReads'  BY <1>1, <1>2 DEF MirrorReads
<1>10. ~Reported'  BY <1>1 DEF Reported
<1>11. ClientKeepsPace'
  <2>. SUFFICES ASSUME loop # "over"
       PROVE  /\ served = StepsBefore(traces, trace') + step' - 1
              /\ step' > 1 => state = traces[trace'][step' - 1].expected
              /\ LastGiven(lastParam, traces, trace', step' - 1)
    BY <1>10 DEF ClientKeepsPace
  <2>1. /\ served = StepsBefore(traces, trace) + step - 0
        /\ state = Due(implementation, traces, trace, step)
    BY <1>1, <1>2 DEF ClientKeepsPace
  <2>2. state = traces[trace][step].expected  BY <1>1, <1>2, <2>1 DEF TheStep
  <2>3. /\ StepsBefore(traces, trace) \in Nat
        /\ StepsBefore(traces, trace + 1) = StepsBefore(traces, trace) + Len(traces[trace])
    BY <1>6, StepsCounted
  <2>6. LastGiven(lastParam, traces, trace, step)
    BY <1>2 DEF Verdicts, RemembersTheStep
  <2>4. CASE step < Len(traces[trace])
    <3>1. step' = step + 1 /\ trace' = trace /\ step' - 1 = step  BY <1>1, <1>6, <2>4
    <3>2. served = StepsBefore(traces, trace) + (step + 1) - 1  BY <1>6, <2>1, <2>3
    <3>. QED  BY <2>2, <2>6, <3>1, <3>2
  <2>5. CASE ~(step < Len(traces[trace]))
    <3>1. step' = 1 /\ trace' = trace + 1 /\ step = Len(traces[trace])  BY <1>1, <1>6, <2>5
    <3>2. served = StepsBefore(traces, trace + 1) + 1 - 1  BY <1>6, <2>1, <2>3, <3>1
    <3>3. LastGiven(lastParam, traces, trace + 1, 0)
      BY <1>6, <2>6, <3>1, LastStepLeaves
    <3>. QED  BY <3>1, <3>2, <3>3
  <2>. QED  BY <2>4, <2>5
<1>12. RequestsAreDue'
  <2>1. \A i \in DOMAIN toClient' : ~Asks(toClient'[i])  BY <1>2, <1>4, <1>5
  <2>. QED  BY <1>2, <2>1 DEF RequestsAreDue
<1>13. NoRequestIsLost'  BY <1>1 DEF NoRequestIsLost
<1>14. Verdicts'
  <2>1. ~(trace > Len(traces))  BY <1>6
  <2>2. /\ outcome.kind # "mismatch" /\ ~(outcome.kind = "ok" /\ mode = "replay")
        /\ \A i \in DOMAIN toClient : toClient[i].kind \notin {"step_mismatch", "all_steps_done"}
    BY <1>2, <2>1 DEF Verdicts
  <2>3. \A i \in DOMAIN toClient' : toClient'[i].kind \notin {"step_mismatch", "all_steps_done"}
    BY <1>4, <1>5, <2>2
  <2>. QED  BY <1>10, <2>2, <2>3 DEF Verdicts
<1>15. MetSoFar'
  <2>. SUFFICES ASSUME NEW t \in 1..Len(traces), NEW s \in 1..Len(traces[t]),
                       t < trace' \/ (t = trace' /\ s < step')
                PROVE  Meets(t, s)
    BY DEF MetSoFar, Meets
  <2>1. Len(traces[t]) \in Nat  BY <1>6, TracesAssumption
  <2>2. t < trace \/ (t = trace /\ s < step) \/ (t = trace /\ s = step)
    <3>1. CASE step < Len(traces[trace])  BY <1>1, <1>6, <2>1, <3>1
    <3>2. CASE ~(step < Len(traces[trace]))
      <4>1. t < trace + 1 \/ (t = trace + 1 /\ s < 1)  BY <1>1, <3>2
      <4>2. t < trace \/ t = trace  BY <1>6, <2>1, <4>1
      <4>. QED  BY <1>6, <2>1, <3>2, <4>2
    <3>. QED  BY <3>1, <3>2
  <2>. QED  BY <1>3, <2>2 DEF MetSoFar
<1>. QED  BY <1>7, <1>8, <1>9, <1>11, <1>12, <1>13, <1>14, <1>15

\* A step_mismatch: the implementation does not meet the step.
LEMMA MirrorDisagreesKeeps ==
    ASSUME TypeOK, ReplayInductive, MirrorDisagrees, MirrorKeeps
    PROVE  TypeOK' /\ ReplayInductive'
<1>. USE DEF ReplayInductive, MirrorKeeps
<1>1. /\ at = "awaiting" /\ toMirror # <<>> /\ at' = "done"
      /\ Head(toMirror).value # TheStep.expected
      /\ toMirror' = Tail(toMirror) /\ trace' = trace /\ step' = step
  BY DEF MirrorDisagrees
<1>2. PICK action \in {TheStep.action, NoAction} :
         Says([kind |-> "step_mismatch", action |-> action])
  BY DEF MirrorDisagrees
<1>. DEFINE Line == [kind |-> "step_mismatch", action |-> action]
<1>3. /\ Head(toMirror).value = Due(implementation, traces, trace, step)
      /\ Tail(toMirror) = <<>> /\ trace <= Len(traces) /\ Reported /\ mode = "replay"
      /\ loop # "unregistered" /\ loop # "computing" /\ ~Failed
      /\ \A i \in DOMAIN toClient : ~Asks(toClient[i])
  BY <1>1, ReportIsDue
<1>4. ~Meets(trace, step)  BY <1>1, <1>3 DEF Meets, TheStep
<1>5. Failed'  BY <1>1, <1>3, <1>4 DEF Failed, Meets
<1>6. RemembersTheStep  BY <1>3 DEF Verdicts
<1>7. /\ ~Asks(Line) /\ Line.kind = "step_mismatch" /\ Line.action \in {TheStep.action, NoAction}
  BY <1>2 DEF Asks
<1>8. /\ IsLines(toClient') /\ mirrorUp' = mirrorUp
      /\ \A i \in DOMAIN toClient' :
            \/ i \in DOMAIN toClient /\ toClient'[i] = toClient[i]
            \/ i = Len(toClient) + 1 /\ toClient'[i] = Line
  BY <1>2, LineSaid
<1>9. TypeOK'  BY <1>1, <1>8 DEF TypeOK
<1>10. StagesOfTheCall'  BY <1>1, <1>3 DEF StagesOfTheCall, Running
<1>11. MirrorReads'  BY <1>1, <1>3 DEF MirrorReads
<1>12. ~Reported'  BY <1>1 DEF Reported
<1>13. ClientKeepsPace'  BY <1>1 DEF ClientKeepsPace
<1>14. RequestsAreDue'
  <2>1. \A i \in DOMAIN toClient' : ~Asks(toClient'[i])  BY <1>3, <1>7, <1>8
  <2>. QED  BY <1>3, <2>1 DEF RequestsAreDue
<1>15. NoRequestIsLost'  BY <1>1 DEF NoRequestIsLost
<1>16. Verdicts'
  <2>1. ~(trace > Len(traces))
    BY <1>3, TracesAssumption DEF TypeOK
  <2>2. /\ outcome.kind # "mismatch" /\ ~(outcome.kind = "ok" /\ mode = "replay")
        /\ \A i \in DOMAIN toClient : toClient[i].kind \notin {"step_mismatch", "all_steps_done"}
    BY <1>3, <2>1 DEF Verdicts
  <2>3. RemembersTheStep' /\ TheStep' = TheStep
    BY <1>1, <1>6 DEF RemembersTheStep, TheStep
  <2>4. \A i \in DOMAIN toClient' :
           /\ toClient'[i].kind = "step_mismatch" => toClient'[i].action \in {TheStep.action, NoAction}
           /\ toClient'[i].kind # "all_steps_done"
    BY <1>7, <1>8, <2>2
  <2>. QED  BY <1>5, <1>12, <2>2, <2>3, <2>4 DEF Verdicts
<1>17. MetSoFar'  BY <1>1 DEF MetSoFar, Meets
<1>. QED  BY <1>9, <1>10, <1>11, <1>13, <1>14, <1>15, <1>16, <1>17
\* An all_steps_done: no step is left.
LEMMA MirrorFinishesKeeps ==
    ASSUME TypeOK, ReplayInductive, MirrorFinishes, MirrorKeeps
    PROVE  TypeOK' /\ ReplayInductive'
<1>. USE DEF ReplayInductive, MirrorKeeps
<1>. DEFINE Line == [kind |-> "all_steps_done"]
<1>1. /\ at = "asking" /\ trace > Len(traces) /\ at' = "done" /\ Says(Line)
      /\ toMirror' = toMirror /\ trace' = trace /\ step' = step
  BY DEF MirrorFinishes
<1>2. /\ toMirror = <<>> /\ loop # "unregistered" /\ loop # "computing"
      /\ mode = "replay" /\ ~Reported /\ ~Failed
      /\ \A i \in DOMAIN toClient : ~Asks(toClient[i])
  BY <1>1 DEF MirrorReads, StagesOfTheCall, RequestsAreDue, Reported, Failed
<1>3. ~Asks(Line) /\ Line.kind # "step_mismatch"  BY DEF Asks
<1>4. /\ IsLines(toClient') /\ mirrorUp' = mirrorUp
      /\ \A i \in DOMAIN toClient' :
            \/ i \in DOMAIN toClient /\ toClient'[i] = toClient[i]
            \/ i = Len(toClient) + 1 /\ toClient'[i] = Line
  BY <1>1, LineSaid
<1>5. TypeOK'  BY <1>1, <1>4 DEF TypeOK
<1>6. StagesOfTheCall'  BY <1>1, <1>2 DEF StagesOfTheCall, Running
<1>7. MirrorReads'  BY <1>1, <1>2 DEF MirrorReads
<1>8. ~Reported'  BY <1>1 DEF Reported
<1>9. ClientKeepsPace'  BY <1>1 DEF ClientKeepsPace
<1>10. RequestsAreDue'
  <2>1. \A i \in DOMAIN toClient' : ~Asks(toClient'[i])  BY <1>2, <1>3, <1>4
  <2>. QED  BY <1>2, <2>1 DEF RequestsAreDue
<1>11. NoRequestIsLost'  BY <1>1 DEF NoRequestIsLost
<1>12. Verdicts'
  <2>1. /\ outcome.kind # "mismatch"
        /\ \A i \in DOMAIN toClient : toClient[i].kind # "step_mismatch"
    BY <1>2 DEF Verdicts
  <2>2. \A i \in DOMAIN toClient' : toClient'[i].kind # "step_mismatch"
    BY <1>3, <1>4, <2>1
  <2>. QED  BY <1>1, <1>8, <2>1, <2>2 DEF Verdicts
<1>13. MetSoFar'  BY <1>1 DEF MetSoFar, Meets
<1>. QED  BY <1>5, <1>6, <1>7, <1>9, <1>10, <1>11, <1>12, <1>13

\* A line out of turn, or the end of a mirror that has answered.
LEMMA MirrorIntrudesKeeps ==
    ASSUME TypeOK, ReplayInductive, MirrorIntrudes \/ MirrorExits, MirrorKeeps
    PROVE  TypeOK' /\ ReplayInductive'
<1>. USE DEF ReplayInductive, MirrorKeeps
<1>1. /\ at' = at /\ toMirror' = toMirror /\ trace' = trace /\ step' = step
      /\ mirrorUp' => mirrorUp
  BY DEF MirrorIntrudes, MirrorExits, Says, mirror
<1>2. /\ Kept
      /\ \A i \in DOMAIN toClient : i \in DOMAIN toClient' /\ toClient'[i] = toClient[i]
  <2>1. CASE MirrorIntrudes
    <3>1. PICK line \in Intrusions : Says(line)  BY <2>1 DEF MirrorIntrudes
    <3>2. line.kind \notin ReplayKinds  BY LinesAssumption
    <3>. QED  BY <3>1, <3>2, LineSaid, IntrusionIsKept
  <2>2. CASE MirrorExits
    <3>1. toClient' = toClient  BY <2>2 DEF MirrorExits
    <3>. QED  BY <3>1 DEF Kept, TypeOK
  <2>. QED  BY <2>1, <2>2
<1>3. IsLines(toClient')  BY <1>2 DEF Kept
<1>4. TypeOK'  BY <1>1, <1>3 DEF TypeOK
<1>5. StagesOfTheCall'  BY <1>1 DEF StagesOfTheCall, Running
<1>6. MirrorReads'  BY <1>1 DEF MirrorReads, DueReport, Registration
<1>7. ClientKeepsPace'  BY <1>1 DEF ClientKeepsPace, Reported
<1>8. RequestsAreDue'
  <2>1. DueRequest' = DueRequest /\ TheStep' = TheStep  BY <1>1 DEF DueRequest, TheStep
  <2>2. \A i \in DOMAIN toClient' : Asks(toClient'[i]) =>
           /\ at = "awaiting" /\ toMirror = <<>> /\ loop # "computing"
           /\ toClient'[i] = DueRequest
           /\ \A j \in DOMAIN toClient' : Asks(toClient'[j]) => j = i
    BY <1>2, KeptLines
  <2>. QED  BY <1>1, <2>1, <2>2 DEF RequestsAreDue
<1>9. NoRequestIsLost'  BY <1>1, <1>2 DEF NoRequestIsLost
<1>10. Verdicts'
  <2>1. \A i \in DOMAIN toClient' :
           /\ toClient'[i].kind = "step_mismatch" =>
                 /\ Failed /\ RemembersTheStep
                 /\ toClient'[i].action \in {TheStep.action, NoAction}
           /\ toClient'[i].kind = "all_steps_done" => trace > Len(traces)
    BY <1>2, KeptLines
  <2>2. /\ TheStep' = TheStep /\ Failed' = Failed /\ RemembersTheStep' = RemembersTheStep
        /\ Reported' = Reported
    BY <1>1 DEF TheStep, Failed, Meets, RemembersTheStep, Reported
  <2>. QED  BY <1>1, <2>1, <2>2 DEF Verdicts
<1>11. MetSoFar'  BY <1>1 DEF MetSoFar, Meets
<1>. QED  BY <1>4, <1>5, <1>6, <1>7, <1>8, <1>9, <1>10, <1>11

\* A death: of the lines on their way the first ones may still arrive.
LEMMA MirrorDiesKeeps ==
    ASSUME TypeOK, ReplayInductive, MirrorDies, MirrorKeeps
    PROVE  TypeOK' /\ ReplayInductive'
<1>. USE DEF ReplayInductive, MirrorKeeps
<1>1. /\ at' = at /\ toMirror' = toMirror /\ trace' = trace /\ step' = step
      /\ mirrorUp' = FALSE
  BY DEF MirrorDies, mirror
<1>2. Kept
  <2>1. PICK kept \in 0..Len(toClient) : toClient' = SubSeq(toClient, 1, kept)
    BY DEF MirrorDies
  <2>. QED  BY <2>1, LinesLost DEF Kept, TypeOK
<1>3. IsLines(toClient')  BY <1>2 DEF Kept
<1>4. TypeOK'  BY <1>1, <1>3 DEF TypeOK
<1>5. StagesOfTheCall'  BY <1>1 DEF StagesOfTheCall, Running
<1>6. MirrorReads'  BY <1>1 DEF MirrorReads, DueReport, Registration
<1>7. ClientKeepsPace'  BY <1>1 DEF ClientKeepsPace, Reported
<1>8. RequestsAreDue'
  <2>1. DueRequest' = DueRequest /\ TheStep' = TheStep  BY <1>1 DEF DueRequest, TheStep
  <2>2. \A i \in DOMAIN toClient' : Asks(toClient'[i]) =>
           /\ at = "awaiting" /\ toMirror = <<>> /\ loop # "computing"
           /\ toClient'[i] = DueRequest
           /\ \A j \in DOMAIN toClient' : Asks(toClient'[j]) => j = i
    BY <1>2, KeptLines
  <2>. QED  BY <1>1, <2>1, <2>2 DEF RequestsAreDue
<1>9. NoRequestIsLost'  BY <1>1 DEF NoRequestIsLost
<1>10. Verdicts'
  <2>1. \A i \in DOMAIN toClient' :
           /\ toClient'[i].kind = "step_mismatch" =>
                 /\ Failed /\ RemembersTheStep
                 /\ toClient'[i].action \in {TheStep.action, NoAction}
           /\ toClient'[i].kind = "all_steps_done" => trace > Len(traces)
    BY <1>2, KeptLines
  <2>2. /\ TheStep' = TheStep /\ Failed' = Failed /\ RemembersTheStep' = RemembersTheStep
        /\ Reported' = Reported
    BY <1>1 DEF TheStep, Failed, Meets, RemembersTheStep, Reported
  <2>. QED  BY <1>1, <2>1, <2>2 DEF Verdicts
<1>11. MetSoFar'  BY <1>1 DEF MetSoFar, Meets
<1>. QED  BY <1>4, <1>5, <1>6, <1>7, <1>8, <1>9, <1>10, <1>11

LEMMA MirrorStepKeeps ==
    ASSUME TypeOK, ReplayInductive, MirrorStep, Idle
    PROVE  TypeOK' /\ ReplayInductive'
<1>1. MirrorKeeps
  BY DEF MirrorStep, MirrorAnswers, MirrorRegisters, MirrorAsks, MirrorAgrees, MirrorDisagrees,
         MirrorFinishes, MirrorIntrudes, MirrorExits, MirrorDies, Idle, MirrorKeeps,
         mirror, stepping, client
<1>. QED
  BY <1>1, MirrorRegistersKeeps, MirrorAsksKeeps, MirrorAgreesKeeps, MirrorDisagreesKeeps,
     MirrorFinishesKeeps, MirrorIntrudesKeeps, MirrorDiesKeeps DEF MirrorStep, MirrorAnswers

LEMMA ClientStepKeeps ==
    ASSUME TypeOK, ReplayInductive, ClientStep
    PROVE  TypeOK' /\ ReplayInductive'
BY RefuseBoundKeeps, RegisterKeeps, ReceiveReplyKeeps, LoopKeeps, CallComputeKeeps, CloseKeeps
   DEF ClientStep
LEMMA InitEstablishes == Init => TypeOK /\ ReplayInductive
<1>. SUFFICES ASSUME Init PROVE TypeOK /\ ReplayInductive  OBVIOUS
<1>1. /\ traces \in TraceLists /\ mode \in {"replay", "validate", "gen_traces"}
      /\ at = "listening" /\ trace = 1 /\ step = 1 /\ served = 0
      /\ toClient = <<>> /\ toMirror = <<>> /\ loop = "unregistered"
      /\ outcome.kind = "running" /\ Running
  BY DEF Init, Connected, MirrorInit, LoopInit, Result, Running
<1>2. /\ Len(traces) \in Nat /\ DOMAIN traces = 1..Len(traces)
      /\ \A t \in 1..Len(traces) : Len(traces[t]) \in Nat \ {0}
  BY <1>1, TracesAssumption
<1>3. IsLines(toClient) /\ DOMAIN toClient = {}
  <2>1. <<>> \in Seq({}) /\ DOMAIN <<>> = {}  OBVIOUS
  <2>2. IsLines(<<>>)  BY <2>1, SequencesAreLines
  <2>. QED  BY <1>1, <2>1, <2>2
<1>4. StepsBefore(traces, 1) = 0
  <2>1. \A u : u \notin 1..(1 - 1)  OBVIOUS
  <2>2. UNION {{u} \X DOMAIN traces[u] : u \in 1..(1 - 1)} = {}  BY <2>1
  <2>. QED  BY <2>2, FS_EmptySet DEF StepsBefore
<1>5. TypeOK
  <2>1. trace \in 1..(Len(traces) + 1)  BY <1>1, <1>2
  <2>2. IF trace <= Len(traces) THEN step <= Len(traces[trace]) ELSE step = 1
    <3>1. CASE 1 <= Len(traces)
      <4>1. 1 \in 1..Len(traces)  BY <1>2, <3>1
      <4>2. Len(traces[1]) \in Nat \ {0}  BY <1>2, <4>1
      <4>. QED  BY <1>1, <3>1, <4>2
    <3>2. CASE ~(1 <= Len(traces))  BY <1>1, <3>2
    <3>. QED  BY <3>1, <3>2
  <2>. QED  BY <1>1, <1>3, <2>1, <2>2 DEF TypeOK
<1>6. StagesOfTheCall  BY <1>1 DEF StagesOfTheCall
<1>7. MirrorReads  BY <1>1 DEF MirrorReads
<1>8. ClientKeepsPace
  <2>1. lastParam = Empty  BY DEF Init, LoopInit
  <2>2. 1..(trace - 1) = {} /\ step - 1 = 0  BY <1>1
  <2>3. LastGiven(lastParam, traces, trace, step - 1)
    BY <2>1, <2>2 DEF LastGiven, GivenBefore
  <2>. QED  BY <1>1, <1>4, <2>3 DEF ClientKeepsPace, Reported
<1>9. RequestsAreDue  BY <1>1, <1>3 DEF RequestsAreDue
<1>10. NoRequestIsLost  BY <1>1 DEF NoRequestIsLost
<1>11. Verdicts  BY <1>1, <1>3 DEF Verdicts, Reported
<1>12. MetSoFar
  <2>1. \A t \in 1..Len(traces) : ~(t < trace)  BY <1>1, <1>2
  <2>2. \A t \in 1..Len(traces) : \A s \in 1..Len(traces[t]) : ~(s < step)
    BY <1>1, <1>2
  <2>. QED  BY <2>1, <2>2 DEF MetSoFar
<1>. QED
  BY <1>5, <1>6, <1>7, <1>8, <1>9, <1>10, <1>11, <1>12 DEF ReplayInductive

\* Every step of the client and of the mirror keeps the invariant.
THEOREM ReplayInvariantHolds == Spec => [](TypeOK /\ ReplayInductive)
<1>1. Init => TypeOK /\ ReplayInductive  BY InitEstablishes
<1>2. TypeOK /\ ReplayInductive /\ [Next]_vars => (TypeOK /\ ReplayInductive)'
  <2>. SUFFICES ASSUME TypeOK, ReplayInductive, [Next]_vars
                PROVE  TypeOK' /\ ReplayInductive'
    OBVIOUS
  <2>. QED  BY ClientStepKeeps, MirrorStepKeeps, CloseKeeps DEF Next
<1>. QED  BY <1>1, <1>2, PTL DEF Spec

(***************************************************************************)
(* What follows from it.                                                   *)
(***************************************************************************)
\* run_client is right about the implementation, for every implementation and every
\* list of traces: Ok only for one that meets every step of every trace, StepMismatch
\* only for one that does not.  No line out of turn, lost line or dead mirror changes
\* the one into the other.
THEOREM ReplayIsRight == Spec => []ReplayDecidesConformance
<1>1. TypeOK /\ ReplayInductive => ReplayDecidesConformance
  <2>. SUFFICES ASSUME TypeOK, ReplayInductive, mode = "replay"
                PROVE  /\ outcome.kind = "ok" => Conforms
                       /\ outcome.kind = "mismatch" => ~Conforms
    BY DEF ReplayDecidesConformance
  <2>. USE DEF ReplayInductive
  <2>1. traces \in TraceLists /\ Len(traces) \in Nat /\ trace \in 1..(Len(traces) + 1)
    BY TracesAssumption DEF TypeOK
  <2>2. ASSUME outcome.kind = "ok" PROVE Conforms
    <3>1. \A t \in 1..Len(traces) : t < trace  BY <2>1, <2>2 DEF Verdicts
    <3>. QED  BY <3>1 DEF Conforms, MetSoFar
  <2>3. ASSUME outcome.kind = "mismatch" PROVE ~Conforms
    <3>1. trace <= Len(traces) /\ ~Meets(trace, step)  BY <2>3 DEF Verdicts, Failed
    <3>2. trace \in 1..Len(traces)  BY <2>1, <3>1
    <3>3. Len(traces[trace]) \in Nat  BY <2>1, <3>2, TracesAssumption
    <3>4. step \in 1..Len(traces[trace])  BY <3>1, <3>3 DEF TypeOK
    <3>. QED  BY <3>1, <3>2, <3>4 DEF Conforms
  <2>. QED  BY <2>2, <2>3
<1>. QED  BY <1>1, ReplayInvariantHolds, PTL

\* A StepMismatch is of a step that the implementation fails and has that step's action,
\* though the mirror may not name it; its parameters are those of the latest next_step,
\* so at the first step of a trace an earlier trace's, or none.
THEOREM MismatchesAreExplained == Spec => []MismatchNamesTheStep
<1>1. TypeOK /\ ReplayInductive => MismatchNamesTheStep
  BY DEF ReplayInductive, Verdicts, Failed, MismatchNamesTheStep
<1>. QED  BY <1>1, ReplayInvariantHolds, PTL

\* The client owes the mirror exactly one report per request: none is lost, doubled or
\* sent unasked while both are alive.
THEOREM AnswersMatchRequests == Spec => []OneAnswerPerRequest
<1>1. TypeOK /\ ReplayInductive => OneAnswerPerRequest
  <2>. SUFFICES ASSUME TypeOK, ReplayInductive, mirrorUp, Running
                PROVE  Requests + (IF loop = "computing" THEN 1 ELSE 0) + Reports
                          = (IF at = "awaiting" THEN 1 ELSE 0)
    BY DEF OneAnswerPerRequest
  <2>. USE DEF ReplayInductive
  <2>. DEFINE asking    == {i \in DOMAIN toClient : Asks(toClient[i])}
              reporting == {i \in DOMAIN toMirror : toMirror[i].kind = "report_state"}
  <2>1. loop # "over"  BY DEF StagesOfTheCall
  <2>2. Requests = Cardinality(asking) /\ Reports = Cardinality(reporting)
    BY DEF Requests, Reports
  <2>3. \A i \in asking : asking = {i} /\ Cardinality(asking) = 1
    <3>1. \A i \in asking : asking = {i}  BY DEF RequestsAreDue
    <3>. HIDE DEF asking
    <3>. QED  BY <3>1, FS_Singleton
  <2>4. asking = {} => Cardinality(asking) = 0  BY FS_EmptySet
  <2>5. IF Reported THEN Cardinality(reporting) = 1 ELSE Cardinality(reporting) = 0
    <3>1. CASE Reported
      <4>1. toMirror = <<DueReport>> /\ DueReport.kind = "report_state"
        BY <3>1 DEF Reported, MirrorReads, DueReport, Report
      <4>2. DOMAIN toMirror = {1} /\ toMirror[1].kind = "report_state"  BY <4>1
      <4>3. reporting = {1}  BY <4>2
      <4>. HIDE DEF reporting
      <4>. QED  BY <3>1, <4>3, FS_Singleton
    <3>2. CASE ~Reported
      <4>1. toMirror = <<>> \/ (toMirror = <<Registration>> /\ Registration.kind # "report_state")
        BY <3>2 DEF Reported, MirrorReads, Registration, TypeOK
      <4>2. \A i \in DOMAIN toMirror : toMirror[i].kind # "report_state"  BY <4>1
      <4>3. reporting = {}  BY <4>2
      <4>. HIDE DEF reporting
      <4>. QED  BY <3>2, <4>3, FS_EmptySet
    <3>. QED  BY <3>1, <3>2
  <2>6. CASE at # "awaiting"
    <3>1. asking = {} /\ loop # "computing" /\ ~Reported
      BY <2>6 DEF RequestsAreDue, Reported
    <3>. HIDE DEF asking, reporting
    <3>. QED  BY <2>2, <2>4, <2>5, <2>6, <3>1
  <2>7. CASE at = "awaiting"
    <3>1. \/ asking # {} /\ loop # "computing" /\ ~Reported
          \/ asking = {} /\ loop = "computing" /\ ~Reported
          \/ asking = {} /\ loop # "computing" /\ Reported
      BY <2>1, <2>7 DEF RequestsAreDue, NoRequestIsLost, Reported
    <3>. HIDE DEF asking, reporting
    <3>. QED  BY <2>2, <2>3, <2>4, <2>5, <2>7, <3>1
  <2>. QED  BY <2>6, <2>7
<1>. QED  BY <1>1, ReplayInvariantHolds, PTL
=============================================================================
