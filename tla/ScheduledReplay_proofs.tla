------------------------ MODULE ScheduledReplay_proofs ------------------------
(***************************************************************************)
(* Proofs about NegotiatedClient and about ScheduledReplay, which is that  *)
(* client with a session as its binding.                                   *)
(*                                                                         *)
(* First the client, for any registry, reply, trace and intrusion of the   *)
(* mirror: an adapter is created only with authority, is disposed of once, *)
(* and hides no error; and the client's result repeats the verdict of the  *)
(* mirror.  Then the replay, for any plan: one that has passed is earned,  *)
(* and what it compared is what the mirror compared, because client and    *)
(* session (BindingSession_proofs) keep pace with each other.              *)
(***************************************************************************)
EXTENDS ScheduledReplay, FiniteSetTheorems, TLAPS

(***************************************************************************)
(* Lines on their way: what appending, taking, spoiling and losing lines   *)
(* does to the others.                                                     *)
(***************************************************************************)
\* Whatever the lines are, they are a sequence.
IsLines(s) == s \in Seq({s[i] : i \in DOMAIN s})

\* A sequence of anything is one of its lines.
LEMMA SequencesAreLines ==
    ASSUME NEW S, NEW s \in Seq(S)
    PROVE  IsLines(s) /\ Len(s) \in Nat /\ DOMAIN s = 1..Len(s)
<1>. DEFINE T == {s[i] : i \in DOMAIN s}
<1>1. Len(s) \in Nat /\ DOMAIN s = 1..Len(s) /\ s = [i \in 1..Len(s) |-> s[i]]  OBVIOUS
<1>2. \A i \in 1..Len(s) : s[i] \in T  BY <1>1
<1>. HIDE DEF T
<1>3. s \in [1..Len(s) -> T]  BY <1>1, <1>2
<1>4. s \in Seq(T)  BY <1>1, <1>3
<1>. QED  BY <1>1, <1>4 DEF IsLines, T

\* Lines have a number, and are counted from one.
LEMMA LinesAreIndexed ==
    ASSUME NEW s, IsLines(s)
    PROVE  Len(s) \in Nat /\ DOMAIN s = 1..Len(s)
BY DEF IsLines

\* A line that is said is the last one.
LEMMA LineAppended ==
    ASSUME NEW s, NEW line, IsLines(s)
    PROVE  /\ IsLines(Append(s, line))
           /\ DOMAIN Append(s, line) = 1..(Len(s) + 1)
           /\ \A i \in DOMAIN s : i \in DOMAIN Append(s, line) /\ Append(s, line)[i] = s[i]
           /\ Append(s, line)[Len(s) + 1] = line
           /\ \A i \in DOMAIN Append(s, line) : i \in DOMAIN s \/ i = Len(s) + 1
<1>. DEFINE S == {s[i] : i \in DOMAIN s}
            T == S \cup {line}
<1>1. s \in Seq(S)  BY DEF IsLines
<1>. HIDE DEF S
<1>2. s \in Seq(T) /\ line \in T  BY <1>1
<1>. HIDE DEF T
<1>3. Append(s, line) \in Seq(T)  BY <1>2
<1>4. IsLines(Append(s, line))  BY <1>3, SequencesAreLines
<1>5. /\ DOMAIN Append(s, line) = 1..(Len(s) + 1) /\ Len(s) \in Nat /\ DOMAIN s = 1..Len(s)
      /\ \A i \in 1..Len(s) : Append(s, line)[i] = s[i]
      /\ Append(s, line)[Len(s) + 1] = line
  BY <1>2
<1>. QED  BY <1>4, <1>5

\* The first line is taken, and the others move up.
LEMMA FirstLineTaken ==
    ASSUME NEW s, IsLines(s), s # <<>>
    PROVE  /\ IsLines(Tail(s)) /\ 1 \in DOMAIN s /\ Head(s) = s[1]
           /\ \A i \in DOMAIN Tail(s) : i + 1 \in DOMAIN s /\ Tail(s)[i] = s[i + 1]
           /\ \A i \in DOMAIN s : i # 1 => i - 1 \in DOMAIN Tail(s)
<1>. DEFINE S == {s[i] : i \in DOMAIN s}
<1>1. s \in Seq(S)  BY DEF IsLines
<1>. HIDE DEF S
<1>2. Tail(s) \in Seq(S)  BY <1>1
<1>3. IsLines(Tail(s))  BY <1>2, SequencesAreLines
<1>4. /\ DOMAIN s = 1..Len(s) /\ Len(s) \in Nat /\ Len(s) # 0 /\ Head(s) = s[1]
      /\ DOMAIN Tail(s) = 1..(Len(s) - 1)
      /\ \A i \in 1..(Len(s) - 1) : Tail(s)[i] = s[i + 1]
  BY <1>1
<1>. QED  BY <1>3, <1>4

\* Of a line that is too long the beginning is taken and the rest stays.
LEMMA FirstLineSpoiled ==
    ASSUME NEW s, NEW line, IsLines(s), s # <<>>
    PROVE  /\ IsLines(<<line>> \o Tail(s)) /\ DOMAIN (<<line>> \o Tail(s)) = DOMAIN s
           /\ (<<line>> \o Tail(s))[1] = line
           /\ \A i \in DOMAIN s : i # 1 => (<<line>> \o Tail(s))[i] = s[i]
<1>. DEFINE S == {s[i] : i \in DOMAIN s}
            T == S \cup {line}
<1>1. s \in Seq(S)  BY DEF IsLines
<1>. HIDE DEF S
<1>2. s \in Seq(T) /\ line \in T  BY <1>1
<1>. HIDE DEF T
<1>3. Tail(s) \in Seq(T) /\ <<line>> \in Seq(T) /\ Len(<<line>>) = 1 /\ <<line>>[1] = line
  BY <1>2
<1>4. /\ DOMAIN s = 1..Len(s) /\ Len(s) \in Nat /\ Len(s) # 0
      /\ Len(Tail(s)) = Len(s) - 1
      /\ \A i \in 1..(Len(s) - 1) : Tail(s)[i] = s[i + 1]
  BY <1>2
<1>5. <<line>> \o Tail(s) \in Seq(T) /\ Len(<<line>> \o Tail(s)) = Len(s)
  BY <1>3, <1>4
<1>6. IsLines(<<line>> \o Tail(s)) /\ DOMAIN (<<line>> \o Tail(s)) = DOMAIN s
  BY <1>4, <1>5, SequencesAreLines
<1>7. (<<line>> \o Tail(s))[1] = line  BY <1>3, <1>4
<1>8. ASSUME NEW i \in DOMAIN s, i # 1 PROVE (<<line>> \o Tail(s))[i] = s[i]
  <2>1. i \in 2..Len(s) /\ i - 1 \in 1..(Len(s) - 1) /\ (i - 1) + 1 = i  BY <1>4, <1>8
  <2>2. (<<line>> \o Tail(s))[i] = Tail(s)[i - 1]  BY <1>3, <1>4, <2>1
  <2>. QED  BY <1>4, <2>1, <2>2
<1>. QED  BY <1>6, <1>7, <1>8

\* A mirror that dies loses the lines from some line on.
LEMMA LinesLost ==
    ASSUME NEW s, IsLines(s), NEW k \in 0..Len(s)
    PROVE  /\ IsLines(SubSeq(s, 1, k))
           /\ \A i \in DOMAIN SubSeq(s, 1, k) : i \in DOMAIN s /\ SubSeq(s, 1, k)[i] = s[i]
<1>. DEFINE S == {s[i] : i \in DOMAIN s}
<1>1. s \in Seq(S)  BY DEF IsLines
<1>. HIDE DEF S
<1>2. Len(s) \in Nat /\ DOMAIN s = 1..Len(s) /\ k \in Nat /\ k <= Len(s)  BY <1>1
<1>3. SubSeq(s, 1, k) \in Seq(S) /\ Len(SubSeq(s, 1, k)) = k  BY <1>1, <1>2
<1>4. \A i \in 1..k : SubSeq(s, 1, k)[i] = s[i]  BY <1>1, <1>2
<1>5. IsLines(SubSeq(s, 1, k)) /\ DOMAIN SubSeq(s, 1, k) = 1..k
  BY <1>3, SequencesAreLines
<1>. QED  BY <1>2, <1>4, <1>5

\* What the client takes from the connection: the first line; or, if there is none
\* or it is too long, an error.
LEMMA LineConsumed ==
    ASSUME IsLines(toClient), Consume
    PROVE  /\ link' = link /\ toMirror' = toMirror /\ mirrorUp' = mirrorUp
           /\ IsLines(toClient')
           /\ \/ /\ toClient # <<>> /\ toClient' = Tail(toClient)
                 /\ 1 \in DOMAIN toClient /\ Received = toClient[1]
              \/ /\ Received.kind \in {"transport_closed", "malformed"}
                 /\ \A i \in DOMAIN toClient' :
                       toClient'[i].kind # "malformed" =>
                           i \in DOMAIN toClient /\ toClient'[i] = toClient[i]
<1>1. link' = link /\ toMirror' = toMirror /\ mirrorUp' = mirrorUp  BY DEF Consume
<1>2. CASE ~HasLine
  <2>1. toClient' = toClient /\ Received.kind = "transport_closed"
    BY <1>2 DEF Consume, Received
  <2>. QED  BY <1>1, <2>1
<1>3. CASE HasLine /\ Head(toClient).kind # "oversized"
  <2>1. /\ toClient # <<>> /\ toClient' = Tail(toClient) /\ Received = Head(toClient)
    BY <1>3 DEF Consume, Received, Remaining, HasLine
  <2>. QED  BY <1>1, <2>1, FirstLineTaken
<1>4. CASE HasLine /\ Head(toClient).kind = "oversized"
  <2>1. /\ toClient # <<>> /\ toClient' = <<Malformed>> \o Tail(toClient)
        /\ Received = Malformed /\ Malformed.kind = "malformed"
    BY <1>4 DEF Consume, Received, Remaining, HasLine, Malformed
  <2>3. /\ IsLines(toClient') /\ DOMAIN toClient' = DOMAIN toClient
        /\ toClient'[1] = Malformed
        /\ \A i \in DOMAIN toClient : i # 1 => toClient'[i] = toClient[i]
    BY <2>1, FirstLineSpoiled
  <2>. QED  BY <1>1, <2>1, <2>3
<1>. QED  BY <1>2, <1>3, <1>4

(***************************************************************************)
(* The negotiation: the inductive invariant.                               *)
(***************************************************************************)
\* The metadata are what the caller submitted, and nothing was sent before
\* they resolved to one adapter.
SelectedFirst ==
    /\ selection \in Selections
    /\ (\/ toMirror # <<>> \/ at # "listening"
        \/ loop \notin {"unregistered", "over"} \/ binding # NoBinding)
          => Resolved(selection.registry, key)

\* The stages before the loop, in their order.
Preparing == loop \in {"unregistered", "registered", "creating", "checking"}

StagesInOrder ==
    /\ Preparing => asked = NoLine /\ state = Empty
    /\ Preparing /\ loop # "checking" => binding = NoBinding
    /\ loop # "over" => Running /\ disposals = 0 /\ link = "open"

\* The mirror's reply granted the binding, and says by which factory.
GrantedByReply ==
    /\ loop = "creating" \/ binding # NoBinding => Decision(reply).verdict # "error"
    /\ binding # NoBinding => binding.by = Factory

\* No state is asked of a binding whose digest is not the key's.
ChecksFirst == ~Preparing /\ (asked # NoLine \/ state # Empty \/ loop # "over") => DigestFits

\* The binding is disposed of once, and before the connection is closed.
DisposedFirst ==
    /\ disposals \in {0, 1}
    /\ disposals = 1 => binding # NoBinding
    /\ link # "open" => ~Undisposed

NegotiationInductive ==
    /\ SelectedFirst
    /\ StagesInOrder
    /\ GrantedByReply
    /\ ChecksFirst
    /\ DisposedFirst

(***************************************************************************)
(* Lemmas about the client.                                                *)
(***************************************************************************)
\* The mirror closes nothing, and is heard only after a line was sent to it.
LEMMA MirrorListensFirst ==
    ASSUME MirrorStep
    PROVE  /\ link' = link
           /\ toMirror' # <<>> \/ at' # "listening" => toMirror # <<>> \/ at # "listening"
<1>1. CASE MirrorRegisters  BY <1>1 DEF MirrorRegisters, Says
<1>2. CASE MirrorAsks  BY <1>2 DEF MirrorAsks, Says
<1>3. CASE MirrorAgrees  BY <1>3 DEF MirrorAgrees, Says
<1>4. CASE MirrorDisagrees  BY <1>4 DEF MirrorDisagrees, Says
<1>5. CASE MirrorFinishes  BY <1>5 DEF MirrorFinishes, Says
<1>6. CASE MirrorExits  BY <1>6 DEF MirrorExits, mirror
<1>7. CASE MirrorIntrudes  BY <1>7 DEF MirrorIntrudes, Says
<1>8. CASE MirrorDies  BY <1>8 DEF MirrorDies, mirror
<1>. QED
  BY <1>1, <1>2, <1>3, <1>4, <1>5, <1>6, <1>7, <1>8 DEF MirrorStep, MirrorAnswers

\* send and recv neither close the connection nor, but for send, change what the
\* mirror has still to read.
LEMMA ConnectionStaysOpen ==
    /\ Consume => link' = link /\ toMirror' = toMirror
    /\ \A line : Send(line) => link' = link /\ link = "open"
    /\ \A line : SendFails(line) => link' = link /\ toMirror' = toMirror
BY DEF Consume, Send, SendFails, connection

\* One registered adapter has the key, and it is the one that is called.
LEMMA OneAdapter ==
    ASSUME NEW registry, NEW k, Resolved(registry, k)
    PROVE  /\ ResolveIndex(registry, k) \in 1..Len(registry)
           /\ registry[ResolveIndex(registry, k)] = k
<1>1. Exact(registry, k) # {}
  <2>1. Cardinality({}) = 0  BY FS_EmptySet
  <2>. QED  BY <2>1 DEF Resolved
<1>2. ResolveIndex(registry, k) \in Exact(registry, k)  BY <1>1 DEF ResolveIndex
<1>. QED  BY <1>2 DEF Exact

\* decode_authorization grants nothing but what the mirror said.
LEMMA GrantsAreSaid ==
    ASSUME NEW r, NEW policy, NEW offered, NEW pin,
           DecodeAuthorization(r, policy, offered, pin).verdict # "error"
    PROVE  /\ r.kind = "spec_valid"
           /\ \/ /\ DecodeAuthorization(r, policy, offered, pin).verdict = "matched"
                 /\ r.extension # NoExtension /\ r.extension.status = "matched"
                 /\ Matches(r.extension, pin)
              \/ /\ DecodeAuthorization(r, policy, offered, pin).verdict = "fallback"
                 /\ policy = "prefer" /\ offered
                 /\ r.extension # NoExtension =>
                       /\ r.extension.status \in {"unsupported", "unavailable"}
                       /\ Bare(r.extension)
<1>. DEFINE d == DecodeAuthorization(r, policy, offered, pin)
            ext == r.extension
<1>1. /\ \A code : Refused(code).verdict = "error"
      /\ Unexpected.verdict = "error"
      /\ \A how : Granted(how).verdict = how
  BY DEF Refused, Unexpected, Granted
<1>2. r.kind = "spec_valid"
  <2>1. OnRegisterError(ext, pin).verdict = "error"  BY <1>1 DEF OnRegisterError
  <2>. SUFFICES ASSUME r.kind # "spec_valid" PROVE d.verdict = "error"
    OBVIOUS
  <2>2. CASE r.kind = "register_error"  BY <1>1, <2>1, <2>2 DEF DecodeAuthorization
  <2>3. CASE r.kind \in {"transport_closed", "spec_invalid", "protocol_error"}
    BY <1>1, <2>3 DEF DecodeAuthorization
  <2>4. CASE r.kind \notin {"spec_valid", "register_error", "transport_closed",
                            "spec_invalid", "protocol_error"}
    BY <1>1, <2>4 DEF DecodeAuthorization
  <2>. QED  BY <2>2, <2>3, <2>4
<1>3. \A code : FallbackOr(policy, offered, code).verdict # "error" =>
         /\ FallbackOr(policy, offered, code).verdict = "fallback"
         /\ policy = "prefer" /\ offered
  BY <1>1 DEF FallbackOr
<1>4. CASE ext = NoExtension
  <2>1. d = Missing(policy, offered)  BY <1>2, <1>4 DEF DecodeAuthorization
  <2>. QED  BY <1>2, <1>3, <1>4, <2>1 DEF Missing
<1>5. CASE ext # NoExtension
  <2>1. d = IF Sound(ext) THEN OnValid(ext, policy, offered, pin) ELSE Unexpected
    BY <1>2, <1>5 DEF DecodeAuthorization
  <2>2. d = OnValid(ext, policy, offered, pin)  BY <1>1, <2>1
  <2>3. CASE ext.status = "matched"
    <3>1. d = IF Absent \in {ext.descriptorSchema, ext.digest} THEN Unexpected
              ELSE IF Matches(ext, pin) THEN Granted("matched")
              ELSE Refused("interface_digest_mismatch")
      BY <2>2, <2>3 DEF OnValid
    <3>. QED  BY <1>1, <1>2, <1>5, <2>3, <3>1
  <2>4. CASE ext.status \in {"unsupported", "unavailable"}
    <3>1. d = IF Bare(ext)
              THEN FallbackOr(policy, offered, "negotiation_status_unexpected")
              ELSE Unexpected
      BY <2>2, <2>4 DEF OnValid
    <3>. QED  BY <1>1, <1>2, <1>3, <2>4, <3>1
  <2>5. CASE ext.status \notin {"matched", "unsupported", "unavailable"}
    <3>1. d.verdict = "error"  BY <1>1, <2>2, <2>5 DEF OnValid
    <3>. QED  BY <3>1
  <2>. QED  BY <2>3, <2>4, <2>5
<1>. QED  BY <1>4, <1>5

(***************************************************************************)
(* The invariant is inductive: one lemma per action.                       *)
(***************************************************************************)
LEMMA InitNegotiation ==
    ASSUME Init
    PROVE  NegotiationInductive
BY DEF Init, NegotiationInit, Connected, MirrorInit, LoopInit, Running, Result,
       NegotiationInductive, SelectedFirst, StagesInOrder, Preparing, GrantedByReply,
       ChecksFirst, DisposedFirst, Undisposed

LEMMA RefuseKeeps ==
    ASSUME NegotiationInductive, Refuse
    PROVE  NegotiationInductive'
BY DEF Refuse, End, connection, mirror, negotiation, NegotiationInductive, SelectedFirst,
       StagesInOrder, Preparing, GrantedByReply, ChecksFirst, DisposedFirst, Undisposed,
       key, Decision, Factory, DigestFits

LEMMA RegisterKeeps ==
    ASSUME NegotiationInductive, Register
    PROVE  NegotiationInductive'
<1>1. /\ loop = "unregistered" /\ Resolved(selection.registry, key)
      /\ mirror' = mirror /\ negotiation' = negotiation /\ link' = link
      /\ state' = state /\ asked' = NoLine
      /\ \/ loop' = "registered" /\ outcome' = outcome
         \/ loop' = "over" /\ toMirror' = toMirror
  BY ConnectionStaysOpen
     DEF Register, Registrable, Stay, End, NegotiationInductive, StagesInOrder, Preparing
<1>. QED
  BY <1>1 DEF mirror, negotiation, NegotiationInductive, SelectedFirst, StagesInOrder,
     Preparing, GrantedByReply, ChecksFirst, DisposedFirst, Undisposed, key, Running,
     Decision, Factory, DigestFits

LEMMA ReceiveReplyKeeps ==
    ASSUME NegotiationInductive, ReceiveReply
    PROVE  NegotiationInductive'
<1>1. /\ loop = "registered" /\ binding = NoBinding
      /\ mirror' = mirror /\ selection' = selection /\ binding' = binding
      /\ disposals' = disposals /\ link' = link /\ toMirror' = toMirror
      /\ asked' = NoLine /\ state' = state
  BY ConnectionStaysOpen
     DEF ReceiveReply, Stay, End, NegotiationInductive, StagesInOrder, Preparing
<1>2. \/ loop' = "over"
      \/ loop' = "creating" /\ outcome' = outcome /\ Decision(reply').verdict # "error"
  BY DEF ReceiveReply, Stay, End
<1>3. Decision(reply)' = Decision(reply')  BY <1>1 DEF Decision, key
<1>. QED
  BY <1>1, <1>2, <1>3 DEF mirror, NegotiationInductive, SelectedFirst, StagesInOrder,
     Preparing, GrantedByReply, ChecksFirst, DisposedFirst, Undisposed, key, Running,
     DigestFits, Decision

LEMMA CreateKeeps ==
    ASSUME NegotiationInductive, Create
    PROVE  NegotiationInductive'
<1>1. /\ loop = "creating" /\ binding = NoBinding
      /\ connection' = connection /\ mirror' = mirror /\ selection' = selection
      /\ reply' = reply /\ disposals' = disposals
      /\ asked' = NoLine /\ state' = state
      /\ \/ loop' = "checking" /\ binding'.by = Factory /\ outcome' = outcome
         \/ loop' = "over" /\ binding' = NoBinding
  BY DEF Create, Stay, End, NegotiationInductive, StagesInOrder, Preparing
<1>2. Factory' = Factory /\ Decision(reply)' = Decision(reply)
  BY <1>1 DEF Factory, Decision, key
<1>. QED
  BY <1>1, <1>2 DEF connection, mirror, NegotiationInductive, SelectedFirst,
     StagesInOrder, Preparing, GrantedByReply, ChecksFirst, DisposedFirst, Undisposed,
     key, Running

LEMMA CheckBindingKeeps ==
    ASSUME NegotiationInductive, CheckBinding
    PROVE  NegotiationInductive'
<1>1. /\ loop = "checking" /\ connection' = connection /\ mirror' = mirror
      /\ negotiation' = negotiation /\ asked' = NoLine /\ state' = state
      /\ \/ loop' = "receiving" /\ outcome' = outcome /\ DigestFits
         \/ loop' = "over"
  BY DEF CheckBinding, Stay, End, NegotiationInductive, StagesInOrder, Preparing
<1>. QED
  BY <1>1 DEF connection, mirror, negotiation, NegotiationInductive, SelectedFirst,
     StagesInOrder, Preparing, GrantedByReply, ChecksFirst, DisposedFirst, Undisposed,
     key, Running, Decision, Factory, DigestFits

\* The loop itself, which changes nothing of the negotiation.
LEMMA LoopKeeps ==
    ASSUME NegotiationInductive, Loop \/ CallComputer
    PROVE  NegotiationInductive'
<1>1. /\ mirror' = mirror /\ negotiation' = negotiation /\ link' = link
      /\ loop \in {"receiving", "computing"}
      /\ \/ loop' \in {"receiving", "computing"} /\ outcome' = outcome
         \/ loop' = "over" /\ toMirror' = toMirror
  <2>1. CASE Loop
    BY <2>1, ConnectionStaysOpen
       DEF Loop, Receive, TakeRequest, TakeStepOk, TakeMismatch, TakeEnd, End, stepping
  <2>2. CASE CallComputer
    BY <2>2, ConnectionStaysOpen
       DEF CallComputer, ReportState, ReportFails, CallbackFails, End, connection
  <2>. QED  BY <2>1, <2>2
<1>. QED
  BY <1>1 DEF mirror, negotiation, NegotiationInductive, SelectedFirst, StagesInOrder,
     Preparing, GrantedByReply, ChecksFirst, DisposedFirst, Undisposed, key, Running,
     Decision, Factory, DigestFits

LEMMA DisposeKeeps ==
    ASSUME NegotiationInductive, Dispose
    PROVE  NegotiationInductive'
BY DEF Dispose, connection, mirror, stepping, NegotiationInductive, SelectedFirst,
       StagesInOrder, Preparing, GrantedByReply, ChecksFirst, DisposedFirst, Undisposed,
       key, Decision, Factory, DigestFits

LEMMA CloseKeeps ==
    ASSUME NegotiationInductive, Close
    PROVE  NegotiationInductive'
<1>1. /\ loop = "over" /\ ~Undisposed /\ toMirror' = toMirror
      /\ mirror' = mirror /\ stepping' = stepping /\ negotiation' = negotiation
  BY DEF Close, BeginClose, EndClose
<1>. QED
  BY <1>1 DEF mirror, stepping, negotiation, NegotiationInductive, SelectedFirst,
     StagesInOrder, Preparing, GrantedByReply, ChecksFirst, DisposedFirst, Undisposed,
     key, Decision, Factory, DigestFits

LEMMA MirrorKeeps ==
    ASSUME NegotiationInductive, (MirrorStep /\ Idle) \/ UNCHANGED vars
    PROVE  NegotiationInductive'
<1>1. /\ stepping' = stepping /\ outcome' = outcome /\ negotiation' = negotiation
      /\ link' = link
      /\ toMirror' # <<>> \/ at' # "listening" => toMirror # <<>> \/ at # "listening"
  BY MirrorListensFirst DEF Idle, vars, connection, mirror
<1>. QED
  BY <1>1 DEF stepping, negotiation, NegotiationInductive, SelectedFirst, StagesInOrder,
     Preparing, GrantedByReply, ChecksFirst, DisposedFirst, Undisposed, key, Running,
     Decision, Factory, DigestFits

LEMMA StepKeepsNegotiation ==
    ASSUME NegotiationInductive, [Next]_vars
    PROVE  NegotiationInductive'
BY RefuseKeeps, RegisterKeeps, ReceiveReplyKeeps, CreateKeeps, CheckBindingKeeps,
   LoopKeeps, DisposeKeeps, CloseKeeps, MirrorKeeps DEF Next, ClientStep

\* Every step of the client and of the mirror keeps it.
THEOREM NegotiationInvariantHolds == Spec => []NegotiationInductive
<1>1. Init => NegotiationInductive  BY InitNegotiation
<1>2. NegotiationInductive /\ [Next]_vars => NegotiationInductive'  BY StepKeepsNegotiation
<1>. QED  BY <1>1, <1>2, PTL DEF Spec

(***************************************************************************)
(* What follows.                                                           *)
(***************************************************************************)
LEMMA AuthorityFirst ==
    ASSUME NegotiationInductive
    PROVE  NoAdapterWithoutAuthority
<1>. USE DEF NegotiationInductive
<1>1. selection \in Selections /\ DOMAIN selection.registry = 1..Len(selection.registry)
  BY SelectionsAssumption DEF SelectedFirst
<1>2. Resolved(selection.registry, key) =>
         Cardinality({i \in DOMAIN selection.registry : selection.registry[i] = key}) = 1
  BY <1>1 DEF Resolved, Exact
<1>3. toMirror # <<>> \/ at # "listening" \/ loop = "registered" =>
         Resolved(selection.registry, key)
  BY DEF SelectedFirst
<1>4. ASSUME binding # NoBinding
      PROVE  /\ reply.kind = "spec_valid"
             /\ IF binding.by = 0
                THEN selection.policy = "prefer" /\ selection.fallback /\ MirrorDeclined
                ELSE selection.registry[binding.by] = key /\ MirrorMatched
             /\ asked # NoLine \/ state # Empty => binding.digest = key.digest
  <2>1. Decision(reply).verdict # "error" /\ binding.by = Factory
    BY <1>4 DEF GrantedByReply
  <2>2. /\ ResolveIndex(selection.registry, key) \in 1..Len(selection.registry)
        /\ selection.registry[ResolveIndex(selection.registry, key)] = key
    BY <1>4, OneAdapter DEF SelectedFirst
  <2>3. ResolveIndex(selection.registry, key) # 0  BY <2>2
  <2>4. /\ reply.kind = "spec_valid"
        /\ \/ /\ Decision(reply).verdict = "matched"
              /\ reply.extension # NoExtension /\ reply.extension.status = "matched"
              /\ Matches(reply.extension, key.digest)
           \/ /\ Decision(reply).verdict = "fallback"
              /\ selection.policy = "prefer" /\ selection.fallback
              /\ reply.extension # NoExtension =>
                    /\ reply.extension.status \in {"unsupported", "unavailable"}
                    /\ Bare(reply.extension)
    BY <2>1, GrantsAreSaid DEF Decision
  <2>5. CASE Decision(reply).verdict = "matched"
    <3>1. binding.by # 0 /\ selection.registry[binding.by] = key
      BY <2>1, <2>2, <2>3, <2>5 DEF Factory
    <3>2. MirrorMatched  BY <2>4, <2>5 DEF MirrorMatched, Matches
    <3>3. asked # NoLine \/ state # Empty => binding.digest = key.digest
      BY DEF StagesInOrder, ChecksFirst, DigestFits
    <3>. QED  BY <2>4, <3>1, <3>2, <3>3
  <2>6. CASE Decision(reply).verdict = "fallback"
    <3>1. binding.by = 0  BY <2>1, <2>6 DEF Factory
    <3>2. MirrorDeclined  BY <2>4, <2>6 DEF MirrorDeclined, Bare
    <3>3. asked # NoLine \/ state # Empty => binding.digest = key.digest
      BY DEF StagesInOrder, ChecksFirst, DigestFits
    <3>. QED  BY <2>4, <2>6, <3>1, <3>2, <3>3
  <2>. QED  BY <2>4, <2>5, <2>6
<1>. QED  BY <1>2, <1>3, <1>4 DEF NoAdapterWithoutAuthority

\* A factory is called only with the authority of the mirror's reply, and what it
\* made computes no state unless its digest is the one that was pinned.
THEOREM AuthorityComesFirst == Spec => []NoAdapterWithoutAuthority
BY AuthorityFirst, NegotiationInvariantHolds, PTL

\* Every way out, panics and refusals included, disposes of the binding, once,
\* before the connection is closed.
THEOREM DisposedBeforeClosing == Spec => []BindingsAreDisposed
<1>1. NegotiationInductive => BindingsAreDisposed
  BY DEF NegotiationInductive, DisposedFirst, Undisposed, BindingsAreDisposed
<1>. QED  BY <1>1, NegotiationInvariantHolds, PTL

\* Neither the disposal nor the close that follow an error replace it.
THEOREM ErrorsAreKept == Spec => FirstErrorIsKept
<1>. DEFINE Kept == ~Running /\ outcome.kind # "ok" => outcome' = outcome
<1>1. ASSUME NegotiationInductive, Next, ~Running, outcome.kind # "ok"
      PROVE  outcome' = outcome
  <2>1. loop = "over"  BY <1>1 DEF NegotiationInductive, StagesInOrder
  <2>2. CASE Dispose  BY <1>1, <2>2 DEF Dispose, FirstError
  <2>3. CASE Close  BY <1>1, <2>3 DEF Close, FirstError
  <2>4. CASE MirrorStep /\ Idle  BY <2>4 DEF Idle
  <2>5. ~Refuse /\ ~Register /\ ~ReceiveReply /\ ~Create /\ ~CheckBinding
    BY <2>1 DEF Refuse, Register, ReceiveReply, Create, CheckBinding
  <2>6. ~Loop /\ ~CallComputer
    BY <2>1 DEF Loop, Receive, CallComputer, ReportState, ReportFails, CallbackFails
  <2>. QED  BY <1>1, <2>2, <2>3, <2>4, <2>5, <2>6 DEF Next, ClientStep
<1>2. NegotiationInductive /\ [Next]_vars => [Kept]_vars  BY <1>1
<1>. QED  BY <1>2, NegotiationInvariantHolds, PTL DEF Spec, FirstErrorIsKept

(***************************************************************************)
(* The replay, between the registration and the verdict.                   *)
(***************************************************************************)
OwnResults == {"running", "ok", "mismatch", "adapter_dispose_failed"}

\* The mirror has accepted the registration and the client knows or may still learn.
Accepted == \/ loop \in {"creating", "checking", "receiving", "computing"}
            \/ \E i \in DOMAIN toClient : toClient[i].kind = "spec_valid"

MirrorTypes ==
    /\ traces \in TraceLists /\ at \in {"listening", "asking", "awaiting", "done"}
    /\ trace \in 1..(Len(traces) + 1) /\ step \in Nat \ {0}
    /\ IF trace <= Len(traces) THEN step <= Len(traces[trace]) ELSE step = 1
    /\ IsLines(toClient)

\* What the mirror has still to read, and when it begins.
MirrorTurns ==
    /\ loop = "unregistered" => at = "listening" /\ toMirror = <<>>
    /\ at = "listening" => /\ trace = 1 /\ step = 1
                           /\ toMirror \in {<<>>, <<Registration>>}
    /\ Accepted => at # "listening"
    /\ at \in {"asking", "done"} => toMirror = <<>>
    /\ at = "awaiting" => /\ trace <= Len(traces)
                          /\ toMirror = <<>> \/ \E value \in Values : toMirror = <<Report(value)>>

\* A request on its way, or being computed, is the one the mirror waits for, or
\* stands in the reply of a mirror that accepted nothing.
RequestsAreDue ==
    /\ \A i \in DOMAIN toClient : Asks(toClient[i]) =>
          \/ at = "done" /\ ~Accepted
          \/ /\ at = "awaiting" /\ toMirror = <<>> /\ loop # "computing"
             /\ (toClient[i].kind = "initial_state" <=> step = 1)
             /\ \A j \in DOMAIN toClient : Asks(toClient[j]) => j = i
    /\ loop = "computing" =>
          /\ at = "awaiting" /\ toMirror = <<>>
          /\ asked.kind = IF step = 1 THEN "initial_state" ELSE "next_step"

\* So is a verdict on its way; and an error's code is not one of the client's own.
VerdictsAreTrue ==
    \A i \in DOMAIN toClient :
        /\ toClient[i].kind = "all_steps_done" => at = "done" /\ (Accepted => trace > Len(traces))
        /\ toClient[i].kind = "step_mismatch" => at = "done" /\ (Accepted => trace <= Len(traces))
        /\ toClient[i].kind = "register_error" /\ toClient[i].extension # NoExtension =>
              toClient[i].extension.code \notin OwnResults

\* The result repeats the verdict.
OutcomeIsTheVerdict ==
    /\ outcome.kind \in {"ok", "adapter_dispose_failed"} => at = "done" /\ trace > Len(traces)
    /\ outcome.kind = "mismatch" => at = "done" /\ trace <= Len(traces)

VerdictInductive ==
    /\ MirrorTypes
    /\ MirrorTurns
    /\ RequestsAreDue
    /\ VerdictsAreTrue
    /\ OutcomeIsTheVerdict

(***************************************************************************)
(* Its steps.                                                              *)
(***************************************************************************)
\* A line on its way after a step is spoiled, or said out of turn, or was on its way
\* before; and those that were are in their order.
LinesKept ==
    /\ IsLines(toClient')
    /\ \E taken \in {0, 1} : \A i \in DOMAIN toClient' :
          \/ toClient'[i].kind = "malformed"
          \/ toClient'[i] \in Intrusions
          \/ i + taken \in DOMAIN toClient /\ toClient'[i] = toClient[i + taken]

LEMMA ConsumedIsKept ==
    ASSUME IsLines(toClient), Consume
    PROVE  LinesKept
<1>0. IsLines(toClient') /\ DOMAIN toClient \subseteq Nat
  BY LineConsumed, LinesAreIndexed
<1>1. CASE toClient' = Tail(toClient) /\ toClient # <<>>
  <2>1. \A i \in DOMAIN toClient' : i + 1 \in DOMAIN toClient /\ toClient'[i] = toClient[i + 1]
    BY <1>1, FirstLineTaken
  <2>. QED  BY <1>0, <2>1 DEF LinesKept
<1>2. CASE \A i \in DOMAIN toClient' : toClient'[i].kind # "malformed" =>
              i \in DOMAIN toClient /\ toClient'[i] = toClient[i]
  <2>1. \A i \in DOMAIN toClient' : \/ toClient'[i].kind = "malformed"
                                    \/ i + 0 \in DOMAIN toClient /\ toClient'[i] = toClient[i + 0]
    BY <1>0, <1>2
  <2>. QED  BY <1>0, <2>1 DEF LinesKept
<1>. QED  BY <1>1, <1>2, LineConsumed

LEMMA NothingConsumed ==
    ASSUME IsLines(toClient), toClient' = toClient
    PROVE  LinesKept
<1>1. DOMAIN toClient \subseteq Nat  BY LinesAreIndexed
<1>2. \A i \in DOMAIN toClient' : i + 0 \in DOMAIN toClient /\ toClient'[i] = toClient[i + 0]
  BY <1>1
<1>. QED  BY <1>2 DEF LinesKept

\* Nobody else accepts the registration on the way.
LEMMA AcceptedAreKept ==
    ASSUME LinesKept, NEW i \in DOMAIN toClient', toClient'[i].kind = "spec_valid"
    PROVE  \E j \in DOMAIN toClient : toClient[j].kind = "spec_valid"
BY LinesAssumption DEF LinesKept

\* Lines that are kept are as true as they were.
LEMMA KeptLinesAreTrue ==
    ASSUME SelectedFirst, VerdictInductive, LinesKept,
           traces' = traces, at' = at, trace' = trace, step' = step, toMirror' = toMirror,
           Accepted' => Accepted, loop' = loop \/ loop' # "computing"
    PROVE  /\ VerdictsAreTrue'
           /\ \A i \in DOMAIN toClient' : Asks(toClient'[i]) =>
                 \/ at' = "done" /\ ~Accepted'
                 \/ /\ at' = "awaiting" /\ toMirror' = <<>> /\ loop' # "computing"
                    /\ (toClient'[i].kind = "initial_state" <=> step' = 1)
                    /\ \A j \in DOMAIN toClient' : Asks(toClient'[j]) => j = i
<1>. USE DEF VerdictInductive
<1>1. PICK taken \in {0, 1} : \A i \in DOMAIN toClient' :
         \/ toClient'[i].kind = "malformed"
         \/ toClient'[i] \in Intrusions
         \/ i + taken \in DOMAIN toClient /\ toClient'[i] = toClient[i + taken]
  BY DEF LinesKept
<1>2. DOMAIN toClient \subseteq Nat /\ DOMAIN toClient' \subseteq Nat
  BY LinesAreIndexed DEF MirrorTypes, LinesKept
<1>3. \A line \in Intrusions : line.kind \notin ReplayKinds /\ line.kind # "spec_valid"
  BY LinesAssumption
<1>4. \A line \in Intrusions : line.kind = "register_error" /\ line.extension # NoExtension =>
         line.extension.code \notin OwnResults
  BY LinesAssumption DEF SelectedFirst, OwnResults
<1>5. ASSUME NEW i \in DOMAIN toClient', toClient'[i].kind \in ReplayKinds
      PROVE  i + taken \in DOMAIN toClient /\ toClient'[i] = toClient[i + taken]
  BY <1>1, <1>3, <1>5 DEF ReplayKinds
<1>6. VerdictsAreTrue'
  <2>. SUFFICES ASSUME NEW i \in DOMAIN toClient'
       PROVE  /\ toClient'[i].kind = "all_steps_done" =>
                    at = "done" /\ (Accepted' => trace > Len(traces))
              /\ toClient'[i].kind = "step_mismatch" =>
                    at = "done" /\ (Accepted' => trace <= Len(traces))
              /\ toClient'[i].kind = "register_error" /\ toClient'[i].extension # NoExtension =>
                    toClient'[i].extension.code \notin OwnResults
    BY DEF VerdictsAreTrue
  <2>1. toClient'[i].kind = "all_steps_done" =>
                    at = "done" /\ (Accepted' => trace > Len(traces))
    BY <1>5 DEF VerdictsAreTrue, ReplayKinds
  <2>2. toClient'[i].kind = "step_mismatch" =>
                    at = "done" /\ (Accepted' => trace <= Len(traces))
    BY <1>5 DEF VerdictsAreTrue, ReplayKinds
  <2>3. toClient'[i].kind = "register_error" /\ toClient'[i].extension # NoExtension =>
                    toClient'[i].extension.code \notin OwnResults
    BY <1>1, <1>4 DEF VerdictsAreTrue
  <2>. QED  BY <2>1, <2>2, <2>3
<1>7. ASSUME NEW i \in DOMAIN toClient', Asks(toClient'[i])
      PROVE  \/ at' = "done" /\ ~Accepted'
             \/ /\ at' = "awaiting" /\ toMirror' = <<>> /\ loop' # "computing"
                /\ (toClient'[i].kind = "initial_state" <=> step' = 1)
                /\ \A j \in DOMAIN toClient' : Asks(toClient'[j]) => j = i
  <2>1. i + taken \in DOMAIN toClient /\ toClient'[i] = toClient[i + taken]
    BY <1>5, <1>7 DEF Asks, ReplayKinds
  <2>2. ASSUME NEW j \in DOMAIN toClient', Asks(toClient'[j])
        PROVE  j + taken \in DOMAIN toClient /\ Asks(toClient[j + taken])
    BY <1>5, <2>2 DEF Asks, ReplayKinds
  <2>3. \/ at = "done" /\ ~Accepted
        \/ /\ at = "awaiting" /\ toMirror = <<>> /\ loop # "computing"
           /\ (toClient[i + taken].kind = "initial_state" <=> step = 1)
           /\ \A j \in DOMAIN toClient : Asks(toClient[j]) => j = i + taken
    BY <1>7, <2>1 DEF RequestsAreDue
  <2>4. (\A j \in DOMAIN toClient : Asks(toClient[j]) => j = i + taken) =>
           \A j \in DOMAIN toClient' : Asks(toClient'[j]) => j = i
    BY <1>2, <2>2
  <2>. QED  BY <2>1, <2>3, <2>4
<1>. QED  BY <1>6, <1>7

\* A step that takes a line at most, asks for nothing and sends nothing.
LEMMA QuietStepKeeps ==
    ASSUME SelectedFirst, VerdictInductive, LinesKept,
           traces' = traces, at' = at, trace' = trace, step' = step, toMirror' = toMirror,
           Accepted' => Accepted, key' = key,
           \/ loop' = loop /\ asked' = asked
           \/ loop' \notin {"computing", "unregistered"},
           OutcomeIsTheVerdict'
    PROVE  VerdictInductive'
<1>1. MirrorTypes'  BY DEF VerdictInductive, MirrorTypes, LinesKept
<1>2. MirrorTurns'  BY DEF VerdictInductive, MirrorTurns, Registration
<1>3. VerdictsAreTrue'  BY KeptLinesAreTrue
<1>4. RequestsAreDue'  BY KeptLinesAreTrue DEF RequestsAreDue, VerdictInductive
<1>. QED  BY <1>1, <1>2, <1>3, <1>4 DEF VerdictInductive

\* What the client gives up with is none of its own results.
LEMMA GivenUp ==
    ASSUME NEW kind, kind \notin OwnResults, End(Result(kind))
    PROVE  loop' = "over" /\ OutcomeIsTheVerdict' /\ outcome'.kind \notin OwnResults
BY DEF End, Result, OutcomeIsTheVerdict, OwnResults

\* A step that ends the client with an error.
LEMMA GivingUpKeeps ==
    ASSUME SelectedFirst, VerdictInductive, LinesKept, mirror' = mirror, toMirror' = toMirror,
           key' = key, NEW kind, kind \notin OwnResults, End(Result(kind))
    PROVE  VerdictInductive'
<1>1. loop' = "over" /\ OutcomeIsTheVerdict'  BY GivenUp
<1>2. Accepted' => Accepted  BY <1>1, AcceptedAreKept DEF Accepted
<1>. QED  BY <1>1, <1>2, QuietStepKeeps DEF mirror

LEMMA RefuseKeepsVerdicts ==
    ASSUME SelectedFirst, VerdictInductive, Refuse
    PROVE  VerdictInductive'
<1>1. SelectionError \notin OwnResults
  BY DEF SelectionError, ResolveError, OwnResults
<1>2. /\ End(Result(SelectionError)) /\ mirror' = mirror /\ toMirror' = toMirror
      /\ toClient' = toClient /\ key' = key
  BY DEF Refuse, connection, negotiation, key
<1>. QED
  BY <1>1, <1>2, GivingUpKeeps, NothingConsumed DEF VerdictInductive, MirrorTypes

LEMMA RegisterKeepsVerdicts ==
    ASSUME NegotiationInductive, VerdictInductive, Register
    PROVE  VerdictInductive'
<1>. USE DEF VerdictInductive
<1>1. /\ loop = "unregistered" /\ mirror' = mirror /\ key' = key
      /\ at = "listening" /\ toMirror = <<>> /\ SelectedFirst
  BY DEF Register, negotiation, key, MirrorTurns, NegotiationInductive
<1>2. CASE SendFails(Registration) /\ End(Result("io"))
  <2>1. toMirror' = toMirror /\ toClient' = toClient  BY <1>2 DEF SendFails, connection
  <2>. QED
    BY <1>1, <1>2, <2>1, GivingUpKeeps, NothingConsumed DEF MirrorTypes, OwnResults
<1>3. CASE Send(Registration) /\ Stay("registered")
  <2>1. /\ toMirror' = <<Registration>> /\ toClient' = toClient
        /\ loop' = "registered" /\ asked' = asked /\ outcome' = outcome
    BY <1>1, <1>3 DEF Send, Delivered, Stay
  <2>2. /\ traces' = traces /\ at' = at /\ trace' = trace /\ step' = step
        /\ Registration' = Registration
    BY <1>1 DEF mirror, Registration
  <2>3. ~Accepted' /\ ~Accepted
    BY <1>1, <2>1 DEF Accepted, MirrorTurns
  <2>4. MirrorTypes'  BY <2>1, <2>2 DEF MirrorTypes
  <2>5. MirrorTurns'  BY <1>1, <2>1, <2>2, <2>3 DEF MirrorTurns
  <2>6. RequestsAreDue'  BY <1>1, <2>1, <2>2 DEF RequestsAreDue
  <2>7. VerdictsAreTrue'  BY <1>1, <2>1, <2>2, <2>3 DEF VerdictsAreTrue
  <2>8. OutcomeIsTheVerdict'  BY <2>1, <2>2 DEF OutcomeIsTheVerdict
  <2>. QED  BY <2>4, <2>5, <2>6, <2>7, <2>8
<1>. QED  BY <1>2, <1>3 DEF Register

\* decode_authorization gives up with an error of the client's or the mirror's code.
LEMMA RefusalsAreErrors ==
    ASSUME NEW r, NEW policy, NEW offered, NEW pin,
           r.kind = "register_error" /\ r.extension # NoExtension =>
              r.extension.code \notin OwnResults
    PROVE  DecodeAuthorization(r, policy, offered, pin).code \notin OwnResults
<1>1. /\ \A code : Refused(code).code = code
      /\ \A how : Granted(how).code = ""
      /\ Unexpected.code = "negotiation_status_unexpected"
  BY DEF Refused, Granted, Unexpected
<1>2. "" \notin OwnResults /\ "negotiation_status_unexpected" \notin OwnResults
      /\ "register_error" \notin OwnResults /\ "interface_digest_mismatch" \notin OwnResults
      /\ "transport_closed" \notin OwnResults /\ "spec_invalid" \notin OwnResults
      /\ "protocol_error" \notin OwnResults /\ "negotiation_missing" \notin OwnResults
      /\ "legacy_fallback_unavailable" \notin OwnResults
  BY DEF OwnResults
<1>3. \A code : code \notin OwnResults => FallbackOr(policy, offered, code).code \notin OwnResults
  BY <1>1, <1>2 DEF FallbackOr
<1>. HIDE DEF OwnResults
<1>4. CASE r.kind = "spec_valid"
  <2>1. Missing(policy, offered).code \notin OwnResults  BY <1>2, <1>3 DEF Missing
  <2>2. OnValid(r.extension, policy, offered, pin).code \notin OwnResults
    <3>1. CASE r.extension.status = "matched"  BY <1>1, <1>2, <3>1 DEF OnValid
    <3>2. CASE r.extension.status \in {"unsupported", "unavailable"}
      BY <1>1, <1>2, <1>3, <3>2 DEF OnValid
    <3>3. CASE r.extension.status \notin {"matched", "unsupported", "unavailable"}
      BY <1>1, <1>2, <3>3 DEF OnValid
    <3>. QED  BY <3>1, <3>2, <3>3
  <2>. QED  BY <1>1, <1>2, <1>4, <2>1, <2>2 DEF DecodeAuthorization
<1>5. CASE r.kind = "register_error"
  <2>1. r.extension # NoExtension => OnRegisterError(r.extension, pin).code \notin OwnResults
    BY <1>1, <1>2, <1>5 DEF OnRegisterError
  <2>2. DecodeAuthorization(r, policy, offered, pin)
          = IF r.extension = NoExtension THEN Refused("register_error")
            ELSE IF Sound(r.extension) THEN OnRegisterError(r.extension, pin)
            ELSE Unexpected
    BY <1>5 DEF DecodeAuthorization
  <2>. QED  BY <1>1, <1>2, <2>1, <2>2
<1>6. CASE r.kind \in {"transport_closed", "spec_invalid", "protocol_error"}
  BY <1>1, <1>2, <1>6 DEF DecodeAuthorization
<1>7. CASE r.kind \notin {"spec_valid", "register_error", "transport_closed", "spec_invalid",
                          "protocol_error"}
  BY <1>1, <1>2, <1>7 DEF DecodeAuthorization
<1>. QED  BY <1>4, <1>5, <1>6, <1>7

\* A reply that is refused ends the client with such an error.
LEMMA RefusedReply ==
    ASSUME VerdictInductive, ReceiveReply, Decision(Received).verdict = "error"
    PROVE  \E kind : kind \notin OwnResults /\ End(Result(kind))
<1>1. IsLines(toClient) /\ Consume  BY DEF ReceiveReply, VerdictInductive, MirrorTypes
<1>2. Received.kind = "register_error" =>
         1 \in DOMAIN toClient /\ Received = toClient[1]
  BY <1>1, LineConsumed
<1>3. Received.kind = "register_error" /\ Received.extension # NoExtension =>
         Received.extension.code \notin OwnResults
  BY <1>2 DEF VerdictInductive, VerdictsAreTrue
<1>4. Decision(Received).code \notin OwnResults
  BY <1>3, RefusalsAreErrors DEF Decision
<1>. QED  BY <1>4 DEF ReceiveReply

LEMMA ReceiveReplyKeepsVerdicts ==
    ASSUME NegotiationInductive, VerdictInductive, ReceiveReply
    PROVE  VerdictInductive'
<1>. USE DEF VerdictInductive
<1>1. /\ loop = "registered" /\ mirror' = mirror /\ key' = key /\ SelectedFirst
      /\ Consume /\ IsLines(toClient)
  BY DEF ReceiveReply, key, MirrorTypes, NegotiationInductive
<1>2. LinesKept /\ toMirror' = toMirror  BY <1>1, ConsumedIsKept, LineConsumed
<1>3. CASE Decision(Received).verdict = "error"
  BY <1>1, <1>2, <1>3, RefusedReply, GivingUpKeeps
<1>4. CASE Decision(Received).verdict # "error"
  <2>1. /\ loop' = "creating" /\ asked' = asked /\ outcome' = outcome
    BY <1>4 DEF ReceiveReply, Stay
  <2>2. Received.kind = "spec_valid"  BY <1>4, GrantsAreSaid DEF Decision
  <2>3. 1 \in DOMAIN toClient /\ Received = toClient[1]  BY <1>1, <2>2, LineConsumed
  <2>4. Accepted  BY <2>2, <2>3 DEF Accepted
  <2>5. OutcomeIsTheVerdict'  BY <1>1, <2>1 DEF OutcomeIsTheVerdict, mirror
  <2>. QED  BY <1>1, <1>2, <2>1, <2>4, <2>5, QuietStepKeeps DEF mirror
<1>. QED  BY <1>3, <1>4

\* The binding is made and checked between two lines.
LEMMA BindingKeepsVerdicts ==
    ASSUME NegotiationInductive, VerdictInductive, Create \/ CheckBinding
    PROVE  VerdictInductive'
<1>. USE DEF VerdictInductive
<1>1. /\ loop \in {"creating", "checking"} /\ mirror' = mirror /\ key' = key /\ SelectedFirst
      /\ toMirror' = toMirror /\ toClient' = toClient /\ LinesKept
  BY NothingConsumed
     DEF Create, CheckBinding, connection, negotiation, key, MirrorTypes, NegotiationInductive
<1>2. \/ \E kind : kind \notin OwnResults /\ End(Result(kind))
      \/ loop' \in {"checking", "receiving"} /\ asked' = asked /\ outcome' = outcome
  BY DEF Create, CheckBinding, Stay, OwnResults
<1>3. CASE \E kind : kind \notin OwnResults /\ End(Result(kind))
  BY <1>1, <1>3, GivingUpKeeps
<1>4. CASE loop' \in {"checking", "receiving"} /\ asked' = asked /\ outcome' = outcome
  <2>1. Accepted  BY <1>1 DEF Accepted
  <2>2. OutcomeIsTheVerdict'  BY <1>1, <1>4 DEF OutcomeIsTheVerdict, mirror
  <2>. QED  BY <1>1, <1>4, <2>1, <2>2, QuietStepKeeps DEF mirror
<1>. QED  BY <1>2, <1>3, <1>4

\* What a step of the loop takes from the connection.
LEMMA LoopConsumes ==
    ASSUME NegotiationInductive, VerdictInductive, Loop
    PROVE  /\ LinesKept /\ mirror' = mirror /\ toMirror' = toMirror /\ key' = key
           /\ loop = "receiving" /\ Running /\ SelectedFirst
           /\ Received.kind \notin {"transport_closed", "malformed"} =>
                 /\ toClient # <<>> /\ toClient' = Tail(toClient)
                 /\ 1 \in DOMAIN toClient /\ Received = toClient[1]
<1>1. /\ Consume /\ loop = "receiving" /\ mirror' = mirror /\ key' = key
      /\ IsLines(toClient) /\ SelectedFirst
  BY DEF Loop, Receive, negotiation, key, NegotiationInductive, VerdictInductive, MirrorTypes
<1>2. LinesKept /\ toMirror' = toMirror  BY <1>1, ConsumedIsKept, LineConsumed
<1>3. Running  BY <1>1 DEF NegotiationInductive, StagesInOrder
<1>4. Received.kind \notin {"transport_closed", "malformed"} =>
         /\ toClient # <<>> /\ toClient' = Tail(toClient)
         /\ 1 \in DOMAIN toClient /\ Received = toClient[1]
  BY <1>1, LineConsumed
<1>. QED  BY <1>1, <1>2, <1>3, <1>4

LEMMA TakeRequestKeepsVerdicts ==
    ASSUME NegotiationInductive, VerdictInductive, Loop, TakeRequest(Received)
    PROVE  VerdictInductive'
<1>. USE DEF VerdictInductive
<1>1. /\ LinesKept /\ mirror' = mirror /\ toMirror' = toMirror /\ key' = key
      /\ loop = "receiving" /\ SelectedFirst
  BY LoopConsumes
<1>2. /\ Asks(Received) /\ loop' = "computing" /\ asked' = Received /\ outcome' = outcome
  BY DEF TakeRequest
<1>3. /\ toClient # <<>> /\ toClient' = Tail(toClient)
      /\ 1 \in DOMAIN toClient /\ Received = toClient[1]
  BY <1>2, LoopConsumes DEF Asks
<1>4. /\ traces' = traces /\ at' = at /\ trace' = trace /\ step' = step
  BY <1>1 DEF mirror
<1>5. Accepted  BY <1>1 DEF Accepted
<1>6. /\ at = "awaiting" /\ toMirror = <<>>
      /\ (Received.kind = "initial_state" <=> step = 1)
      /\ \A j \in DOMAIN toClient : Asks(toClient[j]) => j = 1
  BY <1>2, <1>3, <1>5 DEF RequestsAreDue
<1>7. DOMAIN toClient' \subseteq Nat \ {0}
  <2>1. IsLines(toClient')  BY <1>1 DEF LinesKept
  <2>2. DOMAIN toClient' = 1..Len(toClient') /\ Len(toClient') \in Nat  BY <2>1, LinesAreIndexed
  <2>. QED  BY <2>2
<1>8. \A i \in DOMAIN toClient' : ~Asks(toClient'[i])
  <2>1. ASSUME NEW i \in DOMAIN toClient' PROVE ~Asks(toClient'[i])
    <3>1. i + 1 \in DOMAIN toClient /\ toClient'[i] = toClient[i + 1]
      BY <1>3, FirstLineTaken DEF MirrorTypes
    <3>2. i + 1 # 1  BY <1>7
    <3>. QED  BY <1>6, <3>1, <3>2
  <2>. QED  BY <2>1
<1>9. MirrorTypes'  BY <1>1, <1>4 DEF MirrorTypes, LinesKept
<1>10. MirrorTurns'  BY <1>1, <1>2, <1>4, <1>6 DEF MirrorTurns
<1>11. RequestsAreDue'
  <2>1. asked'.kind = IF step = 1 THEN "initial_state" ELSE "next_step"
    BY <1>2, <1>6 DEF Asks
  <2>. QED  BY <1>1, <1>2, <1>4, <1>6, <1>8, <2>1 DEF RequestsAreDue
<1>12. VerdictsAreTrue'
  <2>1. ASSUME NEW i \in DOMAIN toClient'
        PROVE  i + 1 \in DOMAIN toClient /\ toClient'[i] = toClient[i + 1]
    BY <1>3, FirstLineTaken DEF MirrorTypes
  <2>. QED  BY <1>4, <1>5, <2>1 DEF VerdictsAreTrue
<1>13. OutcomeIsTheVerdict'  BY <1>2, <1>4 DEF OutcomeIsTheVerdict
<1>. QED  BY <1>9, <1>10, <1>11, <1>12, <1>13

\* Any other line that ends the loop is an error.
LEMMA OtherEnds ==
    ASSUME TakeEnd(Received), Received.kind # "all_steps_done"
    PROVE  \E kind : kind \notin OwnResults /\ End(Result(kind))
<1>1. \E kind : kind \notin OwnResults /\ ErrorOf(Received) = Result(kind)
  <2>1. CASE Received.kind \in {"transport_closed", "malformed", "spec_invalid",
                                "protocol_error", "register_error"}
    BY <2>1 DEF ErrorOf, OwnResults
  <2>2. CASE Received.kind \notin {"transport_closed", "malformed", "spec_invalid",
                                   "protocol_error", "register_error"}
    BY <2>2 DEF ErrorOf, OwnResults
  <2>. QED  BY <2>1, <2>2
<1>2. "unexpected" \notin OwnResults  BY DEF OwnResults
<1>. QED  BY <1>1, <1>2 DEF TakeEnd

\* Either the mirror goes on, or it has said its verdict, or it is out of turn.
LEMMA TakeLineKeepsVerdicts ==
    ASSUME NegotiationInductive, VerdictInductive, Loop,
           TakeStepOk(Received) \/ TakeMismatch(Received) \/ TakeEnd(Received)
    PROVE  VerdictInductive'
<1>1. /\ LinesKept /\ mirror' = mirror /\ toMirror' = toMirror /\ key' = key
      /\ loop = "receiving" /\ SelectedFirst
      /\ Received.kind \notin {"transport_closed", "malformed"} =>
            /\ 1 \in DOMAIN toClient /\ Received = toClient[1]
  BY LoopConsumes
<1>2. Accepted /\ traces' = traces /\ at' = at /\ trace' = trace /\ step' = step
  BY <1>1 DEF Accepted, mirror
<1>3. CASE TakeStepOk(Received)
  <2>1. loop' = loop /\ asked' = asked /\ outcome' = outcome
    BY <1>3 DEF TakeStepOk, stepping
  <2>2. OutcomeIsTheVerdict'
    BY <1>2, <2>1 DEF OutcomeIsTheVerdict, VerdictInductive
  <2>. QED  BY <1>1, <1>2, <2>1, <2>2, QuietStepKeeps
<1>4. CASE TakeMismatch(Received)
  <2>1. Received.kind = "step_mismatch" /\ loop' = "over" /\ outcome'.kind = "mismatch"
    BY <1>4 DEF TakeMismatch, End
  <2>2. at = "done" /\ trace <= Len(traces)
    BY <1>1, <1>2, <2>1 DEF VerdictInductive, VerdictsAreTrue
  <2>3. OutcomeIsTheVerdict'  BY <1>2, <2>1, <2>2 DEF OutcomeIsTheVerdict
  <2>. QED  BY <1>1, <1>2, <2>1, <2>3, QuietStepKeeps
<1>5. CASE TakeEnd(Received) /\ Received.kind = "all_steps_done"
  <2>1. loop' = "over" /\ outcome'.kind = "ok"
    BY <1>5 DEF TakeEnd, End, Result
  <2>2. at = "done" /\ trace > Len(traces)
    BY <1>1, <1>2, <1>5 DEF VerdictInductive, VerdictsAreTrue
  <2>3. OutcomeIsTheVerdict'  BY <1>2, <2>1, <2>2 DEF OutcomeIsTheVerdict
  <2>. QED  BY <1>1, <1>2, <2>1, <2>3, QuietStepKeeps
<1>6. CASE TakeEnd(Received) /\ Received.kind # "all_steps_done"
  BY <1>1, <1>6, OtherEnds, GivingUpKeeps
<1>. QED  BY <1>3, <1>4, <1>5, <1>6

LEMMA LoopKeepsVerdicts ==
    ASSUME NegotiationInductive, VerdictInductive, Loop
    PROVE  VerdictInductive'
BY TakeRequestKeepsVerdicts, TakeLineKeepsVerdicts DEF Loop, Receive

\* The report is the one the mirror waits for.
LEMMA CallComputerKeepsVerdicts ==
    ASSUME NegotiationInductive, VerdictInductive, CallComputer
    PROVE  VerdictInductive'
<1>. USE DEF VerdictInductive
<1>1. /\ loop = "computing" /\ mirror' = mirror /\ key' = key /\ SelectedFirst
      /\ toClient' = toClient /\ LinesKept
      /\ \/ \E value \in Values : Send(Report(value)) /\ loop' = "receiving" /\ outcome' = outcome
         \/ toMirror' = toMirror /\ \E kind : kind \notin OwnResults /\ End(Result(kind))
  BY NothingConsumed
     DEF CallComputer, ReportState, ReportFails, CallbackFails, Send, SendFails, connection,
         negotiation, key, MirrorTypes, NegotiationInductive, OwnResults
<1>2. CASE toMirror' = toMirror /\ \E kind : kind \notin OwnResults /\ End(Result(kind))
  BY <1>1, <1>2, GivingUpKeeps
<1>3. CASE \E value \in Values :
              Send(Report(value)) /\ loop' = "receiving" /\ outcome' = outcome
  <2>1. /\ at = "awaiting" /\ toMirror = <<>> /\ Accepted
        /\ traces' = traces /\ at' = at /\ trace' = trace /\ step' = step
    BY <1>1 DEF RequestsAreDue, Accepted, mirror
  <2>2. PICK value \in Values : toMirror' = <<Report(value)>>
    BY <1>3, <2>1 DEF Send, Delivered
  <2>3. MirrorTypes'  BY <1>1, <2>1 DEF MirrorTypes
  <2>4. MirrorTurns'  BY <1>3, <2>1, <2>2 DEF MirrorTurns, Report
  <2>5. \A i \in DOMAIN toClient : ~Asks(toClient[i])
    BY <1>1, <2>1 DEF RequestsAreDue
  <2>6. RequestsAreDue'  BY <1>1, <1>3, <2>5 DEF RequestsAreDue
  <2>7. VerdictsAreTrue'  BY <1>1, <2>1 DEF VerdictsAreTrue
  <2>8. OutcomeIsTheVerdict'  BY <1>3, <2>1 DEF OutcomeIsTheVerdict
  <2>. QED  BY <2>3, <2>4, <2>6, <2>7, <2>8
<1>. QED  BY <1>1, <1>2, <1>3

\* Afterwards the result is kept, or was good and becomes an error.
LEMMA EndingKeepsVerdicts ==
    ASSUME NegotiationInductive, VerdictInductive, Dispose \/ Close
    PROVE  VerdictInductive'
<1>1. /\ mirror' = mirror /\ key' = key /\ SelectedFirst /\ LinesKept
      /\ toMirror' = toMirror /\ loop' = loop /\ asked' = asked /\ loop = "over"
      /\ toClient' = toClient
  BY NothingConsumed
     DEF Dispose, Close, BeginClose, EndClose, connection, stepping, negotiation, key,
         NegotiationInductive, VerdictInductive, MirrorTypes
<1>2. Accepted' => Accepted  BY <1>1 DEF Accepted
<1>3. OutcomeIsTheVerdict'
  <2>1. \/ outcome' = outcome
        \/ outcome.kind = "ok" /\ outcome'.kind \in {"adapter_dispose_failed", "io"}
    BY DEF Dispose, Close, FirstError, Result
  <2>. QED  BY <1>1, <2>1 DEF VerdictInductive, OutcomeIsTheVerdict, mirror
<1>. QED  BY <1>1, <1>2, <1>3, QuietStepKeeps DEF mirror

\* What the mirror says is the last line.
LEMMA LineSaid ==
    ASSUME VerdictInductive, NEW line, Says(line)
    PROVE  /\ IsLines(toClient')
           /\ \A i \in DOMAIN toClient' :
                 \/ toClient'[i] = line /\ i = Len(toClient) + 1
                 \/ i \in DOMAIN toClient /\ toClient'[i] = toClient[i]
           /\ \A i \in DOMAIN toClient : i \in DOMAIN toClient' /\ toClient'[i] = toClient[i]
<1>1. IsLines(toClient)  BY DEF VerdictInductive, MirrorTypes
<1>2. toClient' = Append(toClient, line)  BY DEF Says
<1>. QED  BY <1>1, <1>2, LineAppended

\* While no request is due there is none, and before the verdict there is none.
LEMMA NothingIsDue ==
    ASSUME VerdictInductive
    PROVE  /\ at \in {"listening", "asking"} \/ (at = "awaiting" /\ toMirror # <<>>) =>
                 loop # "computing" /\ \A i \in DOMAIN toClient : ~Asks(toClient[i])
           /\ at # "done" => \A i \in DOMAIN toClient :
                                toClient[i].kind \notin {"all_steps_done", "step_mismatch"}
BY DEF VerdictInductive, RequestsAreDue, VerdictsAreTrue

\* What a step of the mirror leaves to the client.
LEMMA ClientIdles ==
    ASSUME Idle
    PROVE  /\ loop' = loop /\ asked' = asked /\ outcome' = outcome
           /\ key' = key /\ Registration' = Registration
BY DEF Idle, stepping, negotiation, key, Registration

LEMMA MirrorRegistersKeepsVerdicts ==
    ASSUME NegotiationInductive, VerdictInductive, MirrorRegisters, Idle
    PROVE  VerdictInductive'
<1>. USE DEF VerdictInductive
<1>1. at = "listening" /\ toMirror = <<Registration>> /\ trace = 1 /\ step = 1
      /\ loop \notin {"unregistered", "computing"} /\ ~Accepted
  BY DEF MirrorRegisters, MirrorTurns, RequestsAreDue
<1>2. PICK answer \in RegistrationReplies(Registration) :
         /\ Says(answer)
         /\ at' = IF answer.kind = "spec_valid" THEN "asking" ELSE "done"
  <2>1. Head(toMirror) = Registration /\ Registration.kind = "register"
    BY <1>1 DEF Registration
  <2>. QED  BY <2>1 DEF MirrorRegisters
<1>3. /\ toMirror' = <<>> /\ traces' = traces /\ trace' = trace /\ step' = step
      /\ loop' = loop /\ asked' = asked /\ outcome' = outcome
  BY <1>1, ClientIdles DEF MirrorRegisters
<1>4. /\ IsLines(toClient')
      /\ \A i \in DOMAIN toClient' :
            \/ toClient'[i] = answer /\ i = Len(toClient) + 1
            \/ i \in DOMAIN toClient /\ toClient'[i] = toClient[i]
  BY <1>2, LineSaid
<1>5. answer.kind # "spec_valid" => ~Accepted'
  BY <1>1, <1>3, <1>4 DEF Accepted
<1>6. answer.kind = "register_error" /\ answer.extension # NoExtension =>
         answer.extension.code \notin OwnResults
  <2>1. selection \in Selections  BY DEF NegotiationInductive, SelectedFirst
  <2>. QED  BY <1>2, <2>1, LinesAssumption DEF Registration, key, OwnResults
<1>7. MirrorTypes'  BY <1>1, <1>2, <1>3, <1>4 DEF MirrorTypes
<1>8. MirrorTurns'  BY <1>1, <1>2, <1>3 DEF MirrorTurns
<1>9. \A i \in DOMAIN toClient : ~Asks(toClient[i]) /\
         toClient[i].kind \notin {"all_steps_done", "step_mismatch"}
  BY <1>1, NothingIsDue
<1>10. RequestsAreDue'
  <2>1. ASSUME NEW i \in DOMAIN toClient', Asks(toClient'[i])
        PROVE  at' = "done" /\ ~Accepted'
    BY <1>2, <1>4, <1>5, <1>9, <2>1 DEF Asks
  <2>. QED  BY <1>1, <1>3, <2>1 DEF RequestsAreDue
<1>11. VerdictsAreTrue'
  <2>1. ASSUME NEW i \in DOMAIN toClient',
               toClient'[i].kind \in {"all_steps_done", "step_mismatch"}
        PROVE  at' = "done" /\ ~Accepted'
    BY <1>2, <1>4, <1>5, <1>9, <2>1
  <2>2. ASSUME NEW i \in DOMAIN toClient', toClient'[i].kind = "register_error",
               toClient'[i].extension # NoExtension
        PROVE  toClient'[i].extension.code \notin OwnResults
    BY <1>4, <1>6, <2>2 DEF VerdictsAreTrue
  <2>. QED  BY <2>1, <2>2 DEF VerdictsAreTrue
<1>12. OutcomeIsTheVerdict'
  BY <1>1, <1>3 DEF OutcomeIsTheVerdict
<1>. QED  BY <1>7, <1>8, <1>10, <1>11, <1>12

LEMMA MirrorAsksKeepsVerdicts ==
    ASSUME NegotiationInductive, VerdictInductive, MirrorAsks, Idle
    PROVE  VerdictInductive'
<1>. USE DEF VerdictInductive
<1>. DEFINE request == [kind |-> IF step = 1 THEN "initial_state" ELSE "next_step",
                        action |-> TheStep.action, value |-> TheStep.value]
<1>1. /\ at = "asking" /\ trace <= Len(traces) /\ Says(request) /\ at' = "awaiting"
      /\ toMirror' = toMirror /\ toMirror = <<>>
      /\ traces' = traces /\ trace' = trace /\ step' = step
      /\ loop' = loop /\ asked' = asked /\ outcome' = outcome
  BY ClientIdles DEF MirrorAsks, MirrorTurns
<1>2. /\ IsLines(toClient')
      /\ \A i \in DOMAIN toClient' :
            \/ toClient'[i] = request /\ i = Len(toClient) + 1
            \/ i \in DOMAIN toClient /\ toClient'[i] = toClient[i]
  BY <1>1, LineSaid
<1>3. request.kind = IF step = 1 THEN "initial_state" ELSE "next_step"  OBVIOUS
<1>. HIDE DEF request
<1>4. /\ loop # "computing" /\ \A i \in DOMAIN toClient : ~Asks(toClient[i])
      /\ \A i \in DOMAIN toClient : toClient[i].kind \notin {"all_steps_done", "step_mismatch"}
  BY <1>1, NothingIsDue
<1>5. MirrorTypes'  BY <1>1, <1>2 DEF MirrorTypes
<1>6. MirrorTurns'
  <2>1. loop' # "unregistered"  BY <1>1 DEF MirrorTurns
  <2>. QED  BY <1>1, <2>1 DEF MirrorTurns
<1>7. RequestsAreDue'
  <2>1. \A i \in DOMAIN toClient' : Asks(toClient'[i]) =>
           i = Len(toClient) + 1 /\ toClient'[i].kind = request.kind
    BY <1>2, <1>4
  <2>. QED  BY <1>1, <1>3, <1>4, <2>1 DEF RequestsAreDue
<1>8. VerdictsAreTrue'
  <2>1. \A i \in DOMAIN toClient' :
           toClient'[i].kind \notin {"all_steps_done", "step_mismatch"}
    BY <1>2, <1>3, <1>4
  <2>2. ASSUME NEW i \in DOMAIN toClient', toClient'[i].kind = "register_error",
               toClient'[i].extension # NoExtension
        PROVE  toClient'[i].extension.code \notin OwnResults
    BY <1>2, <1>3, <2>2 DEF VerdictsAreTrue
  <2>. QED  BY <2>1, <2>2 DEF VerdictsAreTrue
<1>9. OutcomeIsTheVerdict'  BY <1>1 DEF OutcomeIsTheVerdict
<1>. QED  BY <1>5, <1>6, <1>7, <1>8, <1>9

LEMMA MirrorAgreesKeepsVerdicts ==
    ASSUME NegotiationInductive, VerdictInductive, MirrorAgrees, Idle
    PROVE  VerdictInductive'
<1>. USE DEF VerdictInductive
<1>1. /\ at = "awaiting" /\ toMirror # <<>> /\ Says([kind |-> "step_ok"])
      /\ at' = "asking" /\ toMirror' = <<>> /\ traces' = traces
      /\ trace <= Len(traces) /\ loop # "unregistered"
      /\ loop' = loop /\ asked' = asked /\ outcome' = outcome
  <2>1. /\ at = "awaiting" /\ toMirror # <<>> /\ toMirror' = Tail(toMirror)
        /\ Says([kind |-> "step_ok"]) /\ at' = "asking" /\ traces' = traces
    BY DEF MirrorAgrees
  <2>2. trace <= Len(traces) /\ \E value \in Values : toMirror = <<Report(value)>>
    BY <2>1 DEF MirrorTurns
  <2>3. toMirror' = <<>>  BY <2>1, <2>2
  <2>4. loop # "unregistered"  BY <2>1 DEF MirrorTurns
  <2>. QED  BY <2>1, <2>2, <2>3, <2>4, ClientIdles
<1>2. /\ IsLines(toClient')
      /\ \A i \in DOMAIN toClient' :
            \/ toClient'[i].kind = "step_ok"
            \/ i \in DOMAIN toClient /\ toClient'[i] = toClient[i]
  BY <1>1, LineSaid
<1>3. /\ loop # "computing" /\ \A i \in DOMAIN toClient : ~Asks(toClient[i])
      /\ \A i \in DOMAIN toClient : toClient[i].kind \notin {"all_steps_done", "step_mismatch"}
  BY <1>1, NothingIsDue
<1>4. MirrorTypes'
  <2>1. /\ Len(traces) \in Nat /\ trace \in 1..Len(traces) /\ step \in Nat \ {0}
        /\ step <= Len(traces[trace]) /\ Len(traces[trace]) \in Nat
        /\ \A t \in 1..Len(traces) : Len(traces[t]) \in Nat \ {0}
    BY <1>1, TracesAssumption DEF MirrorTypes
  <2>2. CASE step < Len(traces[trace])
    <3>1. step' = step + 1 /\ trace' = trace  BY <2>2 DEF MirrorAgrees
    <3>. QED  BY <1>1, <1>2, <2>1, <2>2, <3>1 DEF MirrorTypes
  <2>3. CASE ~(step < Len(traces[trace]))
    <3>1. step' = 1 /\ trace' = trace + 1  BY <2>3 DEF MirrorAgrees
    <3>2. trace + 1 <= Len(traces) => 1 <= Len(traces[trace + 1])
      BY <2>1
    <3>. QED  BY <1>1, <1>2, <2>1, <3>1, <3>2 DEF MirrorTypes
  <2>. QED  BY <2>2, <2>3
<1>5. MirrorTurns'  BY <1>1 DEF MirrorTurns
<1>6. RequestsAreDue'  BY <1>1, <1>2, <1>3 DEF RequestsAreDue, Asks
<1>7. VerdictsAreTrue'
  <2>1. ASSUME NEW i \in DOMAIN toClient', toClient'[i].kind = "register_error",
               toClient'[i].extension # NoExtension
        PROVE  toClient'[i].extension.code \notin OwnResults
    BY <1>2, <2>1 DEF VerdictsAreTrue
  <2>. QED  BY <1>2, <1>3, <2>1 DEF VerdictsAreTrue
<1>8. OutcomeIsTheVerdict'  BY <1>1 DEF OutcomeIsTheVerdict
<1>. QED  BY <1>4, <1>5, <1>6, <1>7, <1>8

\* The mirror ends the replay with a verdict, which is the last line it says of it.
LEMMA VerdictIsSaid ==
    ASSUME NegotiationInductive, VerdictInductive, Idle, NEW verdict, Says(verdict),
           \/ verdict.kind = "all_steps_done" /\ trace > Len(traces)
           \/ verdict.kind = "step_mismatch" /\ trace <= Len(traces),
           at = "asking" \/ (at = "awaiting" /\ toMirror # <<>>),
           at' = "done", toMirror' = <<>>, traces' = traces, trace' = trace, step' = step
    PROVE  VerdictInductive'
<1>. USE DEF VerdictInductive
<1>1. /\ loop' = loop /\ asked' = asked /\ outcome' = outcome /\ loop # "unregistered"
  BY ClientIdles DEF MirrorTurns
<1>2. /\ IsLines(toClient')
      /\ \A i \in DOMAIN toClient' :
            \/ toClient'[i] = verdict
            \/ i \in DOMAIN toClient /\ toClient'[i] = toClient[i]
  BY LineSaid
<1>3. /\ loop # "computing" /\ \A i \in DOMAIN toClient : ~Asks(toClient[i])
      /\ \A i \in DOMAIN toClient : toClient[i].kind \notin {"all_steps_done", "step_mismatch"}
  BY NothingIsDue
<1>4. MirrorTypes'  BY <1>2 DEF MirrorTypes
<1>5. MirrorTurns'  BY <1>1 DEF MirrorTurns
<1>6. RequestsAreDue'  BY <1>1, <1>2, <1>3 DEF RequestsAreDue, Asks
<1>7. VerdictsAreTrue'
  <2>1. ASSUME NEW i \in DOMAIN toClient', toClient'[i].kind = "register_error",
               toClient'[i].extension # NoExtension
        PROVE  toClient'[i].extension.code \notin OwnResults
    BY <1>2, <2>1 DEF VerdictsAreTrue
  <2>2. ASSUME NEW i \in DOMAIN toClient',
               toClient'[i].kind \in {"all_steps_done", "step_mismatch"}
        PROVE  toClient'[i] = verdict
    BY <1>2, <1>3, <2>2
  <2>3. ~(trace > Len(traces) /\ trace <= Len(traces))
    BY TracesAssumption DEF MirrorTypes
  <2>. QED  BY <2>1, <2>2, <2>3 DEF VerdictsAreTrue
<1>8. OutcomeIsTheVerdict'  BY <1>1 DEF OutcomeIsTheVerdict
<1>. QED  BY <1>4, <1>5, <1>6, <1>7, <1>8

LEMMA MirrorEndsKeepsVerdicts ==
    ASSUME NegotiationInductive, VerdictInductive, MirrorDisagrees \/ MirrorFinishes, Idle
    PROVE  VerdictInductive'
<1>1. CASE MirrorFinishes
  <2>1. /\ Says([kind |-> "all_steps_done"]) /\ trace > Len(traces) /\ at = "asking"
        /\ at' = "done" /\ toMirror' = <<>>
        /\ traces' = traces /\ trace' = trace /\ step' = step
    BY <1>1 DEF MirrorFinishes, VerdictInductive, MirrorTurns
  <2>2. [kind |-> "all_steps_done"].kind = "all_steps_done"  OBVIOUS
  <2>. QED  BY <2>1, <2>2, VerdictIsSaid
<1>2. CASE MirrorDisagrees
  <2>1. PICK action \in {TheStep.action, NoAction} :
           Says([kind |-> "step_mismatch", action |-> action])
    BY <1>2 DEF MirrorDisagrees
  <2>2. /\ at = "awaiting" /\ toMirror # <<>> /\ at' = "done" /\ toMirror' = Tail(toMirror)
        /\ traces' = traces /\ trace' = trace /\ step' = step
    BY <1>2 DEF MirrorDisagrees
  <2>3. trace <= Len(traces) /\ \E value \in Values : toMirror = <<Report(value)>>
    BY <2>2 DEF VerdictInductive, MirrorTurns
  <2>4. toMirror' = <<>>  BY <2>2, <2>3
  <2>5. [kind |-> "step_mismatch", action |-> action].kind = "step_mismatch"  OBVIOUS
  <2>. QED  BY <2>1, <2>2, <2>3, <2>4, <2>5, VerdictIsSaid
<1>. QED  BY <1>1, <1>2

\* Out of turn, at its end and when it dies it adds nothing to the replay.
LEMMA MirrorStraysKeepsVerdicts ==
    ASSUME NegotiationInductive, VerdictInductive,
           MirrorIntrudes \/ MirrorExits \/ MirrorDies, Idle
    PROVE  VerdictInductive'
<1>1. /\ loop' = loop /\ asked' = asked /\ outcome' = outcome /\ key' = key
      /\ IsLines(toClient) /\ SelectedFirst
  BY ClientIdles DEF VerdictInductive, MirrorTypes, NegotiationInductive
<1>2. /\ toMirror' = toMirror /\ traces' = traces /\ at' = at /\ trace' = trace /\ step' = step
  BY DEF MirrorIntrudes, MirrorExits, MirrorDies, mirror, Says
<1>3. LinesKept
  <2>1. CASE MirrorIntrudes
    <3>1. PICK line \in Intrusions : Says(line)  BY <2>1 DEF MirrorIntrudes
    <3>2. /\ IsLines(toClient')
          /\ \A i \in DOMAIN toClient' :
                \/ toClient'[i] = line
                \/ i \in DOMAIN toClient /\ toClient'[i] = toClient[i]
      BY <3>1, LineSaid
    <3>3. DOMAIN toClient \subseteq Nat  BY <1>1, LinesAreIndexed
    <3>4. \A i \in DOMAIN toClient' :
             \/ toClient'[i] \in Intrusions
             \/ i + 0 \in DOMAIN toClient /\ toClient'[i] = toClient[i + 0]
      BY <3>2, <3>3
    <3>. QED  BY <3>2, <3>4 DEF LinesKept
  <2>2. CASE MirrorExits  BY <1>1, <2>2, NothingConsumed DEF MirrorExits
  <2>3. CASE MirrorDies
    <3>1. PICK kept \in 0..Len(toClient) : toClient' = SubSeq(toClient, 1, kept)
      BY <2>3 DEF MirrorDies
    <3>2. /\ IsLines(toClient')
          /\ \A i \in DOMAIN toClient' : i \in DOMAIN toClient /\ toClient'[i] = toClient[i]
      BY <1>1, <3>1, LinesLost
    <3>3. DOMAIN toClient \subseteq Nat  BY <1>1, LinesAreIndexed
    <3>4. \A i \in DOMAIN toClient' : i + 0 \in DOMAIN toClient /\ toClient'[i] = toClient[i + 0]
      BY <3>2, <3>3
    <3>. QED  BY <3>2, <3>4 DEF LinesKept
  <2>. QED  BY <2>1, <2>2, <2>3
<1>4. Accepted' => Accepted  BY <1>1, <1>3, AcceptedAreKept DEF Accepted
<1>5. OutcomeIsTheVerdict'
  BY <1>1, <1>2 DEF OutcomeIsTheVerdict, VerdictInductive
<1>. QED  BY <1>1, <1>2, <1>3, <1>4, <1>5, QuietStepKeeps

LEMMA MirrorKeepsVerdicts ==
    ASSUME NegotiationInductive, VerdictInductive, MirrorStep, Idle
    PROVE  VerdictInductive'
BY MirrorRegistersKeepsVerdicts, MirrorAsksKeepsVerdicts, MirrorAgreesKeepsVerdicts,
   MirrorEndsKeepsVerdicts, MirrorStraysKeepsVerdicts DEF MirrorStep, MirrorAnswers

LEMMA StutteringKeepsVerdicts ==
    ASSUME VerdictInductive, UNCHANGED vars
    PROVE  VerdictInductive'
BY DEF vars, connection, mirror, stepping, negotiation, VerdictInductive, MirrorTypes,
       MirrorTurns, RequestsAreDue, VerdictsAreTrue, OutcomeIsTheVerdict, Accepted,
       Registration, key

LEMMA InitVerdicts ==
    ASSUME Init
    PROVE  VerdictInductive
<1>1. /\ toClient = <<>> /\ toMirror = <<>> /\ loop = "unregistered"
      /\ traces \in TraceLists /\ at = "listening" /\ trace = 1 /\ step = 1
      /\ outcome.kind = "running"
  BY DEF Init, NegotiationInit, Connected, MirrorInit, LoopInit, Result
<1>2. IsLines(toClient) /\ DOMAIN toClient = {}
  <2>1. toClient \in Seq({}) /\ Len(toClient) = 0  BY <1>1
  <2>2. IsLines(toClient) /\ DOMAIN toClient = 1..Len(toClient)  BY <2>1, SequencesAreLines
  <2>. QED  BY <2>1, <2>2
<1>3. MirrorTypes
  <2>1. Len(traces) \in Nat /\ \A t \in 1..Len(traces) : Len(traces[t]) \in Nat \ {0}
    BY <1>1, TracesAssumption
  <2>2. 1 <= Len(traces) => 1 <= Len(traces[1])  BY <2>1
  <2>. QED  BY <1>1, <1>2, <2>1, <2>2 DEF MirrorTypes
<1>4. ~Accepted  BY <1>1, <1>2 DEF Accepted
<1>. QED
  BY <1>1, <1>2, <1>3, <1>4
     DEF VerdictInductive, MirrorTurns, RequestsAreDue, VerdictsAreTrue, OutcomeIsTheVerdict

LEMMA StepKeepsVerdicts ==
    ASSUME NegotiationInductive, VerdictInductive, [Next]_vars
    PROVE  VerdictInductive'
<1>1. NegotiationInductive => SelectedFirst  BY DEF NegotiationInductive
<1>. QED
  BY <1>1, RefuseKeepsVerdicts, RegisterKeepsVerdicts, ReceiveReplyKeepsVerdicts,
     BindingKeepsVerdicts, LoopKeepsVerdicts, CallComputerKeepsVerdicts,
     EndingKeepsVerdicts, MirrorKeepsVerdicts, StutteringKeepsVerdicts DEF Next, ClientStep

\* One request or report is under way at a time, from the registration to the
\* verdict, and the result of the client is the verdict of the mirror.
THEOREM VerdictInvariantHolds == Spec => []VerdictInductive
<1>1. Init => VerdictInductive  BY InitVerdicts
<1>2. NegotiationInductive /\ VerdictInductive /\ [Next]_vars => VerdictInductive'
  BY StepKeepsVerdicts
<1>. QED  BY <1>1, <1>2, NegotiationInvariantHolds, PTL DEF Spec

(***************************************************************************)
(* The session that is the binding.                                        *)
(***************************************************************************)
SP == INSTANCE BindingSession_proofs
          WITH disposals <- session_disposals, disposal <- session_disposal

(***************************************************************************)
(* The composition: the inductive invariant.                               *)
(***************************************************************************)
SessionOwns == SP!TypeOK /\ SP!SessionInductive /\ SP!CompletedThePlan

\* While the mirror has not rejected a state the session is where the mirror is: a
\* state that was reported is the execution's, one interval for each step after the
\* first of its trace, and an execution for each trace.
Reported == at = "awaiting" /\ toMirror # <<>>

SessionKeepsPace ==
    loop # "over" /\ (at = "done" => trace > Len(traces)) =>
        IF Reported \/ step > 1
        THEN /\ initializations = trace
             /\ execution.next = (IF Reported THEN step ELSE step - 1) - 1
        ELSE /\ initializations = trace - 1
             /\ trace > 1 => execution.next = Len(traces[trace - 1]) - 1

\* Every trace but that of the current execution ran the whole plan.
EarlierTracesAreWhole ==
    \A t \in 1..(initializations - 1) : t <= Len(traces) /\ Len(traces[t]) = PlanLength + 1

\* A replay that the mirror agreed with has run every trace to its end.
Agreed == outcome.kind \in {"ok", "adapter_dispose_failed"}

AgreedIsRun ==
    Agreed =>
        /\ terminal = "all_steps_done"
        /\ initializations = Len(traces)
        /\ Len(traces) > 0 => execution.next = Len(traces[Len(traces)]) - 1

\* What was returned was so, and still is.
ReturnedIsSo ==
    replay.returned =>
        /\ link = "closed" /\ loop = "over"
        /\ replay.comparison = Comparison
        /\ replay.passed => outcome.kind = "ok" /\ SP!AllPassed

ReplayInductive ==
    /\ NegotiationInductive
    /\ VerdictInductive
    /\ SessionOwns
    /\ SessionKeepsPace
    /\ EarlierTracesAreWhole
    /\ AgreedIsRun
    /\ ReturnedIsSo

(***************************************************************************)
(* The session's calls are those its invariant was proved of.              *)
(***************************************************************************)
LEMMA Assumptions == SP!BoundsAssumption /\ SP!NoExecutionAssumption
BY SessionAssumption
   DEF Session!Execution!Executions, SP!Execution!Executions, Session!Execution!Cleanups,
       SP!Execution!Cleanups, SP!BoundsAssumption, SP!NoExecutionAssumption

LEMMA SameResults ==
    /\ Session!Execution!StartResults = SP!Execution!StartResults
    /\ \A e : Session!Execution!FinishResults(e) = SP!Execution!FinishResults(e)
    /\ \A e : Session!Execution!AdvanceResults(e) = SP!Execution!AdvanceResults(e)
    /\ \A e : Session!Execution!LateResults(e) = SP!Execution!LateResults(e)
BY DEF Session!Execution!StartResults, SP!Execution!StartResults,
       Session!Execution!FinishResults, SP!Execution!FinishResults,
       Session!Execution!AdvanceResults, SP!Execution!AdvanceResults,
       Session!Execution!LateResults, SP!Execution!LateResults,
       Session!Execution!CleanedUp, SP!Execution!CleanedUp,
       Session!Execution!Failed, SP!Execution!Failed,
       Session!Execution!Open, SP!Execution!Open

LEMMA SameSession ==
    /\ Session!InitializeFirst => SP!InitializeFirst
    /\ Session!InitializeAgain => SP!InitializeAgain
    /\ Session!Advance => SP!Advance
    /\ Session!DisposeNothing => SP!DisposeNothing
    /\ Session!Dispose(FALSE) => SP!Dispose(FALSE)
    /\ Session!RetryCleanup => SP!RetryCleanup
    /\ Session!LateArrival => SP!LateArrival
    /\ Session!FullyCompleted => SP!FullyCompleted
<1>. USE SameResults
     DEF Session!ReceiptLengths, SP!ReceiptLengths, Session!Becomes, SP!Becomes,
         Session!evidence, SP!evidence, Session!counts, SP!counts, Session!flags, SP!flags
<1>1. /\ Session!MayInitialize = SP!MayInitialize /\ Session!Acquire = SP!Acquire
      /\ \A e : Session!Passed(e) = SP!Passed(e)
      /\ \A e, n : Session!Retain(e, n) = SP!Retain(e, n)
  BY DEF Session!MayInitialize, SP!MayInitialize, Session!Acquire, SP!Acquire,
         Session!RetainedByAcquire, SP!RetainedByAcquire, Session!Passed, SP!Passed,
         Session!Retain, SP!Retain, Session!AlreadyRetained, SP!AlreadyRetained,
         Session!Fits, SP!Fits, Session!Row, SP!Row, Session!ErrorRow, SP!ErrorRow
<1>2. Session!InitializeFirst => SP!InitializeFirst
  BY <1>1 DEF Session!InitializeFirst, SP!InitializeFirst
<1>3. Session!InitializeAgain => SP!InitializeAgain
  BY <1>1 DEF Session!InitializeAgain, SP!InitializeAgain, Session!MayReplace, SP!MayReplace
<1>4. Session!Advance => SP!Advance  BY DEF Session!Advance, SP!Advance
<1>5. Session!DisposeNothing => SP!DisposeNothing
  BY DEF Session!DisposeNothing, SP!DisposeNothing
<1>6. Session!Dispose(FALSE) => SP!Dispose(FALSE)
  BY <1>1 DEF Session!Dispose, SP!Dispose, Session!Released, SP!Released
<1>7. Session!RetryCleanup => SP!RetryCleanup
  BY DEF Session!RetryCleanup, SP!RetryCleanup, Session!Uncharged, SP!Uncharged,
         Session!Fits, SP!Fits, Session!RefreshedRow, SP!RefreshedRow, Session!Row, SP!Row,
         Session!DisposalAfterRetry, SP!DisposalAfterRetry, Session!Last, SP!Last,
         Session!ReplaceAt, SP!ReplaceAt
<1>8. Session!LateArrival => SP!LateArrival  BY DEF Session!LateArrival, SP!LateArrival
<1>9. Session!FullyCompleted => SP!FullyCompleted
  BY <1>1 DEF Session!FullyCompleted, SP!FullyCompleted, Session!Omitted, SP!Omitted
<1>. QED  BY <1>2, <1>3, <1>4, <1>5, <1>6, <1>7, <1>8, <1>9


\* So they keep it, and move its executions as the traces are.
LEMMA SessionInitializes ==
    ASSUME SessionOwns, Session!InitializeFirst \/ Session!InitializeAgain
    PROVE  SessionOwns' /\ (SP!Renews \/ SP!Stands)
<1>1. SP!InitializeFirst \/ SP!InitializeAgain  BY SameSession
<1>2. SP!TypeOK' /\ SP!SessionInductive'
  BY <1>1, Assumptions, SP!InitializeFirstKeeps, SP!InitializeAgainKeeps DEF SessionOwns
<1>3. SP!CompletedThePlan' /\ (SP!Renews \/ SP!Stands)
  BY <1>1, Assumptions, SP!InitializationProgress DEF SessionOwns
<1>. QED  BY <1>2, <1>3 DEF SessionOwns

LEMMA SessionAdvances ==
    ASSUME SessionOwns, Session!Advance
    PROVE  SessionOwns' /\ SP!Advances
<1>1. SP!Advance  BY SameSession
<1>2. SP!TypeOK' /\ SP!SessionInductive'  BY <1>1, Assumptions, SP!AdvanceKeeps DEF SessionOwns
<1>3. SP!CompletedThePlan' /\ SP!Advances
  BY <1>1, Assumptions, SP!AdvanceProgress DEF SessionOwns
<1>. QED  BY <1>2, <1>3 DEF SessionOwns

SessionEnds == \/ Session!DisposeNothing \/ Session!Dispose(FALSE)
               \/ Session!RetryCleanup \/ Session!LateArrival

LEMMA SessionEnding ==
    ASSUME SessionOwns, SessionEnds
    PROVE  SessionOwns' /\ SP!Stands
<1>1. SP!DisposeNothing \/ SP!Dispose(FALSE) \/ SP!RetryCleanup \/ SP!LateArrival
  BY SameSession DEF SessionEnds
<1>2. SP!TypeOK' /\ SP!SessionInductive'  BY <1>1, Assumptions, SP!EndingKeeps DEF SessionOwns
<1>3. SP!CompletedThePlan' /\ SP!Stands
  BY <1>1, Assumptions, SP!EndingProgress DEF SessionOwns
<1>. QED  BY <1>2, <1>3 DEF SessionOwns

LEMMA SessionIdles ==
    ASSUME SessionOwns, UNCHANGED session
    PROVE  SessionOwns' /\ SP!Stands
<1>1. SP!TypeOK' /\ SP!SessionInductive'
  <2>1. UNCHANGED SP!vars
    BY DEF session, SP!vars, SP!evidence, SP!counts, SP!flags
  <2>. QED  BY <2>1, Assumptions, SP!StutteringSession DEF SessionOwns
<1>2. SP!CompletedThePlan' /\ SP!Stands
  BY DEF session, SP!CompletedThePlan, SP!Stands, SessionOwns
<1>. QED  BY <1>1, <1>2 DEF SessionOwns

(***************************************************************************)
(* The client's part of a step is a step of the client.                    *)
(***************************************************************************)
LEMMA ComputingIsTheClients ==
    ASSUME ComputeInitial \/ ComputeNext \/ Panics
    PROVE  CallComputer
<1>1. \A succeeded : ReportOr(succeeded) =>
         \/ \E value \in Values : ReportState(value) \/ ReportFails(value)
         \/ \E kind \in {"adapter_error", "adapter_failure"} : CallbackFails(kind)
  BY DEF ReportOr
<1>2. ComputeInitial => ReportOr(Started)  BY DEF ComputeInitial
<1>3. ComputeNext => ReportOr(~execution.closed /\ ~execution'.failed)  BY DEF ComputeNext
<1>. QED  BY <1>1, <1>2, <1>3 DEF ComputeInitial, ComputeNext, Panics, CallComputer

LEMMA ClientMoves ==
    ASSUME [ReplayNext]_replayVars
    PROVE  [Next]_vars \/ RefuseReused
<1>1. Begin \/ Negotiate \/ Quietly(Close) => ClientStep
  BY DEF Begin, Negotiate, Quietly, ClientStep
<1>2. ListenOnce \/ Listen => ClientStep
  BY DEF ListenOnce, Listen, ClientStep
<1>3. ComputeInitial \/ ComputeNext \/ Panics \/ DisposeBinding => ClientStep
  BY ComputingIsTheClients DEF DisposeBinding, ClientStep
<1>4. Return \/ LateThread \/ Retry => UNCHANGED vars
  BY DEF Return, LateThread, Retry
<1>5. UNCHANGED replayVars => UNCHANGED vars  BY DEF replayVars
<1>6. MirrorStep /\ ReplayIdle => MirrorStep /\ Idle  BY DEF ReplayIdle
<1>. QED  BY <1>1, <1>2, <1>3, <1>4, <1>5, <1>6 DEF ReplayNext, ReplayStep, Next

\* A session that was used before is refused before anything is sent.
LEMMA RefuseReusedKeeps ==
    ASSUME NegotiationInductive, VerdictInductive, RefuseReused
    PROVE  NegotiationInductive' /\ VerdictInductive'
<1>1. NegotiationInductive'
  BY DEF RefuseReused, End, connection, mirror, negotiation, NegotiationInductive,
         SelectedFirst, StagesInOrder, Preparing, GrantedByReply, ChecksFirst, DisposedFirst,
         Undisposed, key, Decision, Factory, DigestFits
<1>2. /\ End(Result("schedule_session_reused")) /\ mirror' = mirror
      /\ toMirror' = toMirror /\ toClient' = toClient /\ key' = key
  BY DEF RefuseReused, connection, negotiation, key
<1>3. LinesKept /\ SelectedFirst
  BY <1>2, NothingConsumed DEF VerdictInductive, MirrorTypes, NegotiationInductive
<1>4. "schedule_session_reused" \notin OwnResults  BY DEF OwnResults
<1>5. VerdictInductive'  BY <1>2, <1>3, <1>4, GivingUpKeeps
<1>. QED  BY <1>1, <1>5

LEMMA ClientKeeps ==
    ASSUME NegotiationInductive, VerdictInductive, [ReplayNext]_replayVars
    PROVE  NegotiationInductive' /\ VerdictInductive'
<1>1. CASE [Next]_vars
  <2>1. VerdictInductive'  BY <1>1, StepKeepsVerdicts
  <2>2. NegotiationInductive'  BY <1>1, StepKeepsNegotiation
  <2>. QED  BY <2>1, <2>2
<1>. QED  BY <1>1, ClientMoves, RefuseReusedKeeps

(***************************************************************************)
(* The steps of the replay.                                                *)
(***************************************************************************)
InStep == SessionKeepsPace /\ EarlierTracesAreWhole /\ AgreedIsRun

\* A step that neither reports nor compares, of a client that does not begin again.
LEMMA QuietStaysInStep ==
    ASSUME ReplayInductive, mirror' = mirror, Reported' = Reported, SP!Stands,
           loop = "over" => loop' = "over",
           Agreed' => Agreed /\ terminal' = terminal
    PROVE  InStep'
<1>. USE DEF ReplayInductive
<1>1. /\ traces' = traces /\ at' = at /\ trace' = trace /\ step' = step
      /\ initializations' = initializations /\ execution'.next = execution.next
  BY DEF mirror, SP!Stands
<1>2. SessionKeepsPace'  BY <1>1 DEF SessionKeepsPace
<1>3. EarlierTracesAreWhole'  BY <1>1 DEF EarlierTracesAreWhole
<1>4. AgreedIsRun'  BY <1>1 DEF AgreedIsRun
<1>. QED  BY <1>2, <1>3, <1>4 DEF InStep

\* The client has not agreed to anything while it runs.
LEMMA RunningHasNotAgreed ==
    ASSUME NegotiationInductive, loop # "over"
    PROVE  ~Agreed /\ Running /\ link = "open"
BY DEF NegotiationInductive, StagesInOrder, Running, Agreed

LEMMA GivenUpHasNotAgreed ==
    ASSUME NEW kind, kind \notin OwnResults, End(Result(kind))
    PROVE  loop' = "over" /\ ~Agreed'
BY GivenUp DEF OwnResults, Agreed

\* Before the registration and until the first line of the replay.
LEMMA PreparationStaysInStep ==
    ASSUME ReplayInductive, RefuseReused \/ Begin \/ Negotiate
    PROVE  SessionOwns' /\ InStep'
<1>. USE DEF ReplayInductive
<1>1. /\ mirror' = mirror /\ terminal' = terminal /\ UNCHANGED session
      /\ loop \in {"unregistered", "creating", "checking"}
  BY DEF RefuseReused, Begin, Negotiate, Quietly, Refuse, Register, Create, CheckBinding
<1>2. SessionOwns' /\ SP!Stands  BY <1>1, SessionIdles
<1>3. ~Agreed /\ Running  BY <1>1, RunningHasNotAgreed
<1>4. Reported' = Reported
  <2>1. CASE Register
    <3>1. at = "listening"
      BY <2>1 DEF Register, VerdictInductive, MirrorTurns
    <3>. QED  BY <1>1, <3>1 DEF Reported, mirror
  <2>2. CASE ~Register
    <3>1. toMirror' = toMirror
      BY <2>2 DEF RefuseReused, Begin, Negotiate, Quietly, Refuse, Create, CheckBinding,
                  connection
    <3>. QED  BY <1>1, <3>1 DEF Reported, mirror
  <2>. QED  BY <2>1, <2>2
<1>5. ~Agreed'
  <2>1. ASSUME NEW kind, kind \notin OwnResults, End(Result(kind))  PROVE ~Agreed'
    BY <2>1, GivenUpHasNotAgreed
  <2>2. CASE RefuseReused
    BY <2>1, <2>2 DEF RefuseReused, OwnResults
  <2>3. CASE Refuse
    <3>1. SelectionError \notin OwnResults
      BY DEF SelectionError, ResolveError, OwnResults
    <3>. QED  BY <2>1, <2>3, <3>1 DEF Refuse
  <2>4. \A next : Stay(next) => ~Agreed'  BY <1>3 DEF Stay, Agreed
  <2>5. CASE Register \/ Create \/ CheckBinding
    <3>1. /\ "io" \notin OwnResults /\ "adapter_factory_failed" \notin OwnResults
          /\ "binding_digest_mismatch" \notin OwnResults
          /\ "binding_config_mismatch" \notin OwnResults /\ "adapter_failure" \notin OwnResults
      BY DEF OwnResults
    <3>. QED  BY <2>1, <2>4, <2>5, <3>1 DEF Register, Create, CheckBinding
  <2>. QED  BY <2>2, <2>3, <2>5 DEF Begin, Negotiate, Quietly
<1>6. loop = "over" => loop' = "over"  BY <1>1
<1>. QED  BY <1>1, <1>2, <1>3, <1>4, <1>5, <1>6, QuietStaysInStep

\* The reply may refuse, and never agrees.
LEMMA ReplyStaysInStep ==
    ASSUME ReplayInductive, ListenOnce
    PROVE  SessionOwns' /\ InStep'
<1>. USE DEF ReplayInductive
<1>1. /\ mirror' = mirror /\ UNCHANGED session /\ loop = "registered" /\ toMirror' = toMirror
  BY ConnectionStaysOpen DEF ListenOnce, ReceiveReply
<1>2. SessionOwns' /\ SP!Stands  BY <1>1, SessionIdles
<1>3. Reported' = Reported  BY <1>1 DEF Reported, mirror
<1>4. ~Agreed'
  <2>1. ~Agreed  BY <1>1, RunningHasNotAgreed
  <2>2. CASE Decision(Received).verdict = "error"
    BY <2>2, RefusedReply, GivenUpHasNotAgreed DEF ListenOnce
  <2>3. CASE Decision(Received).verdict # "error"
    BY <2>1, <2>3 DEF ListenOnce, ReceiveReply, Stay, Agreed
  <2>. QED  BY <2>2, <2>3
<1>. QED  BY <1>1, <1>2, <1>3, <1>4, QuietStaysInStep

\* It agrees when the mirror has finished, which is where the session then is.
LEMMA ListeningStaysInStep ==
    ASSUME ReplayInductive, Listen, OutcomeIsTheVerdict'
    PROVE  SessionOwns' /\ InStep'
<1>. USE DEF ReplayInductive
<1>1. /\ mirror' = mirror /\ UNCHANGED session /\ loop = "receiving" /\ toMirror' = toMirror
      /\ terminal' = Observed
  BY LoopConsumes DEF Listen
<1>2. SessionOwns' /\ SP!Stands  BY <1>1, SessionIdles
<1>3. Reported' = Reported  BY <1>1 DEF Reported, mirror
<1>4. ~Agreed  BY <1>1, RunningHasNotAgreed
<1>5. CASE ~Agreed'  BY <1>1, <1>2, <1>3, <1>5, QuietStaysInStep
<1>6. CASE Agreed'
  <2>1. TakeEnd(Received) /\ Received.kind = "all_steps_done"
    <3>1. ~TakeRequest(Received) /\ ~TakeStepOk(Received)
      BY <1>4, <1>6 DEF TakeRequest, TakeStepOk, Agreed
    <3>2. ~TakeMismatch(Received)  BY <1>6 DEF TakeMismatch, End, Agreed
    <3>3. TakeEnd(Received)  BY <3>1, <3>2 DEF Listen, Loop, Receive
    <3>. QED  BY <1>6, <3>3, OtherEnds, GivenUpHasNotAgreed
  <2>2. terminal' = "all_steps_done" /\ loop' = "over"
    BY <1>1, <2>1 DEF Observed, Terminals, TakeEnd, End
  <2>3. /\ traces' = traces /\ at' = at /\ trace' = trace /\ step' = step
        /\ initializations' = initializations /\ execution'.next = execution.next
    BY <1>1, <1>2 DEF mirror, SP!Stands
  <2>4. at = "done" /\ trace > Len(traces)
    BY <1>6, <2>3 DEF OutcomeIsTheVerdict, Agreed
  <2>5. trace = Len(traces) + 1 /\ step = 1 /\ Len(traces) \in Nat
    BY <2>4, TracesAssumption DEF VerdictInductive, MirrorTypes
  <2>6. /\ initializations = trace - 1
        /\ trace > 1 => execution.next = Len(traces[trace - 1]) - 1
    BY <1>1, <2>4, <2>5 DEF SessionKeepsPace, Reported
  <2>7. /\ initializations = Len(traces)
        /\ Len(traces) > 0 => execution.next = Len(traces[Len(traces)]) - 1
    <3>1. trace - 1 = Len(traces)  BY <2>5
    <3>. QED  BY <2>5, <2>6, <3>1
  <2>8. AgreedIsRun'  BY <2>2, <2>3, <2>7 DEF AgreedIsRun
  <2>9. SessionKeepsPace'  BY <2>2 DEF SessionKeepsPace
  <2>10. EarlierTracesAreWhole'  BY <2>3 DEF EarlierTracesAreWhole
  <2>. QED  BY <1>2, <2>8, <2>9, <2>10 DEF InStep
<1>. QED  BY <1>5, <1>6

\* What the callbacks find: the mirror waits for the state it asked for.
LEMMA MirrorWaits ==
    ASSUME ReplayInductive, loop = "computing"
    PROVE  /\ at = "awaiting" /\ toMirror = <<>> /\ ~Reported /\ ~Agreed
           /\ asked.kind = (IF step = 1 THEN "initial_state" ELSE "next_step")
           /\ trace \in 1..Len(traces) /\ Len(traces) \in Nat /\ step \in Nat \ {0}
           /\ IF step > 1
              THEN initializations = trace /\ execution.next = step - 2
              ELSE /\ initializations = trace - 1
                   /\ trace > 1 => execution.next = Len(traces[trace - 1]) - 1
<1>. USE DEF ReplayInductive
<1>1. /\ at = "awaiting" /\ toMirror = <<>>
      /\ asked.kind = (IF step = 1 THEN "initial_state" ELSE "next_step")
  BY DEF VerdictInductive, RequestsAreDue
<1>2. trace \in 1..Len(traces) /\ Len(traces) \in Nat /\ step \in Nat \ {0}
  BY <1>1, TracesAssumption DEF VerdictInductive, MirrorTurns, MirrorTypes
<1>3. ~Reported /\ ~Agreed  BY <1>1, RunningHasNotAgreed DEF Reported
<1>. QED  BY <1>1, <1>2, <1>3 DEF SessionKeepsPace

\* A callback ends the client, or reports if it succeeded.
LEMMA ReportsOrEnds ==
    ASSUME NEW succeeded \in BOOLEAN, ReportOr(succeeded), ~Agreed, toMirror = <<>>
    PROVE  /\ ~Agreed'
           /\ \/ loop' = "over" /\ toMirror' = toMirror
              \/ succeeded /\ loop' = "receiving" /\ toMirror' # <<>>
<1>1. /\ "io" \notin OwnResults /\ "adapter_error" \notin OwnResults
      /\ "adapter_failure" \notin OwnResults
  BY DEF OwnResults
<1>2. ASSUME NEW kind, kind \notin OwnResults, End(Result(kind))
      PROVE  loop' = "over" /\ ~Agreed'
  BY <1>2, GivenUpHasNotAgreed
<1>3. ASSUME NEW value \in Values, succeeded, ReportState(value)
      PROVE  ~Agreed' /\ loop' = "receiving" /\ toMirror' # <<>>
  <2>1. toMirror' = toMirror \o <<Report(value)>> /\ outcome' = outcome /\ loop' = "receiving"
    BY <1>3 DEF ReportState, Send, Delivered
  <2>2. <<>> \o <<Report(value)>> # <<>>  OBVIOUS
  <2>3. toMirror' # <<>>  BY <2>1, <2>2
  <2>. QED  BY <2>1, <2>3 DEF Agreed
<1>4. ASSUME NEW value \in Values, ReportFails(value)
      PROVE  ~Agreed' /\ loop' = "over" /\ toMirror' = toMirror
  BY <1>1, <1>2, <1>4, ConnectionStaysOpen DEF ReportFails
<1>5. ASSUME NEW kind \in {"adapter_error", "adapter_failure"}, CallbackFails(kind)
      PROVE  ~Agreed' /\ loop' = "over" /\ toMirror' = toMirror
  BY <1>1, <1>2, <1>5 DEF CallbackFails, connection
<1>. QED  BY <1>3, <1>4, <1>5 DEF ReportOr

\* initial_state: an execution for the trace, in place of one that ran the last.
LEMMA ComputeInitialStaysInStep ==
    ASSUME ReplayInductive, ComputeInitial
    PROVE  SessionOwns' /\ InStep'
<1>. USE DEF ReplayInductive
<1>1. /\ loop = "computing" /\ asked.kind = "initial_state" /\ mirror' = mirror
      /\ ReportOr(Started)
  BY DEF ComputeInitial
<1>2. /\ at = "awaiting" /\ toMirror = <<>> /\ ~Reported /\ ~Agreed /\ step = 1
      /\ trace \in 1..Len(traces) /\ Len(traces) \in Nat
      /\ initializations = trace - 1
      /\ trace > 1 => execution.next = Len(traces[trace - 1]) - 1
  <2>1. asked.kind = (IF step = 1 THEN "initial_state" ELSE "next_step")
    BY <1>1, MirrorWaits
  <2>2. step = 1  BY <1>1, <2>1
  <2>. QED  BY <1>1, <2>2, MirrorWaits
<1>3. SessionOwns' /\ (SP!Renews \/ SP!Stands)
  BY SessionInitializes, SessionIdles DEF ComputeInitial
<1>4. /\ ~Agreed'
      /\ \/ loop' = "over" /\ toMirror' = toMirror
         \/ Started /\ loop' = "receiving" /\ toMirror' # <<>>
  <2>1. Started \in BOOLEAN  BY DEF Started
  <2>. QED  BY <1>1, <1>2, <2>1, ReportsOrEnds
<1>5. AgreedIsRun'  BY <1>4 DEF AgreedIsRun
<1>6. traces' = traces /\ at' = at /\ trace' = trace /\ step' = step  BY <1>1 DEF mirror
<1>7. SessionKeepsPace'
  <2>1. CASE loop' = "over"  BY <2>1 DEF SessionKeepsPace
  <2>2. CASE Started /\ loop' = "receiving" /\ toMirror' # <<>>
    <3>1. SP!Renews /\ ~execution'.failed  BY <1>3, <2>2 DEF Started, SP!Stands
    <3>2. initializations' = trace /\ execution'.next = 0
      BY <1>2, <3>1 DEF SP!Renews
    <3>3. Reported'  BY <1>2, <1>6, <2>2 DEF Reported
    <3>. QED  BY <1>2, <1>6, <3>2, <3>3 DEF SessionKeepsPace
  <2>. QED  BY <1>4, <2>1, <2>2
<1>8. EarlierTracesAreWhole'
  <2>1. CASE SP!Stands  BY <1>6, <2>1 DEF EarlierTracesAreWhole, SP!Stands
  <2>2. CASE SP!Renews
    <3>1. ASSUME NEW t \in 1..(trace - 1)
          PROVE  t <= Len(traces) /\ Len(traces[t]) = PlanLength + 1
      <4>1. CASE t < trace - 1
        <5>1. t \in 1..(initializations - 1)  BY <1>2, <4>1
        <5>. QED  BY <5>1 DEF EarlierTracesAreWhole
      <4>2. CASE t = trace - 1
        <5>1. trace > 1 /\ initializations # 0  BY <1>2, <4>2
        <5>2. execution # NoExecution
          BY <5>1 DEF SessionOwns, SP!SessionInductive, SP!OwnsWhatItStarted
        <5>3. Len(traces[t]) - 1 = PlanLength  BY <1>2, <2>2, <4>2, <5>1, <5>2 DEF SP!Renews
        <5>4. Len(traces[t]) \in Nat  BY <1>2, TracesAssumption DEF VerdictInductive, MirrorTypes
        <5>. QED  BY <1>2, <4>2, <5>3, <5>4
      <4>. QED  BY <1>2, <4>1, <4>2
    <3>2. initializations' - 1 = trace - 1  BY <1>2, <2>2 DEF SP!Renews
    <3>. QED  BY <1>6, <3>1, <3>2 DEF EarlierTracesAreWhole
  <2>. QED  BY <1>3, <2>1, <2>2
<1>. QED  BY <1>3, <1>5, <1>7, <1>8 DEF InStep

\* next_step: the next interval.
LEMMA ComputeNextStaysInStep ==
    ASSUME ReplayInductive, ComputeNext
    PROVE  SessionOwns' /\ InStep'
<1>. USE DEF ReplayInductive
<1>1. /\ loop = "computing" /\ asked.kind = "next_step" /\ mirror' = mirror
      /\ ReportOr(~execution.closed /\ ~execution'.failed)
  BY DEF ComputeNext
<1>2. /\ at = "awaiting" /\ toMirror = <<>> /\ ~Reported /\ ~Agreed
      /\ step \in Nat /\ step > 1
      /\ initializations = trace /\ execution.next = step - 2
  <2>1. asked.kind = (IF step = 1 THEN "initial_state" ELSE "next_step")
    BY <1>1, MirrorWaits
  <2>2. step # 1  BY <1>1, <2>1
  <2>3. step \in Nat \ {0}  BY <1>1, MirrorWaits
  <2>4. step > 1  BY <2>2, <2>3
  <2>. QED  BY <1>1, <2>3, <2>4, MirrorWaits
<1>3. SessionOwns' /\ SP!Advances  BY SessionAdvances DEF ComputeNext
<1>4. /\ ~Agreed'
      /\ \/ loop' = "over" /\ toMirror' = toMirror
         \/ ~execution.closed /\ ~execution'.failed /\ loop' = "receiving" /\ toMirror' # <<>>
  <2>1. (~execution.closed /\ ~execution'.failed) \in BOOLEAN  OBVIOUS
  <2>. QED  BY <1>1, <1>2, <2>1, ReportsOrEnds
<1>5. AgreedIsRun'  BY <1>4 DEF AgreedIsRun
<1>6. traces' = traces /\ at' = at /\ trace' = trace /\ step' = step  BY <1>1 DEF mirror
<1>7. SessionKeepsPace'
  <2>1. CASE loop' = "over"  BY <2>1 DEF SessionKeepsPace
  <2>2. CASE ~execution.closed /\ ~execution'.failed /\ loop' = "receiving" /\ toMirror' # <<>>
    <3>1. initializations' = trace /\ execution'.next = step - 1
      BY <1>2, <1>3, <2>2 DEF SP!Advances
    <3>2. Reported'  BY <1>2, <1>6, <2>2 DEF Reported
    <3>. QED  BY <1>6, <3>1, <3>2 DEF SessionKeepsPace
  <2>. QED  BY <1>4, <2>1, <2>2
<1>8. EarlierTracesAreWhole'
  <2>1. initializations' = initializations  BY <1>3 DEF SP!Advances
  <2>. QED  BY <1>6, <2>1 DEF EarlierTracesAreWhole
<1>. QED  BY <1>3, <1>5, <1>7, <1>8 DEF InStep

\* A panic, the disposal and the close: the client gives up, or has ended.
LEMMA EndingStaysInStep ==
    ASSUME ReplayInductive, Panics \/ DisposeBinding \/ Quietly(Close)
    PROVE  SessionOwns' /\ InStep'
<1>. USE DEF ReplayInductive
<1>1. mirror' = mirror /\ terminal' = terminal /\ toMirror' = toMirror
  BY DEF Panics, DisposeBinding, Quietly, Dispose, Close, BeginClose, EndClose,
         CallbackFails, connection
<1>2. SessionOwns' /\ SP!Stands
  BY SessionIdles, SessionEnding DEF Panics, DisposeBinding, Quietly, SessionEnds
<1>3. Reported' = Reported  BY <1>1 DEF Reported, mirror
<1>4. (loop = "over" => loop' = "over") /\ (Agreed' => Agreed)
  <2>1. CASE Panics
    <3>1. "adapter_failure" \notin OwnResults  BY DEF OwnResults
    <3>. QED  BY <2>1, <3>1, GivenUpHasNotAgreed DEF Panics, CallbackFails
  <2>2. CASE Dispose \/ Close
    <3>1. outcome' = outcome \/ outcome.kind = "ok"
      BY <2>2 DEF Dispose, Close, FirstError, Result
    <3>2. loop' = loop  BY <2>2 DEF Dispose, Close, stepping
    <3>. QED  BY <3>1, <3>2 DEF Agreed
  <2>. QED  BY <2>1, <2>2 DEF DisposeBinding, Quietly
<1>. QED  BY <1>1, <1>2, <1>3, <1>4, QuietStaysInStep

\* The mirror takes the report and goes on to the next state, or to the next trace.
LEMMA MirrorStaysInStep ==
    ASSUME ReplayInductive, MirrorStep, ReplayIdle
    PROVE  SessionOwns' /\ InStep'
<1>. USE DEF ReplayInductive
<1>1. /\ UNCHANGED session /\ terminal' = terminal /\ loop' = loop /\ Agreed' = Agreed
  BY DEF ReplayIdle, Idle, stepping, Agreed
<1>2. SessionOwns' /\ SP!Stands  BY <1>1, SessionIdles
<1>3. initializations' = initializations /\ execution'.next = execution.next
  BY <1>2 DEF SP!Stands
<1>4. traces' = traces
  BY DEF MirrorStep, MirrorAnswers, MirrorRegisters, MirrorAsks, MirrorAgrees,
         MirrorDisagrees, MirrorFinishes, MirrorExits, MirrorIntrudes, MirrorDies, mirror
<1>5. EarlierTracesAreWhole' /\ AgreedIsRun'
  BY <1>1, <1>3, <1>4 DEF EarlierTracesAreWhole, AgreedIsRun
<1>6. SessionKeepsPace'
  <2>1. CASE MirrorRegisters
    <3>1. at = "listening" /\ at' # "awaiting" /\ trace' = trace /\ step' = step
      BY <2>1 DEF MirrorRegisters
    <3>. QED  BY <1>1, <1>3, <1>4, <3>1 DEF SessionKeepsPace, Reported
  <2>2. CASE MirrorAsks
    <3>1. at = "asking" /\ toMirror' = toMirror /\ trace' = trace /\ step' = step
      BY <2>2 DEF MirrorAsks
    <3>2. toMirror = <<>>  BY <3>1 DEF VerdictInductive, MirrorTurns
    <3>. QED  BY <1>1, <1>3, <1>4, <3>1, <3>2 DEF SessionKeepsPace, Reported
  <2>3. CASE MirrorAgrees
    <3>1. Reported /\ at = "awaiting" /\ at' = "asking"
      BY <2>3 DEF MirrorAgrees, Reported
    <3>2. /\ trace \in 1..Len(traces) /\ Len(traces) \in Nat
          /\ step \in Nat \ {0} /\ step <= Len(traces[trace]) /\ Len(traces[trace]) \in Nat
      <4>1. trace <= Len(traces) /\ Len(traces) \in Nat /\ trace \in 1..(Len(traces) + 1)
        BY <3>1, TracesAssumption DEF VerdictInductive, MirrorTurns, MirrorTypes
      <4>2. Len(traces[trace]) \in Nat
        BY <4>1, TracesAssumption DEF VerdictInductive, MirrorTypes
      <4>. QED  BY <4>1, <4>2 DEF VerdictInductive, MirrorTypes
    <3>3. ~Reported'  BY <3>1 DEF Reported
    <3>4. CASE loop = "over"  BY <1>1, <3>4 DEF SessionKeepsPace
    <3>5. CASE loop # "over"
      <4>1. initializations = trace /\ execution.next = step - 1
        BY <3>1, <3>5 DEF SessionKeepsPace
      <4>2. CASE step < Len(traces[trace])
        <5>1. step' = step + 1 /\ trace' = trace  BY <2>3, <4>2 DEF MirrorAgrees
        <5>2. step' > 1 /\ step' - 1 = step  BY <3>2, <5>1
        <5>. QED  BY <1>3, <3>2, <3>3, <4>1, <5>1, <5>2 DEF SessionKeepsPace
      <4>3. CASE ~(step < Len(traces[trace]))
        <5>1. step' = 1 /\ trace' = trace + 1  BY <2>3, <4>3 DEF MirrorAgrees
        <5>2. step = Len(traces[trace]) /\ trace' - 1 = trace  BY <3>2, <4>3, <5>1
        <5>. QED  BY <1>3, <1>4, <3>3, <4>1, <5>1, <5>2 DEF SessionKeepsPace
      <4>. QED  BY <4>2, <4>3
    <3>. QED  BY <3>4, <3>5
  <2>4. CASE MirrorDisagrees
    <3>1. at = "awaiting" /\ at' = "done" /\ trace' = trace  BY <2>4 DEF MirrorDisagrees
    <3>2. ~(trace > Len(traces))
      BY <3>1, TracesAssumption DEF VerdictInductive, MirrorTurns, MirrorTypes
    <3>. QED  BY <1>4, <3>1, <3>2 DEF SessionKeepsPace
  <2>5. CASE MirrorFinishes
    <3>1. /\ at = "asking" /\ at' = "done" /\ trace > Len(traces)
          /\ trace' = trace /\ step' = step
      BY <2>5 DEF MirrorFinishes
    <3>. QED  BY <1>1, <1>3, <1>4, <3>1 DEF SessionKeepsPace, Reported
  <2>6. CASE MirrorIntrudes \/ MirrorExits \/ MirrorDies
    <3>1. toMirror' = toMirror /\ at' = at /\ trace' = trace /\ step' = step
      BY <2>6 DEF MirrorIntrudes, MirrorExits, MirrorDies, Says, mirror
    <3>. QED  BY <1>1, <1>3, <1>4, <3>1 DEF SessionKeepsPace, Reported
  <2>. QED  BY <2>1, <2>2, <2>3, <2>4, <2>5, <2>6 DEF MirrorStep, MirrorAnswers
<1>. QED  BY <1>2, <1>5, <1>6 DEF InStep

\* What returns, arrives late or is retried finds the replay where it was.
LEMMA OthersStayInStep ==
    ASSUME ReplayInductive, Return \/ LateThread \/ Retry \/ UNCHANGED replayVars
    PROVE  SessionOwns' /\ InStep'
<1>1. UNCHANGED vars /\ terminal' = terminal
  BY DEF Return, LateThread, Retry, replayVars
<1>2. SessionOwns' /\ SP!Stands
  BY SessionIdles, SessionEnding
     DEF Return, LateThread, Retry, replayVars, SessionEnds, ReplayInductive
<1>3. /\ mirror' = mirror /\ Reported' = Reported /\ loop' = loop /\ Agreed' = Agreed
  BY <1>1 DEF vars, connection, mirror, stepping, Reported, Agreed
<1>. QED  BY <1>1, <1>2, <1>3, QuietStaysInStep

(***************************************************************************)
(* What was returned.                                                      *)
(***************************************************************************)
\* Nothing is left to the client once the replay has returned.
LEMMA ReturnsLast ==
    ASSUME ReplayInductive, ReplayStep
    PROVE  ReplayRunning
<1>. SUFFICES ASSUME replay.returned PROVE FALSE  BY DEF ReplayRunning
<1>1. link = "closed" /\ loop = "over" /\ ~Undisposed
  BY DEF ReplayInductive, ReturnedIsSo, NegotiationInductive, DisposedFirst
<1>. QED
  BY <1>1 DEF ReplayStep, RefuseReused, Begin, Refuse, Register, Negotiate, Create,
     CheckBinding, Quietly, ListenOnce, ReceiveReply, Listen, Loop, Receive, ComputeInitial,
     ComputeNext, Panics, CallbackFails, DisposeBinding, Dispose, Close, BeginClose,
     EndClose, Return, ReplayRunning

LEMMA ReturnKeepsTrue ==
    ASSUME ReplayInductive, Return
    PROVE  ReturnedIsSo'
<1>. USE DEF ReplayInductive
<1>1. /\ link = "closed" /\ UNCHANGED vars /\ UNCHANGED session /\ terminal' = terminal
      /\ replay' = [returned |-> TRUE, passed |-> Passed, comparison |-> Comparison]
  BY DEF Return
<1>2. loop = "over"  BY <1>1, RunningHasNotAgreed
<1>3. link' = link /\ loop' = loop /\ outcome' = outcome /\ Comparison' = Comparison
  BY <1>1 DEF vars, connection, stepping, Comparison
<1>4. Passed => outcome.kind = "ok" /\ SP!AllPassed
  <2>1. SP!FullyCompleted => SP!AllPassed
    BY Assumptions, SP!CompletedPassed DEF SessionOwns
  <2>. QED  BY <2>1, SameSession DEF Passed
<1>5. SP!AllPassed' = SP!AllPassed
  BY <1>1 DEF session, SP!AllPassed
<1>6. replay'.comparison = Comparison /\ replay'.passed = Passed  BY <1>1
<1>. QED  BY <1>1, <1>2, <1>3, <1>4, <1>5, <1>6 DEF ReturnedIsSo

LEMMA ReturnedStays ==
    ASSUME ReplayInductive, [ReplayNext]_replayVars
    PROVE  ReturnedIsSo'
<1>. USE DEF ReplayInductive
<1>1. CASE Return  BY <1>1, ReturnKeepsTrue
<1>2. CASE ReplayStep /\ ~Return
  <2>1. ~replay.returned  BY <1>2, ReturnsLast DEF ReplayRunning
  <2>2. replay' = replay
    BY <1>2 DEF ReplayStep, RefuseReused, Begin, Negotiate, Quietly, ListenOnce, Listen,
       ComputeInitial, ComputeNext, Panics, DisposeBinding
  <2>. QED  BY <2>1, <2>2 DEF ReturnedIsSo
<1>3. CASE LateThread \/ Retry \/ (MirrorStep /\ ReplayIdle) \/ UNCHANGED replayVars
  <2>1. /\ replay' = replay /\ terminal' = terminal /\ loop' = loop /\ outcome' = outcome
        /\ link' = link
    BY <1>3, MirrorListensFirst
       DEF LateThread, Retry, ReplayIdle, Idle, replayVars, vars, stepping, connection
  <2>2. Comparison' = Comparison  BY <2>1 DEF Comparison
  <2>3. SP!AllPassed => SP!AllPassed'
    <3>1. CASE LateThread \/ Retry
      <4>1. SP!LateArrival \/ SP!RetryCleanup  BY <3>1, SameSession DEF LateThread, Retry
      <4>. QED  BY <4>1, Assumptions, SP!PassedStays DEF SessionOwns
    <3>2. CASE UNCHANGED session  BY <3>2 DEF session, SP!AllPassed
    <3>. QED  BY <1>3, <3>1, <3>2 DEF ReplayIdle, replayVars
  <2>. QED  BY <2>1, <2>2, <2>3 DEF ReturnedIsSo
<1>. QED  BY <1>1, <1>2, <1>3 DEF ReplayNext

(***************************************************************************)
(* Every state of a replay.                                                *)
(***************************************************************************)
LEMMA StepStaysInStep ==
    ASSUME ReplayInductive, [ReplayNext]_replayVars, OutcomeIsTheVerdict'
    PROVE  SessionOwns' /\ InStep'
BY PreparationStaysInStep, ReplyStaysInStep, ListeningStaysInStep, ComputeInitialStaysInStep,
   ComputeNextStaysInStep, EndingStaysInStep, MirrorStaysInStep, OthersStayInStep
   DEF ReplayNext, ReplayStep

LEMMA InitReplay ==
    ASSUME ReplayInit
    PROVE  ReplayInductive
<1>1. NegotiationInductive /\ VerdictInductive
  BY InitNegotiation, InitVerdicts DEF ReplayInit, Init
<1>2. SessionOwns /\ initializations = 0
  <2>1. /\ execution = NoExecution /\ receipt_length = 0 /\ executions = <<>>
        /\ receipt_bytes = 0 /\ receipt_complete = TRUE /\ initializations = 0
        /\ retained = FALSE /\ session_disposal = "ok"
        /\ disposed \in BOOLEAN /\ session_disposals \in {0, 1}
    <3>1. CASE Session!Init  BY <3>1 DEF Session!Init
    <3>2. CASE ~Session!Init  BY <3>2 DEF ReplayInit
    <3>. QED  BY <3>1, <3>2
  <2>2. session_disposals \in Nat  BY <2>1
  <2>3. SP!TypeOK /\ SP!SessionInductive  BY <2>1, <2>2, Assumptions, SP!FreshSession
  <2>. QED  BY <2>1, <2>3 DEF SessionOwns, SP!CompletedThePlan
<1>3. /\ loop = "unregistered" /\ at = "listening" /\ trace = 1 /\ step = 1
      /\ outcome.kind = "running" /\ ~replay.returned
  BY DEF ReplayInit, NegotiationInit, MirrorInit, LoopInit, Result
<1>4. SessionKeepsPace /\ EarlierTracesAreWhole
  BY <1>2, <1>3 DEF SessionKeepsPace, Reported, EarlierTracesAreWhole
<1>5. AgreedIsRun /\ ReturnedIsSo  BY <1>3 DEF AgreedIsRun, Agreed, ReturnedIsSo
<1>. QED  BY <1>1, <1>2, <1>4, <1>5 DEF ReplayInductive

\* The session keeps pace with the mirror: every state that the mirror is told is that
\* of the interval it asked for, in the execution of the trace it is comparing.
THEOREM ReplayInvariantHolds == ReplaySpec => []ReplayInductive
<1>1. ReplayInit => ReplayInductive  BY InitReplay
<1>2. ReplayInductive /\ [ReplayNext]_replayVars => ReplayInductive'
  <2>. SUFFICES ASSUME ReplayInductive, [ReplayNext]_replayVars PROVE ReplayInductive'
    OBVIOUS
  <2>1. NegotiationInductive' /\ VerdictInductive'  BY ClientKeeps DEF ReplayInductive
  <2>2. SessionOwns' /\ InStep'
    BY <2>1, StepStaysInStep DEF VerdictInductive
  <2>3. ReturnedIsSo'  BY ReturnedStays
  <2>. QED  BY <2>1, <2>2, <2>3 DEF ReplayInductive, InStep
<1>. QED  BY <1>1, <1>2, PTL DEF ReplaySpec

(***************************************************************************)
(* The properties of the replay.                                           *)
(***************************************************************************)
LEMMA Earned ==
    ASSUME ReplayInductive
    PROVE  PassedIsEarned
<1>. USE DEF ReplayInductive
<1>. SUFFICES ASSUME replay.returned, replay.passed
              PROVE  /\ trace > Len(traces)
                     /\ Len(executions) = Len(traces)
                     /\ \A t \in 1..Len(traces) :
                           /\ Len(traces[t]) = PlanLength + 1
                           /\ executions[t].receipt.completed
                           /\ executions[t].receipt.cleanup = "Confirmed"
  BY DEF PassedIsEarned, ReplayRunning
<1>1. outcome.kind = "ok" /\ SP!AllPassed  BY DEF ReturnedIsSo
<1>2. trace > Len(traces)
  BY <1>1 DEF VerdictInductive, OutcomeIsTheVerdict
<1>3. /\ initializations = Len(traces) /\ Len(executions) = Len(traces)
      /\ Len(traces) > 0 => execution.next = Len(traces[Len(traces)]) - 1
  BY <1>1 DEF AgreedIsRun, Agreed, SP!AllPassed
<1>4. Len(traces) \in Nat /\ \A t \in 1..Len(traces) : Len(traces[t]) \in Nat
  BY TracesAssumption DEF VerdictInductive, MirrorTypes
<1>5. DOMAIN executions = 1..Len(traces)  BY <1>3 DEF SessionOwns, SP!TypeOK
<1>6. execution.next = PlanLength
  BY <1>1 DEF SP!AllPassed, SP!Passed, SessionOwns, SP!CompletedThePlan
<1>7. ASSUME NEW t \in 1..Len(traces)
      PROVE  /\ Len(traces[t]) = PlanLength + 1
             /\ executions[t].receipt.completed
             /\ executions[t].receipt.cleanup = "Confirmed"
  <2>1. executions[t].receipt.completed /\ executions[t].receipt.cleanup = "Confirmed"
    BY <1>1, <1>5 DEF SP!AllPassed, SP!Passed
  <2>2. CASE t = Len(traces)
    <3>1. PlanLength = Len(traces[t]) - 1  BY <1>3, <1>4, <1>6, <2>2
    <3>2. Len(traces[t]) \in Nat  BY <1>4
    <3>3. Len(traces[t]) = PlanLength + 1  BY <3>1, <3>2
    <3>. QED  BY <2>1, <3>3
  <2>3. CASE t # Len(traces)
    <3>1. t \in 1..(initializations - 1)  BY <1>3, <1>4, <2>3
    <3>. QED  BY <2>1, <3>1 DEF EarlierTracesAreWhole
  <2>. QED  BY <2>2, <2>3
<1>. QED  BY <1>2, <1>3, <1>7

\* A replay that passed is earned: the mirror agreed with every state of every trace,
\* and each ran in an execution of its own, through the whole plan and cleaned up.
THEOREM PassingIsEarned == ReplaySpec => []PassedIsEarned
BY Earned, ReplayInvariantHolds, PTL

\* The comparison that is returned is what the mirror compared, whatever became of
\* the disposal and of the connection afterwards.
THEOREM ComparisonIsHonest == ReplaySpec => []ComparisonIsTheMirrors
<1>1. ReplayInductive => ComparisonIsTheMirrors
  <2>. SUFFICES ASSUME ReplayInductive, replay.returned
                PROVE  /\ Comparison = "matched" => trace > Len(traces)
                       /\ Comparison = "step_mismatch" => at = "done" /\ trace <= Len(traces)
                       /\ Comparison = "incomplete"
                             => outcome.kind # "adapter_dispose_failed"
    BY DEF ComparisonIsTheMirrors, ReplayRunning, ReplayInductive, ReturnedIsSo
  <2>1. OutcomeIsTheVerdict /\ AgreedIsRun  BY DEF ReplayInductive, VerdictInductive
  <2>2. Comparison = "matched" => Agreed  BY DEF Comparison, Agreed
  <2>3. Comparison = "step_mismatch" => outcome.kind = "mismatch"  BY DEF Comparison
  <2>4. outcome.kind = "adapter_dispose_failed" => Comparison = "matched"
    BY <2>1 DEF AgreedIsRun, Agreed, Comparison
  <2>. QED  BY <2>1, <2>2, <2>3, <2>4 DEF OutcomeIsTheVerdict, Agreed
<1>. QED  BY <1>1, ReplayInvariantHolds, PTL

\* Every trace before the one that the session runs has a row of its own, which says
\* that the whole trace was run, passed and was cleaned up.
LEMMA EarlierTracesPass ==
    ASSUME SessionOwns', EarlierTracesAreWhole', initializations' = trace'
    PROVE  EarlierTracesPassed(trace - 1)'
<1>1. /\ executions' \in Seq(SP!Rows) /\ initializations' \in Nat
      /\ Len(executions') = initializations'
                            - IF execution' = NoExecution \/ retained' THEN 0 ELSE 1
      /\ \A i \in 1..(initializations' - 1) :
            ~SP!Omitted(executions'[i]) /\ SP!Passed(executions'[i].receipt)
  BY DEF SessionOwns, SP!TypeOK, SP!SessionInductive, SP!OneRowPerExecution, SP!Omitted,
         SP!Passed
<1>2. DOMAIN executions' = 1..Len(executions') /\ Len(executions') >= initializations' - 1
  <2>1. DOMAIN executions' = 1..Len(executions')
    <3>1. \A S : \A rows \in Seq(S) : DOMAIN rows = 1..Len(rows)  OBVIOUS
    <3>. QED  BY <1>1, <3>1
  <2>2. PICK d \in {0, 1} : Len(executions') = initializations' - d  BY <1>1
  <2>3. initializations' \in Nat  BY <1>1
  <2>4. Len(executions') >= initializations' - 1
    <3>. DEFINE n == initializations'
                m == Len(executions')
    <3>1. n \in Nat /\ d \in {0, 1} /\ m = n - d  BY <2>2, <2>3
    <3>. HIDE DEF n, m
    <3>2. m >= n - 1  BY <3>1
    <3>. QED  BY <3>2 DEF n, m
  <2>. QED  BY <2>1, <2>4
<1>3. ASSUME NEW t \in 1..(trace' - 1)
      PROVE  /\ t \in DOMAIN executions' /\ ~SP!Omitted(executions'[t])
             /\ SP!Passed(executions'[t].receipt)
             /\ Len(traces'[t]) = PlanLength + 1
  <2>1. t \in 1..(initializations' - 1)  OBVIOUS
  <2>2. t \in DOMAIN executions'
    <3>. DEFINE n == initializations'
                m == Len(executions')
    <3>1. n \in Nat /\ m \in Nat
      <4>1. \A S : \A rows \in Seq(S) : Len(rows) \in Nat  OBVIOUS
      <4>. QED  BY <1>1, <4>1
    <3>2. m >= n - 1 /\ t \in 1..(n - 1)  BY <1>2, <2>1
    <3>. HIDE DEF n, m
    <3>3. t \in 1..m  BY <3>1, <3>2
    <3>. QED  BY <1>2, <3>3 DEF m
  <2>. QED  BY <1>1, <2>1, <2>2 DEF EarlierTracesAreWhole
<1>. QED
  BY <1>3 DEF EarlierTracesPassed, Session!Omitted, SP!Omitted, Session!Passed, SP!Passed

\* A callback that reports leaves the session where the mirror is.
LEMMA ReportsLeaveInStep ==
    ASSUME ReplayInductive, ComputeInitial \/ ComputeNext, toMirror' # toMirror
    PROVE  /\ execution' # NoExecution /\ ~execution'.failed
           /\ initializations' = trace /\ execution'.next = step - 1
           /\ SessionOwns' /\ EarlierTracesAreWhole' /\ trace' = trace
<1>1. loop = "computing" /\ mirror' = mirror  BY DEF ComputeInitial, ComputeNext
<1>2. toMirror = <<>> /\ ~Agreed /\ at = "awaiting" /\ step \in Nat \ {0} /\ trace \in Nat \ {0}
  BY <1>1, MirrorWaits
<1>3. trace' = trace /\ step' = step /\ at' = at  BY <1>1 DEF mirror
<1>4. SessionOwns' /\ InStep'  BY ComputeInitialStaysInStep, ComputeNextStaysInStep
<1>5. loop' = "receiving" /\ ~execution'.failed
  <2>1. CASE ComputeInitial
    <3>1. Started \in BOOLEAN /\ ReportOr(Started)  BY <2>1 DEF ComputeInitial, Started
    <3>. QED  BY <1>2, <3>1, ReportsOrEnds DEF Started
  <2>2. CASE ComputeNext
    <3>1. /\ (~execution.closed /\ ~execution'.failed) \in BOOLEAN
          /\ ReportOr(~execution.closed /\ ~execution'.failed)
      BY <2>2 DEF ComputeNext
    <3>. QED  BY <1>2, <3>1, ReportsOrEnds
  <2>. QED  BY <2>1, <2>2
<1>6. Reported'  BY <1>2, <1>3 DEF Reported
<1>7. initializations' = trace /\ execution'.next = step - 1
  BY <1>2, <1>3, <1>4, <1>5, <1>6 DEF InStep, SessionKeepsPace
<1>8. execution' # NoExecution
  BY <1>2, <1>4, <1>7 DEF SessionOwns, SP!SessionInductive, SP!OwnsWhatItStarted
<1>. QED  BY <1>3, <1>4, <1>5, <1>7, <1>8 DEF InStep

\* What is reported for a step of a trace comes from the execution of that trace, as
\* many intervals into the plan as the step, and after executions that passed: a start
\* that was refused, a predecessor that is incomplete or whose teardown failed, and an
\* interval that failed report nothing.
THEOREM ReportsAreInStep == ReplaySpec => StatesAreReportedInStep
<1>. DEFINE InTurn == loop = "computing" /\ toMirror' # toMirror =>
                         /\ execution' # NoExecution /\ ~execution'.failed
                         /\ initializations' = trace /\ execution'.next = step - 1
                         /\ EarlierTracesPassed(trace - 1)'
<1>1. ASSUME ReplayInductive, ReplayNext, loop = "computing", toMirror' # toMirror
      PROVE  InTurn
  <2>1. toMirror = <<>>  BY <1>1, MirrorWaits
  <2>2. CASE ComputeInitial \/ ComputeNext
    <3>1. /\ execution' # NoExecution /\ ~execution'.failed
          /\ initializations' = trace /\ execution'.next = step - 1
          /\ SessionOwns' /\ EarlierTracesAreWhole' /\ trace' = trace
      BY <1>1, <2>2, ReportsLeaveInStep
    <3>2. EarlierTracesPassed(trace - 1)'  BY <3>1, EarlierTracesPass
    <3>. QED  BY <3>1, <3>2
  <2>3. CASE MirrorStep /\ ReplayIdle
    BY <1>1, <2>1, <2>3
       DEF MirrorStep, MirrorAnswers, MirrorRegisters, MirrorAsks, MirrorAgrees,
           MirrorDisagrees, MirrorFinishes, MirrorExits, MirrorIntrudes, MirrorDies, Says
  <2>4. ASSUME ReplayNext, ~ComputeInitial, ~ComputeNext, ~(MirrorStep /\ ReplayIdle)
        PROVE  toMirror' = toMirror
    BY <1>1, <2>4
       DEF ReplayNext, ReplayStep, RefuseReused, Begin, Refuse, Register, Negotiate, Create,
           CheckBinding, Quietly, ListenOnce, ReceiveReply, Listen, Loop, Receive, Panics,
           CallbackFails, DisposeBinding, Dispose, Close, Return, LateThread, Retry, vars,
           connection
  <2>. QED  BY <1>1, <2>2, <2>3, <2>4
<1>2. ReplayInductive /\ [ReplayNext]_replayVars => [InTurn]_replayVars  BY <1>1
<1>. QED  BY <1>2, ReplayInvariantHolds, PTL DEF ReplaySpec, StatesAreReportedInStep

=============================================================================
