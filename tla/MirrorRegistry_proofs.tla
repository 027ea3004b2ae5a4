-------------------------- MODULE MirrorRegistry_proofs --------------------------
(***************************************************************************)
(* Proofs about MirrorRegistry: for any answer of the registry, options of *)
(* the caller and behaviour of the peers, the connection that is returned  *)
(* is to the first candidate that could be connected to, under the pin of  *)
(* highest precedence.                                                     *)
(***************************************************************************)
EXTENDS MirrorRegistry, WellFoundedInduction, TLAPS

(***************************************************************************)
(* The inductive invariant.                                                *)
(***************************************************************************)
\* Whatever the rows are, they are a sequence.
IsRows(s) == s \in Seq({s[i] : i \in DOMAIN s})

Sockets == [cert : Certs, reads : Nat, up : BOOLEAN,
            timeout : {t.handshake_timeout : t \in Configured} \cup {0}]

Attempting == stage \in {"preparing", "connecting", "handshaking", "pinning", "connected", "failed"}

TypeOK ==
    /\ registry \in Replies /\ tls \in Configured
    /\ stage \in {"discovering", "choosing", "returned"} \/ Attempting
    /\ peers \in [Hosts -> [state : {"up", "down", "silent"}, cert : Certs]]
    /\ socket \in Sockets \/ socket = None
    /\ IsRows(candidates) /\ IsRows(failures)

\* The candidate that is tried, or is the next to be.
Current == Offered[Len(failures) + 1]

\* Nothing has been tried before the registry has answered; then what is left are the
\* entries offered after those that failed.
WhatIsLeft ==
    /\ stage = "discovering" => failures = <<>> /\ socket = None
    /\ stage = "choosing" \/ Attempting =>
          /\ Len(failures) + Len(candidates) = Len(Offered)
          /\ \A i \in DOMAIN candidates : candidates[i] = Candidate(Offered[Len(failures) + i])

\* An attempt is made with the options of its candidate, and not of one before it.
AttemptIsOfTheFirst ==
    Attempting =>
        /\ candidates # <<>> /\ host = Current.address
        /\ options = [tls EXCEPT !.pin = PinFor(Candidate(Current))]

\* There is a socket from the connection on, and only then.
SocketOfTheAttempt ==
    IF stage \in {"handshaking", "pinning", "connected"} THEN socket \in Sockets
    ELSE stage # "returned" => socket = None

\* What a socket has passed when the pin is compared, and when it is handed over.
PinHeld == options.pin = None \/ normalize_fingerprint(options.pin) = socket.cert

ChecksInOrder ==
    /\ stage \in {"pinning", "connected"} => Verified(socket.cert)
    /\ stage = "connected" => PinHeld /\ socket.timeout = 0

\* A refusal for its pin is for the pin of this attempt.
MismatchIsOfThePin ==
    stage = "failed" /\ error.kind = "mismatch" =>
        /\ options.pin # None /\ normalize_fingerprint(options.pin) # None
        /\ error.expected = normalize_fingerprint(options.pin)
        /\ error.got # error.expected

FailuresAreRight ==
    \A i \in DOMAIN failures : i <= Len(Offered) /\ PassedOverRightly(i)

RegistryInductive ==
    /\ WhatIsLeft /\ AttemptIsOfTheFirst /\ SocketOfTheAttempt /\ ChecksInOrder
    /\ MismatchIsOfThePin /\ FailuresAreRight /\ ConnectionIsTheFirstUsable

(***************************************************************************)
(* Rows.                                                                   *)
(***************************************************************************)
\* No rows are rows.
LEMMA NoRows == IsRows(<<>>) /\ Len(<<>>) = 0 /\ DOMAIN <<>> = {}
BY DEF IsRows

\* A sequence of anything is one of its elements.
LEMMA SequencesAreRows ==
    ASSUME NEW S, NEW s \in Seq(S)
    PROVE  IsRows(s)
<1>. DEFINE T == {s[i] : i \in DOMAIN s}
<1>1. Len(s) \in Nat /\ DOMAIN s = 1..Len(s) /\ s = [i \in 1..Len(s) |-> s[i]]  OBVIOUS
<1>2. \A i \in 1..Len(s) : s[i] \in T  BY <1>1
<1>. HIDE DEF T
<1>3. s \in [1..Len(s) -> T]  BY <1>1, <1>2
<1>4. s \in Seq(T)  BY <1>1, <1>3
<1>. QED  BY <1>4 DEF IsRows, T

\* Rows are counted from one.
LEMMA RowsAreIndexed ==
    ASSUME NEW s, IsRows(s)
    PROVE  Len(s) \in Nat /\ DOMAIN s = 1..Len(s) /\ (s = <<>> <=> Len(s) = 0)
BY DEF IsRows

\* A function on 1..n is n rows.
LEMMA FunctionsAreRows ==
    ASSUME NEW f, NEW n \in Nat, DOMAIN f = 1..n, f = [i \in DOMAIN f |-> f[i]]
    PROVE  IsRows(f) /\ Len(f) = n
<1>. DEFINE T == {f[i] : i \in 1..n}
<1>1. \A i \in 1..n : f[i] \in T  OBVIOUS
<1>. HIDE DEF T
<1>2. f \in [1..n -> T]  BY <1>1
<1>3. f \in Seq(T)  BY <1>2
<1>4. IsRows(f)  BY <1>3, SequencesAreRows
<1>5. Len(f) \in Nat /\ DOMAIN f = 1..Len(f)  BY <1>4, RowsAreIndexed
<1>6. Len(f) = n  BY <1>5
<1>. QED  BY <1>4, <1>6

\* A row that is appended is the last one.
LEMMA RowAppended ==
    ASSUME NEW s, IsRows(s), NEW row
    PROVE  /\ IsRows(Append(s, row)) /\ Len(Append(s, row)) = Len(s) + 1
           /\ DOMAIN Append(s, row) = 1..(Len(s) + 1)
           /\ Append(s, row)[Len(s) + 1] = row
           /\ \A n \in DOMAIN s : Append(s, row)[n] = s[n]
<1>. DEFINE S == {s[i] : i \in DOMAIN s}
            T == S \cup {row}
<1>1. s \in Seq(S)  BY DEF IsRows
<1>. HIDE DEF S
<1>2. s \in Seq(T) /\ row \in T  BY <1>1
<1>. HIDE DEF T
<1>3. Append(s, row) \in Seq(T)  BY <1>2
<1>4. IsRows(Append(s, row))  BY <1>3, SequencesAreRows
<1>5. /\ DOMAIN Append(s, row) = 1..(Len(s) + 1) /\ Len(s) \in Nat /\ DOMAIN s = 1..Len(s)
      /\ Len(Append(s, row)) = Len(s) + 1
      /\ \A i \in 1..Len(s) : Append(s, row)[i] = s[i]
      /\ Append(s, row)[Len(s) + 1] = row
  BY <1>2
<1>. QED  BY <1>4, <1>5

\* The first row is taken, and the others move up.
LEMMA FirstRowTaken ==
    ASSUME NEW s, IsRows(s), s # <<>>
    PROVE  /\ IsRows(Tail(s)) /\ Len(Tail(s)) = Len(s) - 1 /\ Head(s) = s[1] /\ 1 \in DOMAIN s
           /\ \A i \in DOMAIN Tail(s) : i + 1 \in DOMAIN s /\ Tail(s)[i] = s[i + 1]
<1>. DEFINE S == {s[i] : i \in DOMAIN s}
<1>1. s \in Seq(S)  BY DEF IsRows
<1>. HIDE DEF S
<1>2. Tail(s) \in Seq(S)  BY <1>1
<1>3. IsRows(Tail(s))  BY <1>2, SequencesAreRows
<1>4. /\ DOMAIN s = 1..Len(s) /\ Len(s) \in Nat /\ Len(s) # 0 /\ Head(s) = s[1]
      /\ DOMAIN Tail(s) = 1..(Len(s) - 1) /\ Len(Tail(s)) = Len(s) - 1
      /\ \A i \in 1..(Len(s) - 1) : Tail(s)[i] = s[i + 1]
  BY <1>1
<1>. QED  BY <1>3, <1>4

(***************************************************************************)
(* The entries that describe a mirror.                                     *)
(***************************************************************************)
\* Induction over the naturals, on a set.
LEMMA Induction ==
    ASSUME NEW S, 0 \in S, \A n \in Nat : n \in S => n + 1 \in S
    PROVE  Nat \subseteq S
<1>. DEFINE T == Nat \ S
            Less == OpToRel(<, Nat)
<1>. SUFFICES ASSUME T # {} PROVE FALSE  OBVIOUS
<1>1. IsWellFoundedOn(Less, Nat) /\ T \subseteq Nat  BY NatLessThanWellFounded
<1>2. \A m, n \in Nat : m < n => <<m, n>> \in Less  BY DEF OpToRel
<1>. HIDE DEF T, Less
<1>3. PICK n \in T : \A m \in T : <<m, n>> \notin Less  BY <1>1, WFMin
<1>4. n \in Nat /\ n \notin S  BY <1>3 DEF T
<1>5. n # 0 /\ n - 1 \in Nat /\ n - 1 < n /\ (n - 1) + 1 = n  BY <1>4
<1>6. n - 1 \in T  BY <1>4, <1>5 DEF T
<1>. QED  BY <1>2, <1>3, <1>4, <1>5, <1>6

\* The table of prefixes that Usable chooses, up to some entry.
Filters(among, entries, n) ==
    among = [i \in 0..n |-> IF i = 0 THEN <<>>
                            ELSE IF Describes(entries[i]) THEN Append(among[i - 1], entries[i])
                            ELSE among[i - 1]]

\* The rows are entries, and each describes a mirror.
Describing(s, E) == s \in Seq(E) /\ \A i \in DOMAIN s : Describes(s[i])

\* There is one, and it holds entries that describe a mirror.
LEMMA FiltersExist ==
    ASSUME NEW entries, Len(entries) \in Nat, DOMAIN entries = 1..Len(entries)
    PROVE  \E among : Filters(among, entries, Len(entries))
<1>. DEFINE E == {entries[i] : i \in DOMAIN entries}
            S == {n \in Nat : n <= Len(entries) =>
                     \E among \in [0..n -> Seq(E)] : Filters(among, entries, n)}
<1>1. 0 \in S
  <2>1. [i \in 0..0 |-> <<>>] \in [0..0 -> Seq(E)]  OBVIOUS
  <2>2. Filters([i \in 0..0 |-> <<>>], entries, 0)  BY DEF Filters
  <2>. QED  BY <2>1, <2>2
<1>2. ASSUME NEW n \in Nat, n \in S PROVE n + 1 \in S
  <2>. SUFFICES ASSUME n + 1 <= Len(entries)
                PROVE  \E among \in [0..(n + 1) -> Seq(E)] : Filters(among, entries, n + 1)
    OBVIOUS
  <2>1. n <= Len(entries)  OBVIOUS
  <2>2. PICK f \in [0..n -> Seq(E)] : Filters(f, entries, n)  BY <1>2, <2>1
  <2>. DEFINE x == IF Describes(entries[n + 1]) THEN Append(f[n], entries[n + 1]) ELSE f[n]
              g == [i \in 0..(n + 1) |-> IF i = n + 1 THEN x ELSE f[i]]
  <2>3. n \in 0..n /\ f[n] \in Seq(E)  BY <2>2
  <2>4. entries[n + 1] \in E  OBVIOUS
  <2>. HIDE DEF E
  <2>5. x \in Seq(E)  BY <2>3, <2>4
  <2>. HIDE DEF x
  <2>6. g \in [0..(n + 1) -> Seq(E)]  BY <2>2, <2>5
  <2>7. \A i \in 0..(n + 1) :
           g[i] = IF i = 0 THEN <<>>
                  ELSE IF Describes(entries[i]) THEN Append(g[i - 1], entries[i])
                  ELSE g[i - 1]
    <3>. TAKE i \in 0..(n + 1)
    <3>1. CASE i = n + 1
      <4>1. g[i] = x /\ g[i - 1] = f[n] /\ i # 0  BY <3>1
      <4>. QED  BY <3>1, <4>1 DEF x
    <3>2. CASE i \in 0..n
      <4>1. g[i] = f[i]  BY <3>2
      <4>2. f[i] = IF i = 0 THEN <<>>
                   ELSE IF Describes(entries[i]) THEN Append(f[i - 1], entries[i])
                   ELSE f[i - 1]
        BY <2>2, <3>2 DEF Filters
      <4>3. i # 0 => g[i - 1] = f[i - 1]  BY <3>2
      <4>. QED  BY <4>1, <4>2, <4>3
    <3>. QED  BY <3>1, <3>2
  <2>8. Filters(g, entries, n + 1)
    <3>1. g = [i \in 0..(n + 1) |-> g[i]]  OBVIOUS
    <3>. HIDE DEF g
    <3>. QED  BY <2>7, <3>1 DEF Filters
  <2>. QED  BY <2>6, <2>8
<1>. HIDE DEF S
<1>3. Len(entries) \in S  BY <1>1, <1>2, Induction
<1>. QED  BY <1>3 DEF S

\* What is used are entries that describe a mirror.
LEMMA UsableDescribe ==
    ASSUME NEW entries, Len(entries) \in Nat, DOMAIN entries = 1..Len(entries)
    PROVE  Describing(Usable(entries), {entries[i] : i \in DOMAIN entries})
<1>. DEFINE E == {entries[i] : i \in DOMAIN entries}
            A == CHOOSE among : Filters(among, entries, Len(entries))
            S == {n \in Nat : n <= Len(entries) => Describing(A[n], E)}
<1>1. Filters(A, entries, Len(entries))  BY FiltersExist
<1>2. Usable(entries) = A[Len(entries)]  BY DEF Usable, Filters
<1>. HIDE DEF A
<1>3. \A i \in 0..Len(entries) :
         A[i] = IF i = 0 THEN <<>>
                ELSE IF Describes(entries[i]) THEN Append(A[i - 1], entries[i])
                ELSE A[i - 1]
  BY <1>1 DEF Filters
<1>4. 0 \in S
  <2>1. A[0] = <<>>  BY <1>3
  <2>2. <<>> \in Seq(E) /\ DOMAIN <<>> = {}  OBVIOUS
  <2>3. Describing(<<>>, E)  BY <2>2 DEF Describing
  <2>. QED  BY <2>1, <2>3
<1>5. ASSUME NEW n \in Nat, n \in S PROVE n + 1 \in S
  <2>. SUFFICES ASSUME n + 1 <= Len(entries) PROVE Describing(A[n + 1], E)  OBVIOUS
  <2>1. Describing(A[n], E) /\ n + 1 \in 0..Len(entries) /\ n + 1 # 0 /\ (n + 1) - 1 = n
    BY <1>5
  <2>2. A[n + 1] = IF Describes(entries[n + 1]) THEN Append(A[n], entries[n + 1]) ELSE A[n]
    BY <1>3, <2>1
  <2>3. entries[n + 1] \in E  OBVIOUS
  <2>. HIDE DEF E
  <2>4. CASE ~Describes(entries[n + 1])  BY <2>1, <2>2, <2>4
  <2>5. CASE Describes(entries[n + 1])
    <3>1. PICK a, e : a = A[n] /\ e = entries[n + 1]  OBVIOUS
    <3>2. a \in Seq(E) /\ e \in E /\ Describes(e) /\ \A i \in DOMAIN a : Describes(a[i])
      BY <2>1, <2>3, <2>5, <3>1 DEF Describing
    <3>3. /\ Append(a, e) \in Seq(E) /\ DOMAIN Append(a, e) = 1..(Len(a) + 1) /\ Len(a) \in Nat
          /\ DOMAIN a = 1..Len(a)
          /\ \A i \in 1..Len(a) : Append(a, e)[i] = a[i]
          /\ Append(a, e)[Len(a) + 1] = e
      BY <3>2
    <3>4. \A i \in 1..(Len(a) + 1) : i \in 1..Len(a) \/ i = Len(a) + 1  BY <3>3
    <3>5. \A i \in DOMAIN Append(a, e) : Describes(Append(a, e)[i])
      BY <3>2, <3>3, <3>4
    <3>. QED  BY <2>2, <2>5, <3>1, <3>3, <3>5 DEF Describing
  <2>. QED  BY <2>4, <2>5
<1>. HIDE DEF S
<1>6. Len(entries) \in S  BY <1>4, <1>5, Induction
<1>. QED  BY <1>2, <1>6 DEF S

\* The candidates of an answer are those of its offers.
LEMMA OffersAreRows ==
    ASSUME registry \in Replies
    PROVE  /\ IsRows(Offered)
           /\ \A i \in DOMAIN Offered : Describes(Offered[i]) /\ Offered[i].pin \in Pins \cup {None}
<1>1. CASE registry.kind = "list"
  <2>. DEFINE entries == registry.entries
              E == {entries[i] : i \in DOMAIN entries}
  <2>1. Len(entries) \in Nat /\ DOMAIN entries = 1..Len(entries)
        /\ \A i \in DOMAIN entries : entries[i].pin \in Pins \cup {None}
    BY RepliesAssumption
  <2>2. Describing(Usable(entries), E)  BY <2>1, UsableDescribe
  <2>3. \A e \in E : e.pin \in Pins \cup {None}  BY <2>1
  <2>4. Offered = Usable(entries)  BY <1>1 DEF Offered
  <2>. HIDE DEF E, entries
  <2>5. Offered \in Seq(E) /\ \A i \in DOMAIN Offered : Describes(Offered[i])
    BY <2>2, <2>4 DEF Describing
  <2>6. IsRows(Offered)  BY <2>5, SequencesAreRows
  <2>7. \A i \in DOMAIN Offered : Offered[i] \in E  BY <2>5
  <2>. QED  BY <2>3, <2>5, <2>6, <2>7
<1>2. CASE registry.kind # "list"
  <2>1. Offered = <<>>  BY <1>2 DEF Offered
  <2>. QED  BY <2>1, NoRows
<1>. QED  BY <1>1, <1>2

(***************************************************************************)
(* The pin of an attempt.                                                  *)
(***************************************************************************)
\* The options of an attempt demand what the entry's candidate must have.
LEMMA PinOfTheEntry ==
    ASSUME NEW entry, Describes(entry), entry.pin \in Pins \cup {None}
    PROVE  LET p == PinFor(Candidate(entry)) IN
           /\ p = None => Demanded(entry) = {}
           /\ p # None => \E pin : /\ Demanded(entry) = {pin} /\ pin.of = p.of
                                   /\ pin.written = "malformed" <=> p.written = "malformed"
<1>. DEFINE p == PinFor(Candidate(entry))
<1>1. CASE pin_override # None
  <2>1. p = pin_override /\ Demanded(entry) = {pin_override}
    BY <1>1 DEF PinFor, OrElse, Demanded
  <2>. QED  BY <1>1, <2>1
<1>2. CASE pin_override = None /\ tls.pin # None
  <2>1. p = tls.pin /\ Demanded(entry) = {tls.pin}
    BY <1>2 DEF PinFor, OrElse, Demanded
  <2>. QED  BY <1>2, <2>1
<1>3. CASE pin_override = None /\ tls.pin = None
  <2>1. p = Candidate(entry).cert_sha256 /\ Demanded(entry) = {entry.pin} \ {None}
    BY <1>3 DEF PinFor, OrElse, Demanded
  <2>2. CASE entry.pin = None
    <3>1. p = None  BY <2>1, <2>2 DEF Candidate
    <3>. QED  BY <2>1, <2>2, <3>1
  <2>3. CASE entry.pin # None
    <3>1. p = [of |-> normalize_pin(entry.pin), written |-> "hex"]
      BY <2>1, <2>3 DEF Candidate
    <3>2. entry.pin \in Pins /\ entry.pin.written = "hex" /\ normalize_pin(entry.pin) = entry.pin.of
      BY <2>3 DEF Describes, normalize_pin
    <3>3. p \in Pins /\ p.of = entry.pin.of /\ p.written = "hex"
      BY <3>1, <3>2 DEF Pins
    <3>4. p # None /\ Demanded(entry) = {entry.pin}  BY <2>1, <2>3, <3>3, NoneAssumption
    <3>. QED  BY <3>2, <3>3, <3>4
  <2>. QED  BY <2>2, <2>3
<1>. QED  BY <1>1, <1>2, <1>3

\* A certificate that passes the check has the fingerprint that is demanded.
LEMMA PinIsSatisfied ==
    ASSUME NEW entry, Describes(entry), entry.pin \in Pins \cup {None}, NEW cert \in Certs,
           \/ PinFor(Candidate(entry)) = None
           \/ normalize_fingerprint(PinFor(Candidate(entry))) = cert
    PROVE  Satisfies(cert, Demanded(entry))
<1>. DEFINE p == PinFor(Candidate(entry))
<1>1. CASE p = None
  <2>1. Demanded(entry) = {}  BY <1>1, PinOfTheEntry
  <2>. QED  BY <2>1 DEF Satisfies
<1>2. CASE p # None
  <2>1. normalize_fingerprint(p) = cert  BY <1>2
  <2>2. p.written # "malformed" /\ p.of = cert
    BY <2>1, NoneAssumption DEF normalize_fingerprint
  <2>3. PICK pin : /\ Demanded(entry) = {pin} /\ pin.of = p.of
                   /\ pin.written = "malformed" <=> p.written = "malformed"
    BY <1>2, PinOfTheEntry
  <2>. QED  BY <2>2, <2>3 DEF Satisfies
<1>. QED  BY <1>1, <1>2

\* One that is refused does not.
LEMMA PinIsMissed ==
    ASSUME NEW entry, Describes(entry), entry.pin \in Pins \cup {None},
           PinFor(Candidate(entry)) # None,
           normalize_fingerprint(PinFor(Candidate(entry))) # None
    PROVE  \E pin \in Demanded(entry) :
              pin.of = normalize_fingerprint(PinFor(Candidate(entry)))
<1>. DEFINE p == PinFor(Candidate(entry))
<1>1. PICK pin : Demanded(entry) = {pin} /\ pin.of = p.of
  BY PinOfTheEntry
<1>2. normalize_fingerprint(p) = p.of  BY DEF normalize_fingerprint
<1>. QED  BY <1>1, <1>2

\* An attempt carries over the caller's options but for the pin.
LEMMA OptionsOfTheAttempt ==
    ASSUME tls \in Configured, NEW pin, options = [tls EXCEPT !.pin = pin]
    PROVE  /\ options.pin = pin /\ options.server_name = tls.server_name
           /\ options.handshake_timeout = tls.handshake_timeout
<1>1. {"pin", "server_name", "handshake_timeout"} \subseteq DOMAIN tls  BY OptionsAssumption
<1>2. "pin" \in DOMAIN tls /\ "server_name" \in DOMAIN tls /\ "handshake_timeout" \in DOMAIN tls
  BY <1>1
<1>3. "pin" # "server_name" /\ "pin" # "handshake_timeout"  OBVIOUS
<1>. QED  BY <1>2, <1>3

(***************************************************************************)
(* One lemma per action, or per group of actions that disturb the same.    *)
(***************************************************************************)
\* What the caller and the registry said does not change, so neither do the offers.
LEMMA OffersStay ==
    ASSUME UNCHANGED arguments
    PROVE  /\ Offered' = Offered
           /\ \A entry : Demanded(entry)' = Demanded(entry)
           /\ \A candidate : PinFor(candidate)' = PinFor(candidate)
BY DEF arguments, Offered, Demanded, PinFor

\* A call begins with nothing tried.
LEMMA InitEstablishes == Init => TypeOK /\ RegistryInductive
<1>. SUFFICES ASSUME Init PROVE TypeOK /\ RegistryInductive  OBVIOUS
<1>1. TypeOK
  <2>1. peers \in [Hosts -> [state : {"up", "down", "silent"}, cert : Certs]]  BY DEF Init
  <2>. QED  BY <2>1, NoRows DEF Init, TypeOK
<1>2. FailuresAreRight  BY NoRows DEF Init, FailuresAreRight
<1>3. stage = "discovering" /\ failures = <<>> /\ socket = None /\ ~Attempting
  BY DEF Init, Attempting
<1>4. WhatIsLeft /\ AttemptIsOfTheFirst /\ SocketOfTheAttempt
  BY <1>3 DEF WhatIsLeft, AttemptIsOfTheFirst, SocketOfTheAttempt
<1>5. ChecksInOrder /\ MismatchIsOfThePin /\ ConnectionIsTheFirstUsable
  BY <1>3 DEF ChecksInOrder, MismatchIsOfThePin, ConnectionIsTheFirstUsable
<1>. QED  BY <1>1, <1>2, <1>4, <1>5 DEF RegistryInductive

\* The candidates are made of the offers.
LEMMA DiscoverPreserves ==
    ASSUME TypeOK, RegistryInductive, Discover
    PROVE  TypeOK' /\ RegistryInductive'
<1>1. /\ UNCHANGED <<arguments, options, host, socket, error, network, failures>>
      /\ candidates' = IF registry.kind = "list" THEN Described(registry.entries) ELSE <<>>
      /\ \/ candidates' = <<>> /\ stage' = "returned" /\ result' = "registry_error"
         \/ candidates' # <<>> /\ stage' = "choosing"
  BY DEF Discover, Returns
<1>2. failures = <<>> /\ socket = None
  BY DEF Discover, RegistryInductive, WhatIsLeft
<1>3. Offered' = Offered /\ IsRows(Offered) /\ Len(Offered) \in Nat /\ DOMAIN Offered = 1..Len(Offered)
  BY <1>1, OffersStay, OffersAreRows, RowsAreIndexed DEF TypeOK
<1>4. /\ IsRows(candidates') /\ Len(candidates') = Len(Offered)
      /\ \A i \in DOMAIN candidates' : candidates'[i] = Candidate(Offered[i])
  <2>1. CASE registry.kind = "list"
    <3>1. candidates' = [i \in DOMAIN Offered |-> Candidate(Offered[i])]
      BY <1>1, <2>1 DEF Described, Offered
    <3>2. PICK c : c = candidates'  OBVIOUS
    <3>3. DOMAIN c = 1..Len(Offered) /\ c = [i \in DOMAIN c |-> c[i]]
          /\ \A i \in DOMAIN c : c[i] = Candidate(Offered[i])
      BY <1>3, <3>1, <3>2
    <3>4. IsRows(c) /\ Len(c) = Len(Offered)  BY <1>3, <3>3, FunctionsAreRows
    <3>. QED  BY <3>2, <3>3, <3>4
  <2>2. CASE registry.kind # "list"
    <3>1. candidates' = <<>> /\ Offered = <<>>  BY <1>1, <2>2 DEF Offered
    <3>. QED  BY <3>1, NoRows
  <2>. QED  BY <2>1, <2>2
<1>5. TypeOK'
  BY <1>1, <1>4 DEF TypeOK, Attempting, arguments, network
<1>6. failures' = <<>> /\ Len(failures') = 0 /\ socket' = None /\ DOMAIN failures' = {}
  BY <1>1, <1>2, NoRows
<1>7. stage' \in {"choosing", "returned"} /\ ~Attempting'
  BY <1>1 DEF Attempting
<1>8. WhatIsLeft'
  <2>1. \A i \in DOMAIN candidates' : 0 + i = i
    BY <1>3, <1>4, RowsAreIndexed
  <2>2. /\ Len(failures') + Len(candidates') = Len(Offered')
        /\ \A i \in DOMAIN candidates' : candidates'[i] = Candidate(Offered'[Len(failures') + i])
    BY <1>3, <1>4, <1>6, <2>1
  <2>. QED  BY <1>7, <2>2 DEF WhatIsLeft
<1>9. AttemptIsOfTheFirst' /\ SocketOfTheAttempt' /\ ChecksInOrder' /\ MismatchIsOfThePin'
  BY <1>6, <1>7 DEF AttemptIsOfTheFirst, SocketOfTheAttempt, ChecksInOrder, MismatchIsOfThePin
<1>10. FailuresAreRight'  BY <1>6 DEF FailuresAreRight
<1>11. ConnectionIsTheFirstUsable'
  <2>. SUFFICES ASSUME stage' = "returned" PROVE ConnectionIsTheFirstUsable'
    BY DEF ConnectionIsTheFirstUsable
  <2>1. candidates' = <<>> /\ result' = "registry_error"  BY <1>1
  <2>2. Len(Offered') = 0  BY <1>3, <1>4, <2>1, NoRows
  <2>3. 1..Len(failures') = {}  BY <1>6
  <2>. QED  BY <1>6, <2>1, <2>2, <2>3 DEF ConnectionIsTheFirstUsable
<1>. QED  BY <1>5, <1>8, <1>9, <1>10, <1>11 DEF RegistryInductive

\* An attempt begins with the options of its candidate.
LEMMA TryNextPreserves ==
    ASSUME TypeOK, RegistryInductive, TryNext
    PROVE  TypeOK' /\ RegistryInductive'
<1>1. /\ UNCHANGED <<arguments, socket, error, network, candidates, failures, result>>
      /\ stage = "choosing" /\ stage' = "preparing" /\ candidates # <<>>
      /\ host' = Head(candidates).host
      /\ options' = [tls EXCEPT !.pin = PinFor(Head(candidates))]
  BY DEF TryNext
<1>2. /\ Offered' = Offered /\ tls' = tls
      /\ \A entry : Demanded(entry)' = Demanded(entry)
      /\ \A candidate : PinFor(candidate)' = PinFor(candidate)
  BY <1>1, OffersStay DEF arguments
<1>3. TypeOK'  BY <1>1 DEF TypeOK, Attempting, arguments, network
<1>4. Head(candidates) = Candidate(Current)
  <2>1. Head(candidates) = candidates[1] /\ 1 \in DOMAIN candidates
    BY <1>1, FirstRowTaken DEF TypeOK
  <2>. QED  BY <1>1, <2>1 DEF RegistryInductive, WhatIsLeft, Current
<1>5. Current' = Current  BY <1>1, <1>2 DEF Current
<1>6. WhatIsLeft'
  BY <1>1, <1>2 DEF RegistryInductive, WhatIsLeft
<1>7. AttemptIsOfTheFirst'
  <2>1. Head(candidates).host = Current.address  BY <1>4 DEF Candidate
  <2>2. PinFor(Candidate(Current))' = PinFor(Head(candidates))
    BY <1>2, <1>4, <1>5 DEF Candidate
  <2>. QED  BY <1>1, <1>2, <1>5, <2>1, <2>2 DEF AttemptIsOfTheFirst
<1>8. SocketOfTheAttempt' /\ ChecksInOrder' /\ MismatchIsOfThePin' /\ ConnectionIsTheFirstUsable'
  BY <1>1 DEF RegistryInductive, SocketOfTheAttempt, ChecksInOrder, MismatchIsOfThePin,
              ConnectionIsTheFirstUsable
<1>9. FailuresAreRight'
  BY <1>1, <1>2 DEF RegistryInductive, FailuresAreRight, PassedOverRightly
<1>. QED  BY <1>3, <1>6, <1>7, <1>8, <1>9 DEF RegistryInductive

\* What one attempt leaves as it is.
Aside == <<arguments, candidates, failures, result>>

\* A step of the attempt, or of a peer, keeps what is left and what failed.
LEMMA AsideStays ==
    ASSUME TypeOK, RegistryInductive, UNCHANGED Aside,
           stage # "discovering", stage # "returned",
           UNCHANGED <<options, host>>, Attempting => Attempting', Attempting' => Attempting,
           stage' = "choosing" => stage = "choosing", stage' # "discovering", stage' # "returned"
    PROVE  /\ WhatIsLeft' /\ AttemptIsOfTheFirst' /\ FailuresAreRight' /\ ConnectionIsTheFirstUsable'
           /\ Current' = Current /\ Offered' = Offered
<1>1. /\ Offered' = Offered /\ tls' = tls /\ failures' = failures /\ candidates' = candidates
      /\ \A entry : Demanded(entry)' = Demanded(entry)
      /\ \A candidate : PinFor(candidate)' = PinFor(candidate)
  BY OffersStay DEF arguments, Aside
<1>2. Current' = Current  BY <1>1 DEF Current
<1>3. WhatIsLeft'  BY <1>1 DEF RegistryInductive, WhatIsLeft
<1>4. AttemptIsOfTheFirst'
  <2>1. PinFor(Candidate(Current))' = PinFor(Candidate(Current))
    <3>1. PICK c : c = Candidate(Current)  OBVIOUS
    <3>2. Candidate(Current)' = c  BY <1>2, <3>1 DEF Candidate
    <3>. QED  BY <1>1, <3>1, <3>2
  <2>. QED  BY <1>1, <1>2, <2>1 DEF RegistryInductive, AttemptIsOfTheFirst
<1>5. FailuresAreRight'  BY <1>1 DEF RegistryInductive, FailuresAreRight, PassedOverRightly
<1>6. ConnectionIsTheFirstUsable'  BY DEF ConnectionIsTheFirstUsable
<1>. QED  BY <1>1, <1>2, <1>3, <1>4, <1>5, <1>6

\* A failure that is not about the pin.
LEMMA FailsPreserves ==
    ASSUME TypeOK, RegistryInductive, UNCHANGED Aside, Attempting, NEW kind, FailsWith(kind),
           kind # "mismatch"
    PROVE  TypeOK' /\ RegistryInductive'
<1>1. /\ UNCHANGED <<options, host, network>> /\ stage' = "failed" /\ socket' = None
      /\ error'.kind = kind /\ stage # "discovering" /\ stage # "returned" /\ Attempting'
  BY DEF FailsWith, Fails, Attempting
<1>2. TypeOK'  BY <1>1 DEF TypeOK, Aside, arguments, network
<1>3. WhatIsLeft' /\ AttemptIsOfTheFirst' /\ FailuresAreRight' /\ ConnectionIsTheFirstUsable'
  BY <1>1, AsideStays
<1>4. SocketOfTheAttempt' /\ ChecksInOrder' /\ MismatchIsOfThePin'
  BY <1>1 DEF SocketOfTheAttempt, ChecksInOrder, MismatchIsOfThePin
<1>. QED  BY <1>2, <1>3, <1>4 DEF RegistryInductive

\* The checks before anything leaves the machine, and the connection.
LEMMA ConnectingPreserves ==
    ASSUME TypeOK, RegistryInductive, UNCHANGED Aside, Prepare \/ Connect
    PROVE  TypeOK' /\ RegistryInductive'
<1>1. CASE \E kind : FailsWith(kind) /\ kind # "mismatch"
  BY <1>1, FailsPreserves DEF Prepare, Connect, Attempting
<1>2. CASE Prepare /\ stage' = "connecting" /\ UNCHANGED <<options, host, socket, error, network>>
  <2>1. stage = "preparing" /\ Attempting /\ Attempting' /\ socket = None
    BY <1>2 DEF Prepare, Attempting, RegistryInductive, SocketOfTheAttempt
  <2>2. TypeOK'  BY <1>2, <2>1 DEF TypeOK, Aside, arguments, network
  <2>3. WhatIsLeft' /\ AttemptIsOfTheFirst' /\ FailuresAreRight' /\ ConnectionIsTheFirstUsable'
    BY <1>2, <2>1, AsideStays
  <2>4. SocketOfTheAttempt' /\ ChecksInOrder' /\ MismatchIsOfThePin'
    BY <1>2, <2>1 DEF SocketOfTheAttempt, ChecksInOrder, MismatchIsOfThePin
  <2>. QED  BY <2>2, <2>3, <2>4 DEF RegistryInductive
<1>3. CASE /\ Connect /\ stage' = "handshaking" /\ UNCHANGED <<options, host, error, network>>
           /\ socket' = [cert |-> peers[host].cert, reads |-> 0, timeout |-> ReadTimeout, up |-> TRUE]
  <2>1. stage = "connecting" /\ Attempting /\ Attempting'
    BY <1>3 DEF Connect, Attempting
  <2>2. host \in Hosts /\ ReadTimeout = tls.handshake_timeout
    <3>1. /\ host = Current.address /\ Len(failures) + 1 \in DOMAIN Offered
          /\ options = [tls EXCEPT !.pin = PinFor(Candidate(Current))]
      <4>1. candidates # <<>> /\ Len(failures) + Len(candidates) = Len(Offered)
        BY <2>1 DEF RegistryInductive, WhatIsLeft, AttemptIsOfTheFirst
      <4>2. Len(failures) \in Nat /\ Len(candidates) \in Nat /\ Len(candidates) # 0
            /\ DOMAIN Offered = 1..Len(Offered) /\ Len(Offered) \in Nat
        BY <4>1, RowsAreIndexed, OffersAreRows DEF TypeOK
      <4>3. Len(failures) + 1 \in 1..Len(Offered)  BY <4>1, <4>2
      <4>. QED  BY <2>1, <4>2, <4>3 DEF RegistryInductive, AttemptIsOfTheFirst
    <3>2. Describes(Current)  BY <3>1, OffersAreRows DEF Current, TypeOK
    <3>. QED  BY <3>1, <3>2, OptionsOfTheAttempt DEF Describes, TypeOK, ReadTimeout
  <2>3. socket' \in Sockets
    <3>1. peers[host].cert \in Certs  BY <2>2 DEF TypeOK
    <3>2. ReadTimeout \in {t.handshake_timeout : t \in Configured} \cup {0}  BY <2>2 DEF TypeOK
    <3>. QED  BY <1>3, <3>1, <3>2 DEF Sockets
  <2>4. TypeOK'  BY <1>3, <2>1, <2>3 DEF TypeOK, Aside, arguments, network
  <2>5. WhatIsLeft' /\ AttemptIsOfTheFirst' /\ FailuresAreRight' /\ ConnectionIsTheFirstUsable'
    BY <1>3, <2>1, AsideStays
  <2>6. SocketOfTheAttempt' /\ ChecksInOrder' /\ MismatchIsOfThePin'
    BY <1>3, <2>3 DEF SocketOfTheAttempt, ChecksInOrder, MismatchIsOfThePin
  <2>. QED  BY <2>4, <2>5, <2>6 DEF RegistryInductive
<1>4. CASE Prepare  BY <1>1, <1>2, <1>4 DEF Prepare
<1>5. CASE Connect  BY <1>1, <1>3, <1>5 DEF Connect
<1>. QED  BY <1>4, <1>5

\* What a read of the handshake, or a peer, does to a socket.
LEMMA SocketsChange ==
    ASSUME NEW s \in Sockets
    PROVE  /\ \A n \in Nat : /\ [s EXCEPT !.reads = n] \in Sockets
                             /\ [s EXCEPT !.reads = n].cert = s.cert
                             /\ [s EXCEPT !.reads = n].timeout = s.timeout
           /\ /\ [s EXCEPT !.up = FALSE] \in Sockets
              /\ [s EXCEPT !.up = FALSE].cert = s.cert
              /\ [s EXCEPT !.up = FALSE].timeout = s.timeout
           /\ /\ [s EXCEPT !.timeout = 0] \in Sockets
              /\ [s EXCEPT !.timeout = 0].cert = s.cert
              /\ [s EXCEPT !.timeout = 0].timeout = 0
           /\ s.reads \in Nat /\ s.cert \in Certs
BY DEF Sockets

\* The handshake ends with a certificate that was verified.
LEMMA HandshakePreserves ==
    ASSUME TypeOK, RegistryInductive, UNCHANGED Aside, HandshakeReads \/ HandshakeFails
    PROVE  TypeOK' /\ RegistryInductive'
<1>1. stage = "handshaking" /\ Attempting /\ socket \in Sockets
  BY DEF HandshakeReads, HandshakeFails, Attempting, RegistryInductive, SocketOfTheAttempt
<1>2. CASE FailsWith("tls")  BY <1>1, <1>2, FailsPreserves
<1>3. CASE /\ socket' = [socket EXCEPT !.reads = @ + 1] /\ UNCHANGED <<options, host, error, network>>
           /\ stage' = "handshaking" \/ (stage' = "pinning" /\ Verified(socket.cert))
  <2>1. Attempting'  BY <1>3 DEF Attempting
  <2>2. socket.reads \in Nat  BY <1>1 DEF Sockets
  <2>3. PICK n \in Nat : n = socket.reads + 1  BY <2>2
  <2>4. socket' = [socket EXCEPT !.reads = n]  BY <1>3, <2>3
  <2>5. socket' \in Sockets /\ socket'.cert = socket.cert  BY <1>1, <2>4, SocketsChange
  <2>6. TypeOK'  BY <1>3, <2>1, <2>5 DEF TypeOK, Aside, arguments, network
  <2>7. WhatIsLeft' /\ AttemptIsOfTheFirst' /\ FailuresAreRight' /\ ConnectionIsTheFirstUsable'
    BY <1>1, <1>3, <2>1, AsideStays
  <2>8. SocketOfTheAttempt' /\ MismatchIsOfThePin'
    BY <1>3, <2>5 DEF SocketOfTheAttempt, MismatchIsOfThePin
  <2>9. ChecksInOrder'  BY <1>3, <2>5 DEF ChecksInOrder, Verified, VerifyName
  <2>. QED  BY <2>6, <2>7, <2>8, <2>9 DEF RegistryInductive
<1>4. CASE HandshakeReads
  <2>1. \/ FailsWith("tls")
        \/ /\ socket' = [socket EXCEPT !.reads = @ + 1] /\ UNCHANGED <<options, host, error, network>>
           /\ stage' = "handshaking" \/ (stage' = "pinning" /\ Verified(socket.cert))
    <3>1. CASE socket.reads + 1 < Flights
      <4>1. socket' = [socket EXCEPT !.reads = @ + 1] /\ UNCHANGED <<options, host, stage, error, network>>
        BY <1>4, <3>1 DEF HandshakeReads
      <4>2. stage' = "handshaking"  BY <1>1, <4>1
      <4>. QED  BY <4>1, <4>2
    <3>2. CASE ~(socket.reads + 1 < Flights) /\ ~Verified(socket.cert)
      BY <1>4, <3>2 DEF HandshakeReads
    <3>3. CASE ~(socket.reads + 1 < Flights) /\ Verified(socket.cert)
      <4>1. /\ socket' = [socket EXCEPT !.reads = @ + 1] /\ stage' = "pinning"
            /\ UNCHANGED <<options, host, error, network>>
        BY <1>4, <3>3 DEF HandshakeReads
      <4>. QED  BY <3>3, <4>1
    <3>. QED  BY <3>1, <3>2, <3>3
  <2>. QED  BY <1>2, <1>3, <2>1
<1>5. CASE HandshakeFails  BY <1>2, <1>5 DEF HandshakeFails
<1>. QED  BY <1>4, <1>5

\* The pin is compared after the timeout is lifted, and says what it expected.
LEMMA CheckPinPreserves ==
    ASSUME TypeOK, RegistryInductive, UNCHANGED Aside, CheckPin
    PROVE  TypeOK' /\ RegistryInductive'
<1>1. stage = "pinning" /\ Attempting /\ socket \in Sockets /\ Verified(socket.cert)
  BY DEF CheckPin, Attempting, RegistryInductive, SocketOfTheAttempt, ChecksInOrder
<1>2. CASE FailsWith("argument")  BY <1>1, <1>2, FailsPreserves
<1>3. CASE /\ PinHeld /\ stage' = "connected" /\ socket' = [socket EXCEPT !.timeout = 0]
           /\ UNCHANGED <<options, host, error, network>>
  <2>1. Attempting'  BY <1>3 DEF Attempting
  <2>2. socket' \in Sockets /\ socket'.cert = socket.cert /\ socket'.timeout = 0
    BY <1>1, <1>3, SocketsChange
  <2>3. TypeOK'  BY <1>3, <2>1, <2>2 DEF TypeOK, Aside, arguments, network
  <2>4. WhatIsLeft' /\ AttemptIsOfTheFirst' /\ FailuresAreRight' /\ ConnectionIsTheFirstUsable'
    BY <1>1, <1>3, <2>1, AsideStays
  <2>5. SocketOfTheAttempt' /\ MismatchIsOfThePin'
    BY <1>3, <2>2 DEF SocketOfTheAttempt, MismatchIsOfThePin
  <2>6. Verified(socket.cert)' /\ PinHeld'
    BY <1>1, <1>3, <2>2 DEF Verified, VerifyName, PinHeld
  <2>7. ChecksInOrder'  BY <2>2, <2>6 DEF ChecksInOrder
  <2>. QED  BY <2>3, <2>4, <2>5, <2>7 DEF RegistryInductive
<1>4. CASE /\ ~PinHeld /\ normalize_fingerprint(options.pin) # None
           /\ Fails("mismatch", normalize_fingerprint(options.pin), socket.cert)
  <2>1. /\ UNCHANGED <<options, host, network>> /\ stage' = "failed" /\ socket' = None
        /\ error' = [kind |-> "mismatch", expected |-> normalize_fingerprint(options.pin),
                     got |-> socket.cert]
        /\ Attempting'
    BY <1>4 DEF Fails, Attempting
  <2>2. TypeOK'  BY <2>1 DEF TypeOK, Aside, arguments, network
  <2>3. WhatIsLeft' /\ AttemptIsOfTheFirst' /\ FailuresAreRight' /\ ConnectionIsTheFirstUsable'
    BY <1>1, <2>1, AsideStays
  <2>4. SocketOfTheAttempt' /\ ChecksInOrder'
    BY <2>1 DEF SocketOfTheAttempt, ChecksInOrder
  <2>5. MismatchIsOfThePin'
    BY <1>4, <2>1 DEF MismatchIsOfThePin, PinHeld
  <2>. QED  BY <2>2, <2>3, <2>4, <2>5 DEF RegistryInductive
<1>. QED  BY <1>2, <1>3, <1>4 DEF CheckPin, PinHeld

\* A peer that changes leaves a socket its certificate.
LEMMA PeersPreserve ==
    ASSUME TypeOK, RegistryInductive, UNCHANGED Aside, stage # "returned", PeerStep
    PROVE  TypeOK' /\ RegistryInductive'
<1>. DEFINE Change(h, peer) ==
        /\ Becomes(h, peer)
        /\ \/ peer = [peers[h] EXCEPT !.state = "down"]
           \/ peer = [peers[h] EXCEPT !.state = "silent"]
           \/ \E cert \in Certs : peer = [state |-> "up", cert |-> cert]
<1>0. PICK h \in Hosts : \E peer : Change(h, peer)  BY DEF PeerStep
<1>1. PICK peer : Change(h, peer)  BY <1>0
<1>2. /\ UNCHANGED <<options, host, stage, error>> /\ peers' = [peers EXCEPT ![h] = peer]
      /\ socket' = socket \/ (socket # None /\ socket' = [socket EXCEPT !.up = FALSE])
  BY <1>1 DEF Becomes
<1>3. peer \in [state : {"up", "down", "silent"}, cert : Certs]
  <2>1. peers[h] \in [state : {"up", "down", "silent"}, cert : Certs]  BY DEF TypeOK
  <2>. QED  BY <1>1, <2>1
<1>4. peers' \in [Hosts -> [state : {"up", "down", "silent"}, cert : Certs]]
  BY <1>2, <1>3 DEF TypeOK
<1>5. /\ socket \in Sockets => socket' \in Sockets /\ socket'.cert = socket.cert
                                /\ (socket.timeout = 0 => socket'.timeout = 0)
      /\ socket = None => socket' = None
  BY <1>2, SocketsChange
<1>6. TypeOK'  BY <1>2, <1>4, <1>5 DEF TypeOK, Attempting, Aside, arguments
<1>7. CASE stage = "discovering"
  <2>1. /\ stage' = "discovering" /\ ~Attempting' /\ failures' = failures /\ socket' = None
        /\ failures = <<>>
    BY <1>2, <1>5, <1>7 DEF Attempting, Aside, RegistryInductive, WhatIsLeft
  <2>2. WhatIsLeft' /\ AttemptIsOfTheFirst' /\ SocketOfTheAttempt'
    BY <2>1 DEF WhatIsLeft, AttemptIsOfTheFirst, SocketOfTheAttempt
  <2>3. ChecksInOrder' /\ MismatchIsOfThePin' /\ ConnectionIsTheFirstUsable'
    BY <2>1 DEF ChecksInOrder, MismatchIsOfThePin, ConnectionIsTheFirstUsable
  <2>4. FailuresAreRight'  BY <2>1, NoRows DEF FailuresAreRight
  <2>. QED  BY <1>6, <2>2, <2>3, <2>4 DEF RegistryInductive
<1>8. CASE stage # "discovering"
  <2>1. Attempting' = Attempting  BY <1>2 DEF Attempting
  <2>2. WhatIsLeft' /\ AttemptIsOfTheFirst' /\ FailuresAreRight' /\ ConnectionIsTheFirstUsable'
    BY <1>2, <1>8, <2>1, AsideStays
  <2>3. SocketOfTheAttempt'
    BY <1>2, <1>5 DEF RegistryInductive, SocketOfTheAttempt
  <2>4. ChecksInOrder'
    <3>1. stage \in {"pinning", "connected"} => socket \in Sockets
      BY DEF RegistryInductive, SocketOfTheAttempt
    <3>. QED  BY <1>2, <1>5, <3>1 DEF RegistryInductive, ChecksInOrder, Verified, VerifyName, PinHeld
  <2>5. MismatchIsOfThePin'  BY <1>2 DEF RegistryInductive, MismatchIsOfThePin
  <2>. QED  BY <1>6, <2>2, <2>3, <2>4, <2>5 DEF RegistryInductive
<1>. QED  BY <1>7, <1>8

\* A candidate that failed is noted with its reason, and the next is due.
LEMMA FallbackPreserves ==
    ASSUME TypeOK, RegistryInductive, Fallback
    PROVE  TypeOK' /\ RegistryInductive'
<1>1. /\ UNCHANGED <<arguments, options, host, socket, error, network, result>>
      /\ stage = "failed" /\ stage' = "choosing" /\ candidates' = Tail(candidates)
      /\ failures' = Append(failures, [id |-> Head(candidates).id, host |-> host, error |-> error])
  BY DEF Fallback
<1>2. Attempting /\ ~Attempting' /\ socket = None
  BY <1>1 DEF Attempting, RegistryInductive, SocketOfTheAttempt
<1>3. /\ candidates # <<>> /\ host = Current.address
      /\ options = [tls EXCEPT !.pin = PinFor(Candidate(Current))]
      /\ Len(failures) + Len(candidates) = Len(Offered)
      /\ \A i \in DOMAIN candidates : candidates[i] = Candidate(Offered[Len(failures) + i])
  BY <1>2 DEF RegistryInductive, WhatIsLeft, AttemptIsOfTheFirst
<1>4. /\ Offered' = Offered
      /\ \A entry : Demanded(entry)' = Demanded(entry)
  BY <1>1, OffersStay
<1>5. /\ Len(failures) \in Nat /\ Len(candidates) \in Nat /\ Len(candidates) # 0
      /\ DOMAIN failures = 1..Len(failures) /\ DOMAIN candidates = 1..Len(candidates)
      /\ DOMAIN Offered = 1..Len(Offered) /\ Len(Offered) \in Nat
  BY <1>3, RowsAreIndexed, OffersAreRows DEF TypeOK
<1>6. /\ IsRows(candidates') /\ Len(candidates') = Len(candidates) - 1
      /\ Head(candidates) = candidates[1] /\ 1 \in DOMAIN candidates
      /\ \A i \in DOMAIN candidates' : i + 1 \in DOMAIN candidates /\ candidates'[i] = candidates[i + 1]
  BY <1>1, <1>3, FirstRowTaken DEF TypeOK
<1>7. PICK row : row = [id |-> Head(candidates).id, host |-> host, error |-> error]  OBVIOUS
<1>8. /\ IsRows(failures') /\ Len(failures') = Len(failures) + 1
      /\ DOMAIN failures' = 1..(Len(failures) + 1) /\ failures'[Len(failures) + 1] = row
      /\ \A n \in DOMAIN failures : failures'[n] = failures[n]
  <2>1. failures' = Append(failures, row)  BY <1>1, <1>7
  <2>. QED  BY <2>1, RowAppended DEF TypeOK
<1>9. TypeOK'  BY <1>1, <1>6, <1>8 DEF TypeOK, arguments, network
<1>10. WhatIsLeft'
  <2>1. Len(failures') + Len(candidates') = Len(Offered')
    BY <1>3, <1>4, <1>5, <1>6, <1>8
  <2>2. ASSUME NEW i \in DOMAIN candidates'
        PROVE  candidates'[i] = Candidate(Offered'[Len(failures') + i])
    <3>1. i \in Nat /\ Len(failures) + (i + 1) = (Len(failures) + 1) + i
      BY <1>5, <1>6, RowsAreIndexed
    <3>2. candidates'[i] = candidates[i + 1] /\ i + 1 \in DOMAIN candidates  BY <1>6
    <3>3. candidates[i + 1] = Candidate(Offered[Len(failures) + (i + 1)])  BY <1>3, <3>2
    <3>. QED  BY <1>4, <1>8, <3>1, <3>2, <3>3
  <2>. QED  BY <1>1, <2>1, <2>2 DEF WhatIsLeft
<1>11. AttemptIsOfTheFirst' /\ SocketOfTheAttempt' /\ ChecksInOrder' /\ MismatchIsOfThePin'
       /\ ConnectionIsTheFirstUsable'
  BY <1>1, <1>2 DEF AttemptIsOfTheFirst, SocketOfTheAttempt, ChecksInOrder, MismatchIsOfThePin,
                    ConnectionIsTheFirstUsable
<1>12. FailuresAreRight'
  <2>1. PICK n \in Nat : n = Len(failures) + 1  BY <1>5
  <2>2. n \in DOMAIN Offered /\ n <= Len(Offered)  BY <1>3, <1>5, <2>1
  <2>3. Current = Offered[n]  BY <2>1 DEF Current
  <2>4. /\ Describes(Current) /\ Current.pin \in Pins \cup {None}
    BY <2>2, <2>3, OffersAreRows DEF TypeOK
  <2>5. row.id = Current.id /\ row.host = Current.address /\ row.error = error
    <3>1. Head(candidates) = Candidate(Current)  BY <1>3, <1>6 DEF Current
    <3>2. Candidate(Current).id = Current.id  BY DEF Candidate
    <3>. QED  BY <1>3, <1>7, <3>1, <3>2
  <2>6. ASSUME error.kind = "mismatch"
        PROVE  \E pin \in Demanded(Current) : error.expected = pin.of /\ error.got # pin.of
    <3>1. options.pin = PinFor(Candidate(Current))  BY <1>3, OptionsOfTheAttempt DEF TypeOK
    <3>2. /\ options.pin # None /\ normalize_fingerprint(options.pin) # None
          /\ error.expected = normalize_fingerprint(options.pin)
          /\ error.got # error.expected
      BY <1>1, <2>6 DEF RegistryInductive, MismatchIsOfThePin
    <3>3. PICK pin \in Demanded(Current) : pin.of = normalize_fingerprint(options.pin)
      BY <2>4, <3>1, <3>2, PinIsMissed
    <3>. QED  BY <3>2, <3>3
  <2>7. PassedOverRightly(n)'
    <3>1. failures'[n] = row  BY <1>8, <2>1
    <3>2. Demanded(Offered[n])' = Demanded(Current)
      <4>1. PICK e : e = Offered[n]  OBVIOUS
      <4>2. Demanded(e)' = Demanded(e)  BY <1>4
      <4>3. Offered'[n] = e  BY <1>4, <4>1
      <4>4. Demanded(Offered[n])' = Demanded(e)  BY <1>1, <4>1, <4>3 DEF Demanded, arguments
      <4>. QED  BY <2>3, <4>1, <4>4
    <3>3. failures'[n].id = Offered'[n].id /\ failures'[n].host = Offered'[n].address
          /\ failures'[n].error = error
      BY <1>4, <2>3, <2>5, <3>1
    <3>. QED  BY <2>6, <3>2, <3>3 DEF PassedOverRightly
  <2>8. ASSUME NEW i \in DOMAIN failures PROVE i <= Len(Offered) /\ PassedOverRightly(i)'
    <3>1. i <= Len(Offered) /\ PassedOverRightly(i)  BY DEF RegistryInductive, FailuresAreRight
    <3>2. failures'[i] = failures[i]  BY <1>8
    <3>. QED  BY <1>1, <1>4, <3>1, <3>2 DEF PassedOverRightly, Demanded, arguments
  <2>9. \A i \in DOMAIN failures' : i \in DOMAIN failures \/ i = n  BY <1>5, <1>8, <2>1
  <2>. QED  BY <1>4, <2>2, <2>7, <2>8, <2>9 DEF FailuresAreRight
<1>. QED  BY <1>9, <1>10, <1>11, <1>12 DEF RegistryInductive

\* The call returns when a candidate is connected to, or none is left.
LEMMA ReturnPreserves ==
    ASSUME TypeOK, RegistryInductive, AllFailed \/ Succeeds
    PROVE  TypeOK' /\ RegistryInductive'
<1>1. /\ UNCHANGED <<arguments, options, host, socket, error, network, candidates, failures>>
      /\ stage' = "returned"
      /\ \/ stage = "choosing" /\ candidates = <<>> /\ result' = "registry_error"
         \/ stage = "connected" /\ result' = "ok"
  BY DEF AllFailed, Succeeds, Returns
<1>2. TypeOK' /\ ~Attempting'
  BY <1>1 DEF TypeOK, Attempting, arguments, network
<1>3. /\ Offered' = Offered /\ tls' = tls /\ failures' = failures /\ socket' = socket /\ host' = host
      /\ pin_override' = pin_override
  BY <1>1, OffersStay DEF arguments
<1>4. /\ Len(failures) \in Nat /\ Len(candidates) \in Nat
      /\ candidates = <<>> <=> Len(candidates) = 0
      /\ DOMAIN failures = 1..Len(failures)
      /\ DOMAIN Offered = 1..Len(Offered) /\ Len(Offered) \in Nat
      /\ Len(failures) + Len(candidates) = Len(Offered)
  BY <1>1, RowsAreIndexed, OffersAreRows DEF TypeOK, RegistryInductive, WhatIsLeft, Attempting
<1>5. WhatIsLeft' /\ AttemptIsOfTheFirst' /\ SocketOfTheAttempt' /\ ChecksInOrder' /\ MismatchIsOfThePin'
  BY <1>1, <1>2 DEF WhatIsLeft, AttemptIsOfTheFirst, SocketOfTheAttempt, ChecksInOrder,
                    MismatchIsOfThePin
<1>6. FailuresAreRight'
  BY <1>3 DEF RegistryInductive, FailuresAreRight, PassedOverRightly, Demanded
<1>7. \A i \in 1..Len(failures') : i <= Len(Offered') /\ PassedOverRightly(i)'
  BY <1>3, <1>4, <1>6 DEF FailuresAreRight
<1>8. CASE stage = "choosing" /\ candidates = <<>> /\ result' = "registry_error"
  <2>1. socket = None  BY <1>8 DEF RegistryInductive, SocketOfTheAttempt
  <2>2. Len(failures) = Len(Offered)
    <3>1. Len(candidates) = 0  BY <1>4, <1>8
    <3>2. Len(failures) + Len(candidates) = Len(Offered) /\ Len(failures) \in Nat  BY <1>4
    <3>3. Len(failures) + 0 = Len(failures)  BY <3>2
    <3>. QED  BY <3>1, <3>2, <3>3
  <2>3. ConnectionIsTheFirstUsable'
    BY <1>3, <1>7, <1>8, <2>1, <2>2 DEF ConnectionIsTheFirstUsable
  <2>. QED  BY <1>2, <1>5, <1>6, <2>3 DEF RegistryInductive
<1>9. CASE stage = "connected" /\ result' = "ok"
  <2>1. /\ candidates # <<>> /\ host = Current.address
        /\ options = [tls EXCEPT !.pin = PinFor(Candidate(Current))]
        /\ socket \in Sockets /\ Verified(socket.cert) /\ PinHeld /\ socket.timeout = 0
    BY <1>9 DEF Attempting, RegistryInductive, AttemptIsOfTheFirst, SocketOfTheAttempt, ChecksInOrder
  <2>2. Len(failures) + 1 \in DOMAIN Offered /\ Len(failures) < Len(Offered)  BY <1>4, <2>1
  <2>3. Describes(Current) /\ Current.pin \in Pins \cup {None}
    BY <2>2, OffersAreRows DEF Current, TypeOK
  <2>4. options.pin = PinFor(Candidate(Current)) /\ options.server_name = tls.server_name
    BY <2>1, OptionsOfTheAttempt DEF TypeOK
  <2>5. socket.cert \in Certs  BY <2>1, SocketsChange
  <2>6. Satisfies(socket.cert, Demanded(Current))
    BY <2>1, <2>3, <2>4, <2>5, PinIsSatisfied DEF PinHeld
  <2>7. socket.cert \in Anchored /\ OrElse(tls.server_name, host) \in NamesOf(socket.cert)
    BY <2>1, <2>4 DEF Verified, VerifyName, OrElse
  <2>8. Offered'[Len(failures') + 1] = Current  BY <1>3 DEF Current
  <2>9. Demanded(Offered[Len(failures) + 1])' = Demanded(Current)
    BY <1>3, <2>8 DEF Demanded
  <2>10. /\ Len(failures') < Len(Offered')
         /\ host' = Offered'[Len(failures') + 1].address
         /\ Satisfies(socket'.cert, Demanded(Offered[Len(failures) + 1])')
         /\ socket'.cert \in Anchored /\ OrElse(tls'.server_name, host') \in NamesOf(socket'.cert)
         /\ socket'.timeout = 0
    BY <1>3, <2>1, <2>2, <2>6, <2>7, <2>8, <2>9
  <2>11. ConnectionIsTheFirstUsable'
    BY <1>7, <1>9, <2>10 DEF ConnectionIsTheFirstUsable
  <2>. QED  BY <1>2, <1>5, <1>6, <2>11 DEF RegistryInductive
<1>. QED  BY <1>1, <1>8, <1>9

(***************************************************************************)
(* The theorems.                                                           *)
(***************************************************************************)
\* Every step keeps the invariant.
LEMMA NextPreserves ==
    ASSUME TypeOK, RegistryInductive, [Next]_vars
    PROVE  TypeOK' /\ RegistryInductive'
<1>1. CASE Discover  BY <1>1, DiscoverPreserves
<1>2. CASE TryNext   BY <1>2, TryNextPreserves
<1>3. CASE Fallback  BY <1>3, FallbackPreserves
<1>4. CASE AllFailed \/ Succeeds  BY <1>4, ReturnPreserves
<1>5. CASE ConnectStep /\ UNCHANGED <<arguments, candidates, failures, result>>
  <2>1. UNCHANGED Aside  BY <1>5 DEF Aside
  <2>. QED  BY <1>5, <2>1, ConnectingPreserves, HandshakePreserves, CheckPinPreserves DEF ConnectStep
<1>6. CASE stage # "returned" /\ PeerStep /\ UNCHANGED <<arguments, candidates, failures, result>>
  <2>1. UNCHANGED Aside  BY <1>6 DEF Aside
  <2>. QED  BY <1>6, <2>1, PeersPreserve
<1>7. CASE UNCHANGED vars
  <2>1. /\ UNCHANGED <<arguments, options, host, stage, socket, error, peers>>
        /\ UNCHANGED <<candidates, failures, result>>
    BY <1>7 DEF vars, attempt, network, arguments
  <2>2. /\ Offered' = Offered /\ tls' = tls /\ pin_override' = pin_override
        /\ Attempting' = Attempting /\ Current' = Current
    BY <2>1, OffersStay DEF Attempting, Current, arguments
  <2>3. TypeOK'  BY <2>1, <2>2 DEF TypeOK, arguments
  <2>4. WhatIsLeft' /\ SocketOfTheAttempt'
    BY <2>1, <2>2 DEF RegistryInductive, WhatIsLeft, SocketOfTheAttempt
  <2>5. AttemptIsOfTheFirst'
    BY <2>1, <2>2 DEF RegistryInductive, AttemptIsOfTheFirst, PinFor, Candidate
  <2>6. ChecksInOrder' /\ MismatchIsOfThePin'
    BY <2>1 DEF RegistryInductive, ChecksInOrder, MismatchIsOfThePin, Verified, VerifyName, PinHeld
  <2>7. FailuresAreRight'
    BY <2>1, <2>2 DEF RegistryInductive, FailuresAreRight, PassedOverRightly, Demanded
  <2>8. ConnectionIsTheFirstUsable'
    BY <2>1, <2>2 DEF RegistryInductive, ConnectionIsTheFirstUsable, PassedOverRightly, Demanded
  <2>. QED  BY <2>3, <2>4, <2>5, <2>6, <2>7, <2>8 DEF RegistryInductive
<1>. QED  BY <1>1, <1>2, <1>3, <1>4, <1>5, <1>6, <1>7 DEF Next, ClientStep

\* What is left to try, the attempt under way and its socket agree at every step of
\* connect_mirror_from_registry.
THEOREM RegistryInvariantHolds == Spec => [](TypeOK /\ RegistryInductive)
<1>1. Init => TypeOK /\ RegistryInductive  BY InitEstablishes
<1>2. TypeOK /\ RegistryInductive /\ [Next]_vars => (TypeOK /\ RegistryInductive)'
  BY NextPreserves
<1>. QED  BY <1>1, <1>2, PTL DEF Spec

\* The connection that is returned is to the first candidate that could be connected to,
\* verified, and under the pin of highest precedence.
THEOREM FirstUsableIsConnected == Spec => []ConnectionIsTheFirstUsable
<1>1. RegistryInductive => ConnectionIsTheFirstUsable  BY DEF RegistryInductive
<1>. QED  BY <1>1, RegistryInvariantHolds, PTL
=============================================================================
