---------------------------- MODULE MirrorRegistry ----------------------------
(***************************************************************************)
(* connect_mirror_from_registry (src/src/registry.rs): the mirrors that a  *)
(* registry names, tried in its order until one can be connected to.       *)
(***************************************************************************)
EXTENDS TlsConnect, Sequences

CONSTANTS
    Blank,          \* an address of white space
    Replies,        \* what a registry may answer: [kind, entries]
    Configured,     \* TlsOptions of callers
    Overrides       \* pin_override

\* A pin as it is written somewhere; it may be of no certificate.
Pins == [of : Certs \cup {None}, written : {"hex", "colons", "malformed", "not_a_string"}]

ASSUME NoneAssumption == None \notin Certs \cup Pins

ASSUME RepliesAssumption ==
    \A r \in Replies :
        /\ Len(r.entries) \in Nat /\ DOMAIN r.entries = 1..Len(r.entries)
        /\ \A i \in DOMAIN r.entries : r.entries[i].pin \in Pins \cup {None}

ASSUME OptionsAssumption ==
    \A t \in Configured : {"pin", "server_name", "handshake_timeout"} \subseteq DOMAIN t

VARIABLES
    registry,       \* its answer
    tls, pin_override,
    candidates,     \* not yet tried
    failures,       \* [id, host, error]
    result          \* None, "ok" or "registry_error"

vars == <<attempt, network, registry, tls, pin_override, candidates, failures, result>>

arguments == <<registry, tls, pin_override>>

Init ==
    /\ registry \in Replies /\ tls \in Configured /\ pin_override \in Overrides
    /\ peers \in [Hosts -> [state : {"up"}, cert : Certs]] /\ changes = 0
    /\ options = tls /\ host = None /\ stage = "discovering" /\ socket = None /\ error = None
    /\ candidates = <<>> /\ failures = <<>> /\ result = None

-----------------------------------------------------------------------------
(***************************************************************************)
(* discover_mirrors.                                                       *)
(***************************************************************************)
\* Unlike a configured pin, one with colons is malformed here.
normalize_pin(pin) == IF pin.written = "hex" THEN pin.of ELSE None

\* parse_entry: an entry without a usable address and port, or with a pin that
\* is not one, is dropped.
Describes(entry) ==
    /\ entry.address \in Hosts /\ entry.port = "valid"
    /\ entry.pin # None => entry.pin.written # "not_a_string" /\ normalize_pin(entry.pin) # None

Candidate(entry) ==
    [id |-> entry.id, host |-> entry.address,
     cert_sha256 |-> IF entry.pin = None THEN None
                     ELSE [of |-> normalize_pin(entry.pin), written |-> "hex"]]

\* The entries that describe a mirror, in their order.
Usable(entries) ==
    LET among[n \in 0..Len(entries)] ==
            IF n = 0 THEN <<>>
            ELSE IF Describes(entries[n]) THEN Append(among[n - 1], entries[n])
            ELSE among[n - 1]
    IN  among[Len(entries)]

Described(entries) == [i \in DOMAIN Usable(entries) |-> Candidate(Usable(entries)[i])]

Returns(r) == stage' = "returned" /\ result' = r

(***************************************************************************)
(* A registry that refuses, breaks off, answers with an error or with      *)
(* something that is not a list names nobody.  The answer is read to the   *)
(* end of the connection, however long that takes.                         *)
(***************************************************************************)
Discover ==
    /\ stage = "discovering" /\ registry.kind # "silent"
    /\ candidates' = IF registry.kind = "list" THEN Described(registry.entries) ELSE <<>>
    /\ IF candidates' = <<>> THEN Returns("registry_error")
       ELSE stage' = "choosing" /\ UNCHANGED result
    /\ UNCHANGED <<arguments, options, host, socket, error, network, failures>>

-----------------------------------------------------------------------------
OrElse(pin, other) == IF pin # None THEN pin ELSE other

\* The options of one candidate are made from those of the caller.
PinFor_CarriedOver(candidate) ==
    OrElse(pin_override, OrElse(options.pin, candidate.cert_sha256))
PinFor(candidate) ==
    OrElse(pin_override, OrElse(tls.pin, candidate.cert_sha256))

TryNext ==
    /\ stage = "choosing" /\ candidates # <<>>
    /\ host' = Head(candidates).host
    /\ options' = [tls EXCEPT !.pin = PinFor(Head(candidates))]
    /\ stage' = "preparing"
    /\ UNCHANGED <<arguments, socket, error, network, candidates, failures, result>>

Fallback ==
    /\ stage = "failed"
    /\ failures' = Append(failures, [id |-> Head(candidates).id, host |-> host, error |-> error])
    /\ candidates' = Tail(candidates)
    /\ stage' = "choosing"
    /\ UNCHANGED <<arguments, options, host, socket, error, network, result>>

AllFailed ==
    /\ stage = "choosing" /\ candidates = <<>>
    /\ Returns("registry_error")
    /\ UNCHANGED <<arguments, options, host, socket, error, network, candidates, failures>>

Succeeds ==
    /\ stage = "connected"
    /\ Returns("ok")
    /\ UNCHANGED <<arguments, options, host, socket, error, network, candidates, failures>>

ClientStep ==
    \/ Discover \/ TryNext \/ Fallback \/ AllFailed \/ Succeeds
    \/ ConnectStep /\ UNCHANGED <<arguments, candidates, failures, result>>

Next == \/ ClientStep
        \/ stage # "returned" /\ PeerStep /\ UNCHANGED <<arguments, candidates, failures, result>>

Spec == Init /\ [][Next]_vars /\ WF_vars(ClientStep)

-----------------------------------------------------------------------------
\* The entries of the registry's answer that name a mirror, in order.
Offered == IF registry.kind = "list" THEN Usable(registry.entries) ELSE <<>>

\* "pin precedence is pin_override, then TlsOptions.pin, then candidate cert-sha256."
Demanded(entry) ==
    CASE pin_override # None -> {pin_override}
      [] pin_override = None /\ tls.pin # None -> {tls.pin}
      [] OTHER -> {entry.pin} \ {None}

Satisfies(cert, pins) == \A pin \in pins : pin.written # "malformed" /\ pin.of = cert

\* A candidate is passed over for a reason of its own: a certificate is refused
\* only if the pin in force for that candidate is another's.
PassedOverRightly(i) ==
    /\ failures[i].id = Offered[i].id /\ failures[i].host = Offered[i].address
    /\ failures[i].error.kind = "mismatch" =>
          \E pin \in Demanded(Offered[i]) :
              failures[i].error.expected = pin.of /\ failures[i].error.got # pin.of

(***************************************************************************)
(* The connection that is returned is to the first candidate, in the order *)
(* of the registry, that could be connected to: its certificate is one     *)
(* that the CA vouches for, under the name that was asked for, and has the *)
(* fingerprint that the pin of highest precedence demands, whatever the    *)
(* candidates before it were advertised with and however the peers changed *)
(* in between; and no timeout is left on it.  An error is returned only    *)
(* when every candidate was tried.                                         *)
(***************************************************************************)
ConnectionIsTheFirstUsable ==
    stage = "returned" =>
        /\ \A i \in 1..Len(failures) : i <= Len(Offered) /\ PassedOverRightly(i)
        /\ result = "registry_error" => Len(failures) = Len(Offered) /\ socket = None
        /\ result = "ok" =>
              /\ Len(failures) < Len(Offered)
              /\ LET entry == Offered[Len(failures) + 1] IN
                 /\ host = entry.address
                 /\ Satisfies(socket.cert, Demanded(entry))
                 /\ socket.cert \in Anchored
                 /\ OrElse(tls.server_name, host) \in NamesOf(socket.cert)
                 /\ socket.timeout = 0

\* Unless the registry neither answers nor goes away, the call returns: peers that
\* fall silent in the handshake are left by its timeout.
ConnectReturns == registry.kind # "silent" ~> stage = "returned"
=============================================================================
