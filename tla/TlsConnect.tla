------------------------------ MODULE TlsConnect ------------------------------
(***************************************************************************)
(* connect_tls_mirror (src/src/transport.rs): one attempt to reach a       *)
(* mirror over TLS, against peers that are restarted, with other           *)
(* certificates, fall silent or go away while it is under way.             *)
(***************************************************************************)
EXTENDS Naturals

CONSTANTS
    None,
    Hosts, Certs,
    Names,              \* what a certificate may be valid for, addresses included
    ServerNames,        \* the names that rustls accepts as identities
    Anchored,           \* the certificates that the configured CA vouches for
    NamesOf(_),         \* the subject alternative names of a certificate
    Flights,            \* reads that a handshake takes
    MaxPeerChanges      \* bound on what happens to peers during a call

ASSUME HostsAreNames == Hosts \cup ServerNames \subseteq Names

VARIABLES
    options,    \* TlsOptions: key, files, server_name, pin, handshake_timeout
    host,       \* the host of the attempt
    stage,
    socket,     \* None, or [cert, reads, timeout, up]: the peer's certificate,
                \* what has been read, the read timeout, and whether the peer still has it
    error,      \* of the last attempt: [kind, expected, got]
    peers,      \* what listens on each host: [state, cert]
    changes

attempt == <<options, host, stage, socket, error>>
network == <<peers, changes>>

-----------------------------------------------------------------------------
\* A pin is the fingerprint of a certificate, in hexadecimal, perhaps with colons,
\* or malformed.
normalize_fingerprint(pin) == IF pin.written = "malformed" THEN None ELSE pin.of

\* A failed attempt drops its socket.
Fails(kind, expected, got) ==
    /\ error' = [kind |-> kind, expected |-> expected, got |-> got]
    /\ stage' = "failed" /\ socket' = None
    /\ UNCHANGED <<options, host, network>>

FailsWith(kind) == Fails(kind, None, None)

VerifyName == IF options.server_name # None THEN options.server_name ELSE host

(***************************************************************************)
(* The key's mode, the files, the name: nothing leaves the machine if one  *)
(* of them will not do.                                                    *)
(***************************************************************************)
Prepare ==
    /\ stage = "preparing"
    /\ IF options.key # "0600" THEN FailsWith("argument")
       ELSE IF ~options.files THEN FailsWith("tls")
       ELSE IF VerifyName \notin ServerNames THEN FailsWith("argument")
       ELSE stage' = "connecting" /\ UNCHANGED <<options, host, socket, error, network>>

ReadTimeout_Never == 0
ReadTimeout == options.handshake_timeout

\* A zero timeout is one that a socket does not accept.
Connect ==
    /\ stage = "connecting"
    /\ IF peers[host].state = "down" \/ options.handshake_timeout = 0 THEN FailsWith("io")
       ELSE /\ socket' = [cert |-> peers[host].cert, reads |-> 0, timeout |-> ReadTimeout, up |-> TRUE]
            /\ stage' = "handshaking"
            /\ UNCHANGED <<options, host, error, network>>

Verified(cert) == cert \in Anchored /\ VerifyName \in NamesOf(cert)

HandshakeReads ==
    /\ stage = "handshaking" /\ socket.up /\ peers[host].state = "up"
    /\ IF socket.reads + 1 < Flights THEN
          /\ socket' = [socket EXCEPT !.reads = @ + 1]
          /\ UNCHANGED <<options, host, stage, error, network>>
       ELSE IF ~Verified(socket.cert) THEN FailsWith("tls")
       ELSE /\ socket' = [socket EXCEPT !.reads = @ + 1]
            /\ stage' = "pinning"
            /\ UNCHANGED <<options, host, error, network>>

\* The peer has closed the connection, or says nothing for too long.
HandshakeFails ==
    /\ stage = "handshaking"
    /\ ~socket.up \/ socket.timeout # 0
    /\ FailsWith("tls")

\* The timeouts are lifted before the pin is compared.
CheckPin ==
    /\ stage = "pinning"
    /\ IF options.pin = None \/ normalize_fingerprint(options.pin) = socket.cert THEN
          /\ stage' = "connected" /\ socket' = [socket EXCEPT !.timeout = 0]
          /\ UNCHANGED <<options, host, error, network>>
       ELSE IF normalize_fingerprint(options.pin) = None THEN FailsWith("argument")
       ELSE Fails("mismatch", normalize_fingerprint(options.pin), socket.cert)

ConnectStep == Prepare \/ Connect \/ HandshakeReads \/ HandshakeFails \/ CheckPin

-----------------------------------------------------------------------------
(***************************************************************************)
(* The peers.  What is restarted or stopped loses its connections.         *)
(***************************************************************************)
Becomes(h, peer) ==
    /\ changes < MaxPeerChanges /\ changes' = changes + 1
    /\ peer # peers[h] /\ peers' = [peers EXCEPT ![h] = peer]
    /\ socket' = IF socket # None /\ h = host /\ peer.state # "silent"
                 THEN [socket EXCEPT !.up = FALSE] ELSE socket
    /\ UNCHANGED <<options, host, stage, error>>

PeerStep ==
    \E h \in Hosts :
        \/ Becomes(h, [peers[h] EXCEPT !.state = "down"])
        \/ Becomes(h, [peers[h] EXCEPT !.state = "silent"])
        \/ \E cert \in Certs : Becomes(h, [state |-> "up", cert |-> cert])
=============================================================================
