--------------------------- MODULE MirrorConnection ---------------------------
(***************************************************************************)
(* transport::Transport (src/src/transport.rs): one connection to a mirror *)
(* carrying lines in both directions.  A line is a record with a kind; a   *)
(* line that cannot be read or decoded is one of kind "malformed".         *)
(***************************************************************************)
EXTENDS Naturals, Sequences

CONSTANTS
    TooLong,    \* lines over the 65535 bytes a protocol line may have
    NoAction    \* an action that is not named

VARIABLES
    child,      \* the mirror is a child process (stdio), not a network peer
    link,       \* "open", "closing" (waiting for the child) or "closed"
    toClient,   \* lines written by the mirror and not yet received
    toMirror,   \* lines sent to the mirror and not yet read by it
    mirrorUp

connection == <<child, link, toClient, toMirror, mirrorUp>>

Connected ==
    /\ child \in BOOLEAN
    /\ link = "open" /\ mirrorUp = TRUE
    /\ toClient = <<>> /\ toMirror = <<>>

(***************************************************************************)
(* recv: a line, or an error.  It returns at once on a closed connection   *)
(* and at the end of the stream.                                           *)
(***************************************************************************)
Readable_IgnoresEof == link # "open" \/ toClient # <<>>
Readable == link # "open" \/ toClient # <<>> \/ ~mirrorUp

HasLine == link = "open" /\ toClient # <<>>

Malformed == [kind |-> "malformed"]

Received ==
    IF ~HasLine THEN [kind |-> "transport_closed"]
    ELSE IF Head(toClient).kind = "oversized" THEN Malformed
    ELSE Head(toClient)

\* Of a line that is too long only the beginning is read; the rest is what
\* the next recv would find.
Remaining ==
    IF Head(toClient).kind = "oversized" THEN <<Malformed>> \o Tail(toClient)
    ELSE Tail(toClient)

Consume ==
    /\ Readable
    /\ toClient' = IF HasLine THEN Remaining ELSE toClient
    /\ UNCHANGED <<child, link, toMirror, mirrorUp>>

(***************************************************************************)
(* send: a write to a mirror that is gone may fail or be lost.             *)
(***************************************************************************)
Delivered_Twice(line) == IF line.kind = "report_state" THEN <<line, line>> ELSE <<line>>
Delivered(line) == <<line>>

Send(line) ==
    /\ link = "open" /\ line \notin TooLong
    /\ toMirror' = toMirror \o Delivered(line)
    /\ UNCHANGED <<child, link, toClient, mirrorUp>>

SendFails(line) ==
    /\ link # "open" \/ line \in TooLong \/ ~mirrorUp
    /\ UNCHANGED connection

(***************************************************************************)
(* close: a socket is shut down; a child loses its stdin and is waited     *)
(* for.  Also what dropping the Transport does.                            *)
(***************************************************************************)
Shut == IF child THEN "closing" ELSE "closed"

BeginClose ==
    /\ link = "open"
    /\ link' = Shut
    /\ UNCHANGED <<child, toClient, toMirror, mirrorUp>>

EndClose ==
    /\ link = "closing" /\ ~mirrorUp
    /\ link' = "closed"
    /\ UNCHANGED <<child, toClient, toMirror, mirrorUp>>
=============================================================================
