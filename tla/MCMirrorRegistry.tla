--------------------------- MODULE MCMirrorRegistry ---------------------------
(* MirrorRegistry for TLC: two hosts; two certificates that the CA vouches    *)
(* for, each with a name that the other lacks, and one of another CA.         *)
EXTENDS MirrorRegistry

SubjectNames(cert) ==
    CASE cert = "c1" -> {"h1", "h2"}
      [] cert = "c2" -> {"h2", "mirror"}
      [] OTHER       -> {"h1", "h2", "mirror"}

Pin(cert, written) == [of |-> cert, written |-> written]

Entry(id, address, pin) == [id |-> id, address |-> address, port |-> "valid", pin |-> pin]

Entries ==
    {Entry("a", "h1", None), Entry("b", "h2", None),
     Entry("c", "h1", Pin("c1", "hex")), Entry("d", "h2", Pin("c2", "hex")),
     Entry("e", "h1", Pin("c1", "colons")), Entry("f", "h2", Pin(None, "not_a_string")),
     Entry("g", Blank, None), [Entry("h", "h1", None) EXCEPT !.port = "zero"]}

Answers ==
    {[kind |-> "list", entries |-> entries] : entries \in UNION {[1..n -> Entries] : n \in 0..2}}
    \cup {[kind |-> kind, entries |-> <<>>] : kind \in {"silent", "refused", "no_headers", "status", "not_a_list"}}

Usual == [key |-> "0600", files |-> TRUE, server_name |-> None, pin |-> None, handshake_timeout |-> 1]

Callers ==
    {Usual, [Usual EXCEPT !.server_name = "mirror"], [Usual EXCEPT !.server_name = "not a name"],
     [Usual EXCEPT !.pin = Pin("c1", "colons")], [Usual EXCEPT !.pin = Pin(None, "malformed")],
     [Usual EXCEPT !.key = "0644"], [Usual EXCEPT !.files = FALSE],
     [Usual EXCEPT !.handshake_timeout = 0]}

PinOverrides == {None, Pin("c2", "hex")}
=============================================================================
