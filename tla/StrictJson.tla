------------------------------ MODULE StrictJson ------------------------------
(***************************************************************************)
(* json::parse (src/src/json.rs), which reads every line, contract and     *)
(* schedule: the recursive descent as a stack of open arrays and objects.  *)
(*                                                                         *)
(* A text is a sequence of tokens, given out one by one as the parser      *)
(* reads; white space, which it skips before each of them, is left out.    *)
(* Texts over the limit of bytes are refused before any of this.           *)
(***************************************************************************)
EXTENDS Integers, Sequences, SequencesExt

CONSTANTS
    Strings, Others,        \* well-formed strings; numbers, true, false and null
    Misspelt,               \* what is no token: a bad number, literal, string or byte
    MaxDepth, MaxNodes      \* Limits

ASSUME LimitsAreNumbers == MaxDepth \in Nat /\ MaxNodes \in Nat

End == "end of text"
Tokens == Strings \cup Others \cup Misspelt \cup {"{", "}", "[", "]", ",", ":", End}

VARIABLES
    reject_duplicate_keys,
    text,       \* the tokens read
    at,         \* what is looked for next
    nodes,
    frames,     \* open arrays [kind, values] and objects [kind, values, keys, key]
    value,      \* of the whole text
    result      \* "reading", "ok" or "failed"

vars == <<reject_duplicate_keys, text, at, nodes, frames, value, result>>

Scalar(token)   == <<"scalar", token>>
Array(values)   == <<"array", values>>
Object(entries) == <<"object", entries>>

NoValue == <<"none">>

Init ==
    /\ reject_duplicate_keys \in BOOLEAN
    /\ text = <<>> /\ at = "value" /\ nodes = 0 /\ frames = <<>>
    /\ value = NoValue /\ result = "reading"

-----------------------------------------------------------------------------
Fail == result' = "failed" /\ UNCHANGED <<at, nodes, frames, value>>

Goes(where) == at' = where /\ UNCHANGED <<nodes, frames, value, result>>

\* A later entry of an object replaces an earlier one of the same key.
With(frame, v) ==
    IF frame.kind = "array" THEN [frame EXCEPT !.values = Append(@, v)]
    ELSE [frame EXCEPT !.values = {e \in @ : e[1] # frame.key} \cup {<<frame.key, v>>}]

\* A value is complete: it belongs to the innermost of the containers in `open'.
Completes(open, v) ==
    /\ IF open = <<>> THEN frames' = open /\ value' = v /\ at' = "end"
       ELSE frames' = Front(open) \o <<With(Last(open), v)>> /\ at' = "next" /\ UNCHANGED value
    /\ UNCHANGED result

Closes ==
    /\ Completes(Front(frames), IF Last(frames).kind = "array" THEN Array(Last(frames).values)
                                ELSE Object(Last(frames).values))
    /\ UNCHANGED nodes

TooDeep_OffByOne(depth) == depth > MaxDepth
TooDeep(depth) == depth >= MaxDepth

Opens(frame, where) ==
    IF TooDeep(Len(frames)) THEN Fail
    ELSE /\ frames' = Append(frames, frame) /\ at' = where /\ nodes' = nodes + 1
         /\ UNCHANGED <<value, result>>

\* value: it is counted before it is looked at.
Value(token) ==
    IF nodes + 1 > MaxNodes THEN Fail
    ELSE CASE token = "{" -> Opens([kind |-> "object", values |-> {}, keys |-> {}, key |-> ""], "first_key")
           [] token = "[" -> Opens([kind |-> "array", values |-> <<>>], "first_value")
           [] token \in Strings \cup Others -> Completes(frames, Scalar(token)) /\ nodes' = nodes + 1
           [] OTHER -> Fail

\* object: `keys' are those that reject_duplicate_keys has to know.
Key(token) ==
    IF token \notin Strings \/ (reject_duplicate_keys /\ token \in Last(frames).keys) THEN Fail
    ELSE /\ frames' = Front(frames) \o <<[Last(frames) EXCEPT !.keys = @ \cup {token}, !.key = token]>>
         /\ at' = "colon"
         /\ UNCHANGED <<nodes, value, result>>

Closing == IF Last(frames).kind = "array" THEN "]" ELSE "}"

AfterValue(token) ==
    CASE token = ","     -> Goes(IF Last(frames).kind = "array" THEN "value" ELSE "key")
      [] token = Closing -> Closes
      [] OTHER           -> Fail

Reads(token) ==
    \/ at = "value" /\ Value(token)
    \/ at = "first_value" /\ IF token = "]" THEN Closes ELSE Value(token)
    \/ at = "first_key"   /\ IF token = "}" THEN Closes ELSE Key(token)
    \/ at = "key" /\ Key(token)
    \/ at = "colon" /\ IF token = ":" THEN Goes("value") ELSE Fail
    \/ at = "next" /\ AfterValue(token)
    \/ at = "end" /\ IF token = End THEN result' = "ok" /\ UNCHANGED <<at, nodes, frames, value>>
                     ELSE Fail

Next ==
    /\ result = "reading"
    /\ \E token \in Tokens : text' = Append(text, token) /\ Reads(token)
    /\ UNCHANGED reject_duplicate_keys

Spec == Init /\ [][Next]_vars
=============================================================================
