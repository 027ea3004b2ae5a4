----------------------------- MODULE CanonicalState -----------------------------
(***************************************************************************)
(* The forms of an observed state: the typed values of the protocol, their *)
(* JSON in a receipt (encode_value and walk, src/src/protocol.rs), and the *)
(* canonical form by which an exploration tells states apart               *)
(* (canonical_state, src/src/schedule_exploration.rs).                     *)
(*                                                                         *)
(* Values and JSON are tagged tuples.  An integer is its decimal text, as  *)
(* it is in a "#bigint"; an object and a record are functions from their   *)
(* keys; the pairs of a map are listed.  Of the bounds of canonical_state  *)
(* those on the structure are here; the one on the length of its text, one *)
(* megabyte, is left out, since the text is not spelled out.               *)
(***************************************************************************)
EXTENDS Integers, Sequences, FiniteSets, SequencesExt, FiniteSetsExt

CONSTANTS
    MaxDepth, MaxNodes,   \* the structure bound of canonical_value
    Decimals              \* texts that parse as an integer

Map(op(_), items) == [i \in DOMAIN items |-> op(items[i])]

Malformed == <<"malformed">>
AnyMalformed(items) == \E i \in DOMAIN items : items[i] = Malformed

-----------------------------------------------------------------------------
Object1(key, json) == <<"object", [k \in {key} |-> json]>>

RECURSIVE encode_value(_)
encode_value(v) ==
    CASE v[1] = "int"     -> Object1("#bigint", <<"string", v[2]>>)
      [] v[1] = "bool"    -> v
      [] v[1] = "str"     -> <<"string", v[2]>>
      [] v[1] = "set"     -> Object1("#set", <<"array", Map(encode_value, v[2])>>)
      [] v[1] = "seq"     -> <<"array", Map(encode_value, v[2])>>
      [] v[1] = "tuple"   -> Object1("#tup", <<"array", Map(encode_value, v[2])>>)
      [] v[1] = "map"     -> Object1("#map", <<"array",
                                [i \in DOMAIN v[2] |-> <<"array", Map(encode_value, v[2][i])>>]>>)
      [] v[1] = "record"  -> <<"object", Map(encode_value, v[2])>>
      [] v[1] = "variant" -> <<"object", [k \in {"tag", "value"} |->
                                IF k = "tag" THEN <<"string", v[2]>> ELSE encode_value(v[3])]>>
      [] v[1] = "unserializable" -> Object1("#unserializable", <<"string", v[2]>>)
      [] v[1] = "null"    -> v

\* Some part is malformed: so is the whole.
Whole(kind, items) == IF AnyMalformed(items) THEN Malformed ELSE <<kind, items>>

RECURSIVE walk(_)
walk(j) ==
    IF j[1] \in {"null", "bool"} THEN j
    ELSE IF j[1] = "string" THEN <<"str", j[2]>>
    ELSE IF j[1] = "number" THEN <<"int", j[2]>>
    ELSE IF j[1] = "array" THEN Whole("seq", Map(walk, j[2]))
    ELSE LET obj == j[2]
             Only(key, kind) == DOMAIN obj = {key} /\ obj[key][1] = kind
         IN
         IF Only("#bigint", "string")
         THEN LET raw == obj["#bigint"][2] IN
              IF raw = "" THEN <<"null">>
              ELSE IF raw \in Decimals THEN <<"int", raw>> ELSE Malformed
         ELSE IF Only("#tup", "array") THEN Whole("tuple", Map(walk, obj["#tup"][2]))
         ELSE IF Only("#set", "array") THEN Whole("set", Map(walk, obj["#set"][2]))
         ELSE IF Only("#map", "array")
         THEN LET entries == obj["#map"][2]
                  Pair(e) == e[1] = "array" /\ Len(e[2]) = 2
              IN  IF \A i \in DOMAIN entries :
                        Pair(entries[i]) /\ ~AnyMalformed(Map(walk, entries[i][2]))
                  THEN <<"map", [i \in DOMAIN entries |-> Map(walk, entries[i][2])]>>
                  ELSE Malformed
         ELSE IF Only("#unserializable", "string") THEN <<"unserializable", obj["#unserializable"][2]>>
         ELSE IF DOMAIN obj = {"tag", "value"}
         THEN IF obj["tag"][1] = "string" /\ walk(obj["value"]) # Malformed
              THEN <<"variant", obj["tag"][2], walk(obj["value"])>>
              ELSE Malformed
         ELSE Whole("record", Map(walk, obj))

-----------------------------------------------------------------------------
\* Values directly below a value.
Children(v) ==
    CASE v[1] = "variant" -> {v[3]}
      [] v[1] \in {"record", "seq", "tuple", "set"} -> {v[2][k] : k \in DOMAIN v[2]}
      [] v[1] = "map" -> UNION {{p[1], p[2]} : p \in ToSet(v[2])}
      [] OTHER -> {}

RECURSIVE Depth(_), Nodes(_)
Depth(v) == IF Children(v) = {} THEN 0 ELSE 1 + Max({Depth(c) : c \in Children(v)})

\* Counted as often as canonical_value is called.
Nodes(v) ==
    1 + (CASE v[1] = "variant" -> Nodes(v[3])
           [] v[1] \in {"record", "seq", "tuple", "set"} ->
                MapThenSumSet(LAMBDA k : Nodes(v[2][k]), DOMAIN v[2])
           [] v[1] = "map" ->
                MapThenSumSet(LAMBDA i : Nodes(v[2][i][1]) + Nodes(v[2][i][2]), DOMAIN v[2])
           [] OTHER -> 0)

\* Keys of a map are all integers or all strings.
SoundKeys(pairs) ==
    \E kind \in {"int", "str"} : \A i \in DOMAIN pairs : pairs[i][1][1] = kind

RECURSIVE canonical_value(_)
canonical_value(v) ==
    CASE v[1] = "variant" ->
            IF canonical_value(v[3]) = Malformed THEN Malformed
            ELSE <<"variant", v[2], canonical_value(v[3])>>
      [] v[1] \in {"record", "seq", "tuple"} -> Whole(v[1], Map(canonical_value, v[2]))
      [] v[1] = "set" ->
            LET items == Map(canonical_value, v[2]) IN
            IF AnyMalformed(items) THEN Malformed ELSE <<"set", ToSet(items)>>
      [] v[1] = "map" ->
            LET keys == [i \in DOMAIN v[2] |-> canonical_value(v[2][i][1])]
                held == [i \in DOMAIN v[2] |-> canonical_value(v[2][i][2])]
            IN  IF SoundKeys(v[2]) /\ IsInjective(keys) /\ ~AnyMalformed(held)
                THEN <<"map", {<<keys[i], held[i]>> : i \in DOMAIN keys}>>
                ELSE Malformed
      [] OTHER -> v

Max0(S) == Max(S \cup {0})

canonical_state(state) ==
    LET fields == Map(canonical_value, state) IN
    IF \/ Max0({Depth(state[x]) : x \in DOMAIN state}) > MaxDepth
       \/ MapThenSumSet(LAMBDA x : Nodes(state[x]), DOMAIN state) > MaxNodes
       \/ AnyMalformed(fields)
    THEN Malformed ELSE <<"state", fields>>

\* What an exploration makes of a state that the program observed and encoded.
Canonical(state) ==
    LET received == Map(LAMBDA v : walk(encode_value(v)), state) IN
    IF AnyMalformed(received) THEN Malformed ELSE canonical_state(received)

-----------------------------------------------------------------------------
\* Reference: what a value means, whatever the order its elements are listed in.
RECURSIVE Meaning(_)
Meaning(v) ==
    CASE v[1] = "variant" -> <<"variant", v[2], Meaning(v[3])>>
      [] v[1] \in {"record", "seq", "tuple"} -> <<v[1], Map(Meaning, v[2])>>
      [] v[1] = "set" -> <<"set", {Meaning(c) : c \in Children(v)}>>
      [] v[1] = "map" -> <<"map", {<<Meaning(p[1]), Meaning(p[2])>> : p \in ToSet(v[2])}>>
      [] OTHER -> v

StateMeaning(state) == Map(Meaning, state)
=============================================================================
