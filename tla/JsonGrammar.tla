------------------------------ MODULE JsonGrammar ------------------------------
(***************************************************************************)
(* What StrictJson should read: the texts of all JSON documents within its *)
(* limits, each with its meaning.  A document is a tree of scalars, arrays *)
(* <<"array", documents>> and objects <<"object", documents, keys>>.       *)
(***************************************************************************)
EXTENDS StrictJson

RECURSIVE Documents(_, _), Lists(_, _)

\* Documents of n nodes that nest at most d deep, and lists of such documents.
Documents(n, d) ==
    (IF n = 1 THEN {Scalar(token) : token \in Strings \cup Others} ELSE {}) \cup
    (IF n = 0 \/ d = 0 THEN {} ELSE
        {Array(items) : items \in Lists(n - 1, d - 1)} \cup
        UNION {{<<"object", items, keys>> : keys \in [1..Len(items) -> Strings]} :
               items \in Lists(n - 1, d - 1)})

Lists(n, d) ==
    IF n = 0 THEN {<<>>}
    ELSE UNION {{<<first>> \o rest : first \in Documents(k, d), rest \in Lists(n - k, d)} : k \in 1..n}

RECURSIVE TextOf(_), Meaning(_), KeysOnce(_)

Commas(texts) ==
    FoldLeft(LAMBDA all, t : IF all = <<>> THEN t ELSE all \o <<",">> \o t, <<>>, texts)

TextOf(doc) ==
    CASE doc[1] = "scalar" -> <<doc[2]>>
      [] doc[1] = "array"  -> <<"[">> \o Commas([i \in DOMAIN doc[2] |-> TextOf(doc[2][i])]) \o <<"]">>
      [] doc[1] = "object" ->
            <<"{">> \o Commas([i \in DOMAIN doc[2] |-> <<doc[3][i], ":">> \o TextOf(doc[2][i])]) \o <<"}">>

\* The last of several entries with one key counts.
Meaning(doc) ==
    CASE doc[1] = "scalar" -> doc
      [] doc[1] = "array"  -> Array([i \in DOMAIN doc[2] |-> Meaning(doc[2][i])])
      [] doc[1] = "object" ->
            Object({<<doc[3][i], Meaning(doc[2][i])>> :
                    i \in {j \in DOMAIN doc[2] : \A k \in DOMAIN doc[2] : k > j => doc[3][k] # doc[3][j]}})

KeysOnce(doc) ==
    /\ doc[1] = "object" => \A i, j \in DOMAIN doc[3] : doc[3][i] = doc[3][j] => i = j
    /\ doc[1] # "scalar" => \A i \in DOMAIN doc[2] : KeysOnce(doc[2][i])

AllDocuments == UNION {Documents(n, MaxDepth) : n \in 1..MaxNodes}

\* Every text that is accepted, with what it means, and every beginning of one.
Readings(docs) == {<<Append(TextOf(doc), End), Meaning(doc)>> : doc \in docs}

AnyReading    == Readings(AllDocuments)
StrictReading == Readings({doc \in AllDocuments : KeysOnce(doc)})

Beginnings(readings) == UNION {{SubSeq(r[1], 1, k) : k \in 0..Len(r[1])} : r \in readings}

AnyBeginning    == Beginnings(AnyReading)
StrictBeginning == Beginnings(StrictReading)

-----------------------------------------------------------------------------
(***************************************************************************)
(* parse succeeds on the text of every document within the limits, with    *)
(* its meaning, and on nothing else; nor does it give up a text that such  *)
(* a document could still begin with.  No document in which an object has  *)
(* a key twice is accepted when that is asked for: "Strict artifact        *)
(* decoding rejects duplicate/unknown fields".                             *)
(***************************************************************************)
ReadsExactlyTheDocuments ==
    /\ result = "failed" =>
          text \notin IF reject_duplicate_keys THEN StrictBeginning ELSE AnyBeginning
    /\ result = "ok" =>
          <<text, value>> \in IF reject_duplicate_keys THEN StrictReading ELSE AnyReading
=============================================================================
