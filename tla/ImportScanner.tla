----------------------------- MODULE ImportScanner -----------------------------
(***************************************************************************)
(* import_names (src/src/spec.rs): the modules that the text of a module   *)
(* names after EXTENDS and INSTANCE, outside strings and comments.         *)
(*                                                                         *)
(* A text is a sequence of lexemes: an identifier, a comma, the opening or *)
(* the closing of a comment or a string, an escaped character, the end of  *)
(* a line, or anything else (Other).                                       *)
(***************************************************************************)
EXTENDS Naturals, Sequences, SequencesExt

CONSTANTS
    Identifiers,    \* that occur in texts; EXTENDS and INSTANCE are among them
    BUILTINS        \* modules that every checker provides

Comma     == ","
LineOpen  == "\\*"
LineEnd   == "\n"
BlockOpen == "(*"
BlockEnd  == "*)"
Quote     == "\""
Escaped   == "\\\""
Other     == "+"

-----------------------------------------------------------------------------
Outside == [mode |-> "code", depth |-> 0, tokens |-> <<>>]

BlockEnds_AtOnce(s) == TRUE
BlockEnds(s) == s.depth = 1

Scan(s, x) ==
    CASE s.mode = "block" ->
            IF x = BlockOpen THEN [s EXCEPT !.depth = @ + 1]
            ELSE IF x # BlockEnd THEN s
            ELSE [s EXCEPT !.depth = @ - 1, !.mode = IF BlockEnds(s) THEN "code" ELSE @]
      [] s.mode = "line" -> IF x = LineEnd THEN [s EXCEPT !.mode = "code"] ELSE s
      [] s.mode = "string" -> IF x = Quote THEN [s EXCEPT !.mode = "code"] ELSE s
      [] s.mode = "code" ->
            IF x = LineOpen THEN [s EXCEPT !.mode = "line"]
            ELSE IF x = BlockOpen THEN [s EXCEPT !.mode = "block", !.depth = 1]
            ELSE IF x \in {Quote, Escaped} THEN [s EXCEPT !.mode = "string"]
            ELSE IF x \in Identifiers \cup {Comma} THEN [s EXCEPT !.tokens = Append(@, x)]
            ELSE s

dependency_tokens(source) == FoldLeft(Scan, Outside, source).tokens

-----------------------------------------------------------------------------
\* A name is expected after EXTENDS, after a comma that follows one, and after
\* INSTANCE; any identifier is taken for it.
Expect(x) == IF x \in {"EXTENDS", "INSTANCE"} THEN x ELSE "nothing"

Take(s, x) ==
    IF s.at \in {"EXTENDS", "INSTANCE"}
    THEN IF x = Comma THEN [s EXCEPT !.at = "nothing"]
         ELSE [names |-> Append(s.names, x),
               at |-> IF s.at = "EXTENDS" THEN "comma" ELSE "nothing"]
    ELSE [s EXCEPT !.at = IF s.at = "comma" /\ x = Comma THEN "EXTENDS" ELSE Expect(x)]

import_names(source) ==
    SelectSeq(FoldLeft(Take, [names |-> <<>>, at |-> "nothing"], dependency_tokens(source)).names,
              LAMBDA name : name \notin BUILTINS)

-----------------------------------------------------------------------------
(***************************************************************************)
(* Reference: a module written clause by clause.  A clause declares what   *)
(* its kind says; a gap (blank, comment or string) declares nothing.       *)
(***************************************************************************)
Declares(clause) ==
    CASE clause.kind = "extends"  -> clause.names
      [] clause.kind = "instance" -> <<clause.name>>
      [] OTHER -> <<>>

\* The gap of an EXTENDS is written after each of its commas.
Written(clause) ==
    CASE clause.kind = "extends" ->
            FlattenSeq([i \in DOMAIN clause.names |->
                (IF i = 1 THEN <<"EXTENDS">> ELSE <<Comma>>) \o clause.gap \o <<clause.names[i]>>])
      [] clause.kind = "instance" -> <<Other, "INSTANCE">> \o clause.gap \o <<clause.name, Other>>
      [] OTHER -> clause.gap

Text(clauses) == FlattenSeq([i \in DOMAIN clauses |-> Written(clauses[i])])

Declared(clauses) ==
    SelectSeq(FlattenSeq([i \in DOMAIN clauses |-> Declares(clauses[i])]),
              LAMBDA name : name \notin BUILTINS)
=============================================================================
