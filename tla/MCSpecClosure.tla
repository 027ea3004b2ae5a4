----------------------------- MODULE MCSpecClosure -----------------------------
(* SpecClosure for TLC: up to four files in two directories, with every way   *)
(* of finding a module in either, and texts that are written clause by clause *)
(* and read by the scanner.                                                   *)
EXTENDS SpecClosure, ImportScanner

Paths == {"d1", "d2"}
Modules == {"R", "A", "B", "EXTENDS", "INSTANCE", "x"}

\* R, A1 are in d1, A2 and B in d2; a path to a file of the other directory is a link.
Home == [f \in Files |-> IF f \in {"R", "A1"} THEN "d1" ELSE "d2"]

Imports1(names) == [kind |-> "extends", names |-> names, gap |-> <<>>]
Instance(name)  == [kind |-> "instance", name |-> name, gap |-> <<>>]
Gap(lexemes)    == [kind |-> "gap", gap |-> lexemes]

Nested  == <<BlockOpen, "EXTENDS", "B", BlockOpen, BlockEnd, "INSTANCE", "A", BlockEnd>>
Line    == <<LineOpen, BlockOpen, Quote, "INSTANCE", "A", LineEnd>>
Literal == <<Quote, BlockOpen, Escaped, "EXTENDS", LineOpen, "B", Quote>>
Gaps == {<<>>, <<LineEnd>>, Nested, Line, Literal}

Plain == {<<>>, <<Imports1(<<"A">>)>>, <<Instance("B")>>, <<Imports1(<<"A", "B">>)>>,
          <<Imports1(<<"B", "Naturals">>), Instance("A")>>, <<Instance("R")>>}

Clauses ==
    {[kind |-> "extends", names |-> names, gap |-> gap] :
        names \in {<<"A">>, <<"Naturals", "A">>, <<"B", "A", "B">>}, gap \in Gaps \ {Literal}} \cup
    {[kind |-> "instance", name |-> "B", gap |-> gap] : gap \in Gaps \ {Literal}} \cup
    {Gap(gap) : gap \in Gaps} \cup {Gap(<<"x", Comma, "x">>), Gap(<<Nested[1], Other, BlockEnd, Quote, Quote>>)}

Noisy == {<<c>> : c \in Clauses} \cup {<<c, d>> : c, d \in Clauses}

TextsTried == Plain \cup Noisy

\* The first import directory of a link is that of the file it leads to.
Entry(a1, a2, b1, b2) ==
    [p \in Paths \X Modules |->
        CASE p = <<"d1", "R">> -> "R"
          [] p = <<"d1", "A">> -> a1
          [] p = <<"d2", "A">> -> a2
          [] p = <<"d1", "B">> -> b1
          [] p = <<"d2", "B">> -> b2
          [] OTHER -> Absent]

World(root, dirs, entry, texts, readable) ==
    [root |-> root, search |-> dirs[1], library |-> dirs[2], entry |-> entry, dir |-> Home,
     text |-> [f \in Files |-> texts[f]], readable |-> readable]

Searches == {<<{}, {}>>, <<{}, {"d2"}>>, <<{"d2"}, {}>>, <<{"d1"}, {"d2"}>>}

OfText(r, a, b) == [f \in Files |-> CASE f = "R" -> r [] f = "B" -> b [] OTHER -> a]

Graphs ==
    {World("R", dirs, Entry(a1, a2, b1, b2), OfText(r, a, b), readable) :
        dirs \in Searches,
        a1 \in {"A1", "A2", Absent, Dangling, Unresolvable}, a2 \in {"A2", "A1", Absent},
        b1 \in {"B", Absent}, b2 \in {"B", Absent},
        r \in Plain, a \in Plain \ {<<Imports1(<<"A">>)>>}, b \in {<<>>, <<Imports1(<<"A">>)>>},
        readable \in {Files, Files \ {"A2"}}}

\* The root's text varies, everything it names is found.
Texts1 ==
    {World("R", <<{}, {"d2"}>>, Entry("A1", Absent, "B", "B"), OfText(r, <<>>, <<>>), Files) : r \in Noisy}

NoRoot == {World(root, <<{}, {}>>, Entry("A1", Absent, "B", "B"), OfText(<<>>, <<>>, <<>>), Files \ {"R"}) :
             root \in {"R"} \cup NoFile}

WorldsTried == Graphs \cup Texts1 \cup NoRoot

Scanned == [clauses \in TextsTried |-> import_names(Text(clauses))]
Names1(clauses) == Scanned[clauses]

\* The scanner finds what a module declares, in order, whatever comments and
\* strings stand before, after and within its clauses.
ImportsAreDeclared == \A f \in Files : Imports(f) = Declared(world.text[f])
=============================================================================
