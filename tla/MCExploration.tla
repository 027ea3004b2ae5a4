----------------------------- MODULE MCExploration -----------------------------
(* Exploration for TLC: chains of one and two checkpoints with and without    *)
(* preemption, one to three inputs, declarations with one fault each, and     *)
(* samples that go wrong in every way; three actors for the enumeration, a    *)
(* runner used for two explorations, and observed states of several types.    *)
EXTENDS Exploration, CanonicalState

Chain(a, op, checkpoints) == [actor |-> a, operation |-> op, checkpoints |-> checkpoints]

Space(actors, inputs, preemptions, comparison) ==
    [actors |-> actors, inputs |-> inputs, preemptions |-> preemptions,
     comparison |-> comparison, base |-> <<"count">>, instrumentation |-> <<"clock">>]

\* Declared in the wrong order: the enumeration sorts them.
AB == <<Chain(2, 2, <<Done>>), Chain(1, 1, <<"read", Done>>)>>
OnlyA == <<Chain(1, 1, <<Done>>)>>
Sound == Space(AB, <<1>>, 0, FALSE)
SpacesTried == {Sound, Space(AB, <<1>>, 0, TRUE), Space(OnlyA, <<1, 2>>, 0, FALSE)}

Invalid ==
    {Space(<<>>, <<1>>, 0, FALSE), Space(OnlyA, <<>>, 0, FALSE), Space(OnlyA, <<1, 1>>, 0, FALSE),
     Space(OnlyA, <<Bad>>, 0, FALSE), Space(<<Chain(1, 1, <<Unnamed, Done>>)>>, <<1>>, 0, FALSE),
     Space(OnlyA, <<1>>, 9, FALSE),
     Space(<<Chain(1, 1, <<Done>>), Chain(1, 2, <<Done>>)>>, <<1>>, 0, FALSE),
     Space(<<Chain(1, 1, <<Done>>), Chain(2, 1, <<Done>>)>>, <<1>>, 0, FALSE),
     Space(<<Chain(1, 1, <<"read">>)>>, <<1>>, 0, FALSE),
     Space(<<Chain(1, 1, <<Done, Done>>)>>, <<1>>, 0, FALSE),
     Space(<<Chain(1, 1, <<"read", "read", "read", "read", "read", Done>>)>>, <<1>>, 0, FALSE),
     [Sound EXCEPT !.base = <<>>], [Sound EXCEPT !.base = <<"count", "count">>],
     [Sound EXCEPT !.instrumentation = <<"count">>]}

\* Six merges without preemption, thirty without a bound.
ABC == <<Chain(1, 1, <<"read", Done>>), Chain(2, 2, <<"read", Done>>), Chain(3, 3, <<Done>>)>>
Larger == {Space(AB, <<1>>, 1, FALSE), Space(OnlyA, <<1, 2, 3>>, 0, FALSE)} \cup
          {Space(ABC, <<1>>, bound, FALSE) : bound \in {0, 1, 3}}

-----------------------------------------------------------------------------
Num(n)  == <<"int", n>>
Text(s) == <<"str", s>>

\* What the program holds after the first i steps of a merge: the checkpoints of
\* actor 1 passed, as a set that the program lists in no fixed order.
Passed1(shape, i) == SelectSeq(SubSeq(shape, 1, i), LAMBDA x : x.actor = 1)
Held(shape, i) ==
    LET names == [k \in DOMAIN Passed1(shape, i) |-> Text(Passed1(shape, i)[k].checkpoint)]
    IN  <<"set", IF i = Len(shape) THEN Reverse(names) ELSE names>>

Clock(i) == Num(<<"0", "1", "2">>[(i % 3) + 1])

States(shape) ==
    [k \in 1..(Len(shape) + 1) |->
        [after |-> k - 1,
         state |-> [x \in {"count", "clock"} |->
                      IF x = "count" THEN Held(shape, k - 1) ELSE Clock(k)]]]

Good(shape) == [returned |-> TRUE, bound |-> TRUE, cleanup |-> "confirmed", passed |-> TRUE,
                comparison |-> "matched", ordered |-> TRUE, observations |-> States(shape)]

\* One fault each, observations that are misplaced, incomplete or unusable
\* half-way among them, and two faults that are easily confused.
AnySample(shape) ==
    LET good == Good(shape)
        o == good.observations
        Observing(seq) == [good EXCEPT !.observations = seq]
    IN
    {good, Refusal} \cup
    {[good EXCEPT !.comparison = c] : c \in {"none", "step_mismatch", "foreign"}} \cup
    {[good EXCEPT !.cleanup = c, !.passed = FALSE] :
        c \in {"confirmed", "incomplete", "teardown_failed"}} \cup
    {[good EXCEPT !.comparison = "incomplete", !.cleanup = c] : c \in {"confirmed", "incomplete"}} \cup
    {Observing(Tail(o)), Observing([o EXCEPT ![Len(o)].after = 0]),
     Observing([o EXCEPT ![2].state = Restrict(@, {"count"})]),
     Observing([o EXCEPT ![2].state["count"] =
                  <<"map", << <<Num("1"), Num("1")>>, <<Text("1"), Num("1")>> >> >>])} \cup
    {[good EXCEPT !.bound = FALSE], [good EXCEPT !.ordered = FALSE],
     [good EXCEPT !.comparison = "step_mismatch", !.cleanup = "teardown_failed", !.passed = FALSE]}

\* For the types of what is observed.
Typed == Space(OnlyA, <<1>>, 0, FALSE)

AllSpaces == SpacesTried \cup Larger \cup {Typed} \cup Invalid

-----------------------------------------------------------------------------
\* Values of every type with the same content, and one that is listed in another
\* order.  A record whose keys are those of a wire form is read as that form, so
\* none is among them.
Pair(v, w) == <<v, w>>
Values ==
    {Num("1"), Text("1"), <<"null">>, <<"bool", TRUE>>, <<"unserializable", "1">>,
     <<"seq", <<Num("1")>> >>, <<"tuple", <<Num("1")>> >>, <<"set", <<Num("1"), Num("1")>> >>,
     <<"set", <<Num("1")>> >>, <<"variant", "a", Num("1")>>, <<"record", [a |-> Num("1")]>>,
     <<"record", [tag |-> Text("a")]>>,
     <<"map", <<Pair(Num("1"), Num("2")), Pair(Num("2"), Num("1"))>> >>,
     <<"map", <<Pair(Num("2"), Num("1")), Pair(Num("1"), Num("2"))>> >>}

\* States with these values have one canonical form exactly when they are the same.
ASSUME ValuesAssumption ==
    LET Valued(v) == [x \in {"count"} |-> v] IN
    \A v, w \in Values : Canonical(Valued(v)) = Canonical(Valued(w))
                            <=> StateMeaning(Valued(v)) = StateMeaning(Valued(w))

OneValueEach(shape) ==
    {[Good(shape) EXCEPT !.observations =
        [k \in {1, 2} |-> [after |-> k - 1, state |->
             [x \in {"count", "clock"} |-> IF x = "clock" THEN Clock(k) ELSE IF k = 1 THEN v ELSE w]]]]
        : v, w \in Values}

\* The larger spaces are for the enumeration: everything passes in them.
SamplesTried(s, shape) ==
    CASE s \in Larger -> {Good(shape)}
      [] s = Typed    -> OneValueEach(shape)
      [] OTHER        -> AnySample(shape)
=============================================================================
