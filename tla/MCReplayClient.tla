---------------------------- MODULE MCReplayClient ----------------------------
(* ReplayClient for TLC: a counter replayed over two lists of traces, some of *)
(* a single state, by computers that are right, that carry the state over     *)
(* from one trace to the next, that ignore the parameters, that panic, or     *)
(* that serve preset states, wrong at the first step of a trace or later.     *)
EXTENDS ReplayClient

Step(action, value, expected) == [action |-> action, value |-> value, expected |-> expected]

Trace1 == <<Step("init", 0, 0), Step("add", 1, 1), Step("sub", 1, 0), Step("add", 2, 2)>>
Trace2 == <<Step("init", 1, 1), Step("add", 1, 2)>>
Short(value) == <<Step("init", value, value)>>
TracesTried == { <<Trace1, Trace2>>, <<Trace2, Short(0), Short(2)>> }

Value(prev) == IF prev = Empty THEN 0 ELSE prev

Count(action, params, prev) ==
    CASE action = "init" -> params + Value(prev)
      [] action = "add" -> prev + params
      [] action = "sub" -> prev - params

Presets == [enough |-> <<0, 1, 0, 2, 1, 2>>, short |-> <<0, 1, 0>>, wrong |-> <<0, 1, 1, 2, 1, 2>>,
            second |-> <<0, 1, 0, 2, 0>>, third |-> <<1, 2, 0, 1>>]

Computed(name, action, params, prev, n) ==
    CASE name = "right" -> Count(action, params, prev)
      [] name = "by_ones" -> Count(action, IF action = "init" THEN params ELSE 1, prev)
      [] name = "no_sub" -> IF action = "sub" THEN Panic ELSE Count(action, params, prev)
      [] name = "huge" -> IF action = "sub" THEN 99 ELSE Count(action, params, prev)
      [] OTHER -> IF n < Len(Presets[name]) THEN Presets[name][n + 1] ELSE Panic

Names == {"right", "by_ones", "no_sub", "huge", "enough", "short", "wrong", "second", "third"}

Replies(registration) ==
    {[kind |-> k] : k \in {"register_error", "protocol_error"} \cup
        IF registration.kind = "register_trace_gen" THEN {"gen_traces_done"}
        ELSE {"spec_valid", "spec_invalid"}}

OutOfTurn == {[kind |-> k] : k \in {"malformed", "protocol_error", "spec_invalid",
                                    "spec_valid", "gen_traces_done", "job_status"}}

LongLines == {[kind |-> "report_state", value |-> 99]}
=============================================================================
