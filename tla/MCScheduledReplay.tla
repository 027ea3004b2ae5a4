--------------------------- MODULE MCScheduledReplay ---------------------------
(* ScheduledReplay for TLC: two traces that match the plan, or one that ends  *)
(* before it, one adapter or none, the replies that authorize it or not, and  *)
(* a receipt bound that a long receipt exceeds.                               *)
EXTENDS ScheduledReplay

Step(action, value) == [action |-> action, value |-> value, expected |-> 0]
WholeTraces == << <<Step("init", 0), Step("go", 0)>>, <<Step("init", 0), Step("go", 0)>> >>
ShortTrace == << <<Step("init", 0)>> >>
WholeAndShort == {WholeTraces, ShortTrace}

TheKey == [digest |-> "D", adapter |-> "counter", profile |-> "rust", version |-> "v1"]
OneAdapterOrNone == {[registry |-> r, key |-> TheKey, policy |-> "require",
                  fallback |-> FALSE, valid |-> TRUE, large |-> FALSE] : r \in {<<>>, <<TheKey>>}}

Matched == [strict |-> TRUE, schema |-> TRUE, status |-> "matched",
            descriptorSchema |-> DescriptorSchema, digest |-> "D", payload |-> FALSE,
            provenance |-> FALSE, expected |-> Absent, code |-> ""]

Replies(registration) ==
    {[kind |-> "spec_valid", extension |-> Matched], [kind |-> "spec_valid", extension |-> NoExtension],
     [kind |-> "all_steps_done"]}

OutOfTurn == {[kind |-> "protocol_error"]}
NoLines == {}
=============================================================================
