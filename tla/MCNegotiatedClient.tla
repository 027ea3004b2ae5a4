-------------------------- MODULE MCNegotiatedClient --------------------------
(* NegotiatedClient for TLC: registries with no, one, two and nearly matching *)
(* adapters, both policies, every reply class, and two one- and two-step      *)
(* traces over two states.                                                    *)
EXTENDS NegotiatedClient

Key(d, a, p, v) == [digest |-> d, adapter |-> a, profile |-> p, version |-> v]
TheKey == Key("D", "counter", "rust", "v1")

Near == {Key("E", "counter", "rust", "v1"), Key("D", "other", "rust", "v1"),
         Key("D", "counter", "ocaml", "v1"), Key("D", "counter", "rust", "v0")}

Registries == {<<>>, <<TheKey>>, <<TheKey, TheKey>>}
                  \cup {<<k>> : k \in Near} \cup {<<k, TheKey>> : k \in Near}

Selection(registry, k, policy, fallback, valid, large) ==
    [registry |-> registry, key |-> k, policy |-> policy, fallback |-> fallback,
     valid |-> valid, large |-> large]

SelectionsTried ==
    {Selection(r, TheKey, "require", FALSE, TRUE, FALSE) : r \in Registries}
        \cup {Selection(<<TheKey>>, TheKey, p, f, TRUE, FALSE) :
                 p \in {"require", "prefer"}, f \in BOOLEAN}
        \cup {Selection(<<TheKey>>, TheKey, "require", FALSE, v, l) :
                 v \in BOOLEAN, l \in BOOLEAN}
        \cup {Selection(<<k>>, k, "require", FALSE, TRUE, FALSE) : k \in Near}

Steps(action, value, expected) == [action |-> action, value |-> value, expected |-> expected]
TwoTraces == {<< <<Steps("init", 0, 0), Steps("inc", 1, 1)>>, <<Steps("init", 1, 1)>> >>}

OneOf(status, schema, digest, payload, provenance) ==
    [strict |-> TRUE, schema |-> TRUE, status |-> status, descriptorSchema |-> schema,
     digest |-> digest, payload |-> payload, provenance |-> provenance,
     expected |-> digest, code |-> "refused"]

Members == {m \in {OneOf(status, schema, digest, payload, provenance) :
    status \in {"matched", "mismatch", "unsupported", "resolved", "maybe"},
    schema \in {Absent, DescriptorSchema, "v0"},
    digest \in {Absent, "D", "E"}, payload \in BOOLEAN, provenance \in BOOLEAN} :
    m.provenance => m.status = "unsupported"}

Matched == OneOf("matched", DescriptorSchema, "D", FALSE, TRUE)
Extensions == Members \cup {NoExtension, [Matched EXCEPT !.strict = FALSE],
    [Matched EXCEPT !.schema = FALSE],
    [OneOf("mismatch", Absent, "D", FALSE, FALSE) EXCEPT !.code = ""]}

Replies(registration) ==
    {[kind |-> kind, extension |-> e] : kind \in {"spec_valid", "register_error"}, e \in Extensions}
        \cup {[kind |-> k] : k \in {"spec_invalid", "protocol_error", "job_status"}}

OutOfTurn == {[kind |-> k] : k \in {"malformed", "protocol_error"}}
NoLines == {}
=============================================================================
