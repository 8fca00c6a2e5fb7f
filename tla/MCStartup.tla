------------------------------- MODULE MCStartup -------------------------------
(***************************************************************************)
(* Small environments and requests for TLC: two models, two request topics.*)
(***************************************************************************)
EXTENDS Startup

T(name) == [name |-> name, pad |-> FALSE]
Padded(name) == [name |-> name, pad |-> TRUE]

Entry(key, value) == [eq |-> TRUE, key |-> key, value |-> value]

\* Padded, repeated, blank, incomplete and malformed entries.
Entries == {Entry(T("m1"), T("t1")), Entry(Padded("m1"), T("t2")),
            Entry(T("m2"), Padded("t2")), Entry(T("m2"), T(Blank)),
            Entry(Padded(Blank), T("t1")),
            [eq |-> FALSE, key |-> T("m1"), value |-> T(Blank)],
            [eq |-> FALSE, key |-> Padded(Blank), value |-> T(Blank)]}

MCEnvironments ==
    [raw : UNION {[1 .. n -> Entries] : n \in 0 .. 2},
     default_model_id : {T("m1"), Padded("m1")},
     request_topic : {T("t1")}, default_max_tokens : {1, 3}]

\* Every model, id and number of tokens; every prompt, also for a replay.
MCRequests ==
    [prompt : {"fits"}, replay : {FALSE},
     model : {T(Blank), T("m1"), Padded("m1"), T("m2")},
     id : {Padded(Blank), T("r1"), Padded("r1")},
     max_tokens : {None, 0, 2, 3}]
    \cup
    [prompt : Prompts, replay : BOOLEAN, model : {T("m1")}, id : {T("r1")},
     max_tokens : {None}]

MCTopics == {"t1", "t2", token_topic, control_topic}
=============================================================================
