-------------------------------- MODULE Intake --------------------------------
(***************************************************************************)
(* What the gateway's configuration makes of its environment, and what the *)
(* two endpoints make of a request before it becomes a job: pure functions *)
(* of config.rs, api/mod.rs, bff.rs, and of the worker's events.py.        *)
(*                                                                         *)
(* A text is a name and whether white space surrounds it; the blank name   *)
(* is the empty string, or only white space.                               *)
(***************************************************************************)
EXTENDS Integers, Sequences

CONSTANTS
    Blank,              \* no name
    Uuid,               \* the name of an id the gateway made up
    None,               \* a field that is not there
    token_topic, control_topic,
    max_tokens_limit,   \* MAX_TOKENS_LIMIT
    WorkerDefault       \* what a worker puts for no max_tokens (128)

ASSUME IntakeAssumption == max_tokens_limit \in Nat /\ WorkerDefault \in Nat \ {0}

is_text(t) == t = [name |-> t.name, pad |-> t.pad] /\ t.pad \in BOOLEAN
trim(t) == [t EXCEPT !.pad = FALSE]
is_blank(t) == t.name = Blank
or_else(t, other) == IF is_blank(t) THEN other ELSE t

-----------------------------------------------------------------------------
(* Config::from_env                                                        *)

\* An entry of MODEL_ROUTES: the text before its first '=' and behind it.
is_entry(e) == e.eq \/ ~is_blank(e.key)
is_valid(e) == e.eq /\ ~is_blank(e.key) /\ ~is_blank(e.value)

\* HashMap: insert, and entry(..).or_insert_with.
insert(map, key, value) == [k \in DOMAIN map \cup {key} |-> IF k = key THEN value ELSE map[k]]
or_insert(map, key, value) == IF key \in DOMAIN map THEN map ELSE insert(map, key, value)

\* A mutated loop in which the first route of a model wins.
insert_route_first_wins(parsed, e) ==
    IF is_valid(e)
    THEN [parsed EXCEPT !.routes = or_insert(@, trim(e.key), trim(e.value))]
    ELSE [parsed EXCEPT !.ok = FALSE]

insert_route(parsed, e) ==
    IF is_valid(e)
    THEN [parsed EXCEPT !.routes = insert(@, trim(e.key), trim(e.value))]
    ELSE [parsed EXCEPT !.ok = FALSE]

\* The loop over the entries that are not empty: what it has after the first n.
parse_entries(raw) ==
    LET parsed[n \in 0 .. Len(raw)] ==
            IF n = 0 THEN [ok |-> TRUE, routes |-> <<>>]
            ELSE IF is_entry(raw[n]) THEN insert_route(parsed[n - 1], raw[n])
            ELSE parsed[n - 1]
    IN  parsed

\* The routes of the entries, and the default model's if none was for it.
parse_model_routes(raw, default_model_id, default_topic) ==
    [parse_entries(raw)[Len(raw)] EXCEPT !.routes = or_insert(@, default_model_id, default_topic)]

routes(env) == parse_model_routes(env.raw, env.default_model_id, env.request_topic)

request_topic_for_model(env, model) ==
    IF model \in DOMAIN routes(env).routes THEN routes(env).routes[model] ELSE None

\* A mutated wait_for_topics that asks for the default model's topic only.
needed_topics_default(env) ==
    {routes(env).routes[env.default_model_id].name, token_topic, control_topic}

\* What wait_for_topics waits for.
needed_topics(env) ==
    {routes(env).routes[m].name : m \in DOMAIN routes(env).routes} \cup {token_topic, control_topic}

-----------------------------------------------------------------------------
(* The endpoints.  A prompt is blank, within MAX_PROMPT_CHARS, within it in  *)
(* characters but not in bytes, or beyond it.                              *)

Prompts == {"blank", "fits", "wide", "long"}

Refused(why) == [outcome |-> why, job |-> None]
Job(id, model, max_tokens) ==
    [outcome |-> "accepted",
     job |-> [id |-> id, model |-> model, max_tokens |-> max_tokens]]

\* proto3 has no absent numbers.
normalize_max_tokens(env, asked) ==
    IF asked \in {None, 0} THEN env.default_max_tokens ELSE asked

\* GatewayService::submit.  A blank id has become a new one by the time the
\* replay looks it up.
submit(env, req) ==
    LET max_tokens == normalize_max_tokens(env, req.max_tokens)
        id == or_else(trim(req.id), [name |-> Uuid, pad |-> FALSE])
        model == or_else(trim(req.model), env.default_model_id)
    IN  IF req.prompt = "blank" THEN Refused("empty prompt")
        ELSE IF req.prompt \in {"wide", "long"} THEN Refused("prompt too long")
        ELSE IF max_tokens > max_tokens_limit THEN Refused("max_tokens")
        ELSE IF req.replay THEN Refused("replay")
        ELSE IF request_topic_for_model(env, model) = None THEN Refused("unknown model")
        ELSE Job(id, model, max_tokens)

\* A mutated infer that takes any number of tokens.
cap_none(n) == n

\* A mutated one whose limit is exclusive.
cap_exclusive(n) == IF n < max_tokens_limit THEN n ELSE max_tokens_limit - 1

\* .min(max_tokens_limit)
cap(n) == IF n < max_tokens_limit THEN n ELSE max_tokens_limit

\* bff::infer.  No length limit, no replay; ids and models as they come.
infer(env, req) ==
    LET max_tokens == cap(IF req.max_tokens = None THEN env.default_max_tokens
                                                   ELSE req.max_tokens)
        id == or_else(req.id, [name |-> Uuid, pad |-> FALSE])
        model == or_else(req.model, env.default_model_id)
    IN  IF req.prompt = "blank" THEN Refused("empty prompt")
        ELSE IF request_topic_for_model(env, model) = None THEN Refused("unknown model")
        ELSE Job(id, model, max_tokens)

\* A mutated Cancel that takes the id as it comes.
cancel_id_raw(endpoint, id) == id

\* The id under which Cancel of an endpoint looks for a request.
cancel_id(endpoint, id) == IF endpoint = "submit" THEN trim(id) ELSE id

\* InferenceJob.from_payload: `or 128`.
worker_max_tokens(job) == IF job.max_tokens = 0 THEN WorkerDefault ELSE job.max_tokens
=============================================================================
