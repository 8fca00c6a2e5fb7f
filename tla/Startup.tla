-------------------------------- MODULE Startup --------------------------------
(***************************************************************************)
(* The gateway process from its environment variables to its two servers:  *)
(* main, Config::from_env, wait_for_topics, and the intake of requests by  *)
(* servers that are up.                                                    *)
(***************************************************************************)
EXTENDS Intake

CONSTANTS
    Environments,   \* the environments the process may be started in
    Requests,       \* the requests clients send
    Topics,         \* the topics somebody creates, sooner or later or never
    Deadline,       \* seconds wait_for_topics keeps trying (60)
    FetchTimeout    \* seconds one attempt may take (5)

ASSUME StartupAssumption ==
    /\ Deadline \in Nat /\ FetchTimeout \in Nat
    /\ \A e \in Environments : /\ e.raw \in Seq({e.raw[i] : i \in DOMAIN e.raw})
                               /\ e.default_max_tokens \in Nat
    /\ \A req \in Requests : /\ is_text(req.id) /\ is_text(req.model)
                              /\ req.max_tokens \in Nat \cup {None}

VARIABLES
    env,        \* the environment, fixed when the process starts
    phase,      \* where main is
    elapsed,    \* wait_for_topics: seconds since started_at, kept until main goes on
    topics,     \* the topics the brokers have
    last        \* the last request and what became of it

vars == <<env, phase, elapsed, topics, last>>

Phases == {"config",     \* before Config::from_env
           "waiting",    \* in wait_for_topics
           "connecting", \* creating metrics, producer and consumer
           "web",        \* metrics server and BFF are up; loading TLS files
           "serving",    \* and the gRPC server
           "exited"}     \* main returned an error

NoRequest == [endpoint |-> None]

Init ==
    /\ env \in Environments
    /\ phase = "config" /\ elapsed = 0 /\ topics = {} /\ last = NoRequest

CreateTopic(t) ==
    /\ phase \in {"config", "waiting"} /\ t \notin topics
    /\ topics' = topics \cup {t}
    /\ UNCHANGED <<env, phase, elapsed, last>>

ReadConfig ==
    /\ phase = "config"
    /\ phase' = IF routes(env).ok THEN "waiting" ELSE "exited"
    /\ UNCHANGED <<env, elapsed, topics, last>>

\* The metadata names every topic; the answer may have taken its time.
TopicsFound ==
    /\ phase = "waiting"
    /\ needed_topics(env) \subseteq topics
    /\ phase' = "connecting"
    /\ \E took \in 0 .. FetchTimeout : elapsed' = elapsed + took
    /\ UNCHANGED <<env, topics, last>>

\* A mutated deadline that allows one second more.
timed_out_late(seconds) == seconds > Deadline + 1

\* A mutated deadline that gives up on its last second.
timed_out_early(seconds) == seconds >= Deadline

timed_out(seconds) == seconds > Deadline

\* A mutated loop that takes started_at anew for every attempt.
waited_this_attempt(took) == took

waited(took) == elapsed + took

\* One more attempt, which finds some topic missing or gets no answer: give up,
\* or sleep a second.
KeepWaiting ==
    /\ phase = "waiting"
    /\ \E took \in 0 .. FetchTimeout :
          \/ /\ timed_out(waited(took))
             /\ phase' = "exited" /\ elapsed' = waited(took)
          \/ /\ ~timed_out(waited(took))
             /\ elapsed' = waited(took) + 1 /\ UNCHANGED phase
    /\ UNCHANGED <<env, topics, last>>

\* The clients and the listeners of the web side; each `?` may end the process.
StartWeb ==
    /\ phase = "connecting"
    /\ phase' \in {"web", "exited"} /\ elapsed' = 0
    /\ UNCHANGED <<env, topics, last>>

\* load_server_tls and the gRPC listener, while the web endpoint serves already.
StartGrpc ==
    /\ phase = "web"
    /\ phase' \in {"serving", "exited"}
    /\ UNCHANGED <<env, elapsed, topics, last>>

\* The endpoints keep nothing of a request that this module is about: one shows
\* what any other would get (bound of the model).
Serve(endpoint, req) ==
    /\ last = NoRequest
    /\ last' = [endpoint |-> endpoint, req |-> req,
                answer |-> IF endpoint = "submit" THEN submit(env, req) ELSE infer(env, req)]
    /\ UNCHANGED <<env, phase, elapsed, topics>>

Submit(req) == phase = "serving" /\ Serve("submit", req)
Infer(req) == phase \in {"web", "serving"} /\ Serve("infer", req)

Boot == ReadConfig \/ TopicsFound \/ KeepWaiting \/ StartWeb \/ StartGrpc

Next ==
    \/ Boot
    \/ \E t \in Topics : CreateTopic(t)
    \/ \E req \in Requests : Submit(req) \/ Infer(req)

\* main runs on; nobody has to create a topic or send a request.
Spec == Init /\ [][Next]_vars /\ WF_vars(Boot)

-----------------------------------------------------------------------------

Accepted == last # NoRequest /\ last.answer.outcome = "accepted"

TypeOK ==
    /\ env \in Environments /\ phase \in Phases
    /\ elapsed \in 0 .. Deadline + 1 + FetchTimeout
    /\ topics \subseteq Topics
    /\ last # NoRequest => last.req \in Requests /\ last.endpoint \in {"submit", "infer"}

\* A gateway without its topics gives up, neither before its minute is over nor
\* more than a second's sleep and the attempt after it later, however long each
\* attempt took; nor does it go on with topics that it found any later.  (The
\* deadline is looked at between an attempt and the sleep only: wait_for_topics.)
GivesUpInTime ==
    /\ phase = "waiting" => elapsed <= Deadline + 1
    /\ phase = "connecting" => elapsed <= Deadline + 1 + FetchTimeout
    /\ phase = "exited" =>
          elapsed = 0 \/ elapsed \in Deadline + 1 .. Deadline + 1 + FetchTimeout

\* MODEL_ROUTES means what it says: one bad entry refuses all of it; else a
\* model goes to the topic of its last entry, and the default model, if it has
\* none, to KAFKA_REQUEST_TOPIC.  (parse_model_routes)
RoutesAreTheLastEntries ==
    LET r == routes(env)
        Entries == {i \in DOMAIN env.raw : is_entry(env.raw[i])}
        Of(m) == {i \in Entries : trim(env.raw[i].key) = m}
    IN  /\ r.ok <=> \A i \in Entries : is_valid(env.raw[i])
        /\ r.ok =>
              /\ DOMAIN r.routes = {env.default_model_id} \cup {trim(env.raw[i].key) : i \in Entries}
              /\ \A m \in DOMAIN r.routes :
                    \/ Of(m) = {} /\ r.routes[m] = env.request_topic
                    \/ \E i \in Of(m) : /\ \A j \in Of(m) : j <= i
                                        /\ r.routes[m] = trim(env.raw[i].value)

\* A job is accepted only for a topic that wait_for_topics has seen, whichever
\* endpoint took it, however the model was named, and although the web endpoint
\* is up before the gRPC server: produce_request has a topic and the brokers do.
JobsHaveTopics ==
    Accepted => LET topic == request_topic_for_model(env, last.answer.job.model) IN
                topic # None /\ topic.name \in topics

\* No job that asked for a number of tokens generates more than the limit, after
\* the endpoint and the worker have both normalised the number.  (Zero is the
\* exception, wherever it comes from: infer passes it on and the worker takes 128.)
TokensWithinLimit ==
    (/\ Accepted
     /\ last.req.max_tokens # 0 /\ env.default_max_tokens # 0 /\ max_tokens_limit # 0)
    =>  worker_max_tokens(last.answer.job) <= max_tokens_limit

\* Whoever's request was accepted under an id of its own can cancel it at the
\* same endpoint with the id it sent, however that was padded.
CancelFindsRequest ==
    (Accepted /\ ~is_blank(last.req.id)) =>
        cancel_id(last.endpoint, last.req.id) = last.answer.job.id

\* The two endpoints agree: for texts without white space, a number of tokens
\* within the limit and a prompt within its own, what one makes of a request the
\* other makes of it too, down to the job.
EndpointsAgree ==
    (/\ last # NoRequest
     /\ ~last.req.id.pad /\ ~last.req.model.pad /\ ~last.req.replay
     /\ last.req.prompt \in {"blank", "fits"}
     /\ last.req.max_tokens \in (1 .. max_tokens_limit) \cup {None}
     /\ env.default_max_tokens <= max_tokens_limit)
    => submit(env, last.req) = infer(env, last.req)

\* Starting ends: with both servers up or with an error, also when no topic is
\* ever created or no broker answers.  (wait_for_topics, main)
StartupEnds == <>(phase \in {"serving", "exited"})

=============================================================================
