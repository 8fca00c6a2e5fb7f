----------------------------- MODULE StartupProofs -----------------------------
(***************************************************************************)
(* What the gateway's start and intake keep for every environment, request *)
(* and set of topics.                                                      *)
(***************************************************************************)
EXTENDS Startup, TLAPS, WellFoundedInduction

Endpoint == {"submit", "infer"}
Answer(endpoint, req) == IF endpoint = "submit" THEN submit(env, req) ELSE infer(env, req)

\* A process that waits is within a second of its deadline; one that ended was past
\* it, unless it ended for another reason.
WaitOK ==
    /\ phase \in {"config", "web", "serving"} => elapsed = 0
    /\ phase = "waiting" => elapsed <= Deadline + 1
    /\ phase = "exited" => elapsed = 0 \/ elapsed > Deadline
\* The brokers have the topics once main is past wait_for_topics, and the last answer
\* is that of the endpoint, given by servers that were past it.
TopicsSeen == phase \in {"connecting", "web", "serving"} => needed_topics(env) \subseteq topics
LastOK ==
    \/ last = NoRequest
    \/ /\ last.endpoint \in Endpoint /\ last.req \in Requests
       /\ last.answer = Answer(last.endpoint, last.req)
       /\ needed_topics(env) \subseteq topics

IInv == TypeOK /\ WaitOK /\ TopicsSeen /\ LastOK

LEMMA InitKeeps == ASSUME StartupAssumption, Init PROVE IInv
<1>1. TypeOK
  BY DEF StartupAssumption, Init, TypeOK, Phases
<1>2. WaitOK /\ TopicsSeen /\ LastOK
  BY DEF StartupAssumption, Init, WaitOK, TopicsSeen, LastOK
<1> QED BY <1>1, <1>2 DEF IInv

LEMMA BootKeeps == ASSUME StartupAssumption, IInv, Boot PROVE IInv'
<1>0. TypeOK /\ WaitOK /\ TopicsSeen /\ LastOK /\ env' = env /\ topics' = topics /\ last' = last
  BY DEF IInv, Boot, ReadConfig, TopicsFound, KeepWaiting, StartWeb, StartGrpc
<1>1. phase' \in Phases
  BY <1>0 DEF Boot, ReadConfig, TopicsFound, KeepWaiting, StartWeb, StartGrpc, TypeOK, Phases
<1>2. elapsed' \in 0 .. Deadline + 1 + FetchTimeout /\ WaitOK'
  <2> USE <1>0 DEF TypeOK, WaitOK, StartupAssumption
  <2>1. CASE TopicsFound
    <3>1. PICK took \in 0 .. FetchTimeout : elapsed' = elapsed + took
      BY <2>1 DEF TopicsFound
    <3> QED BY <2>1, <3>1 DEF TopicsFound
  <2>2. CASE KeepWaiting
    <3>1. PICK took \in 0 .. FetchTimeout :
              \/ timed_out(waited(took)) /\ phase' = "exited" /\ elapsed' = waited(took)
              \/ ~timed_out(waited(took)) /\ phase' = phase /\ elapsed' = waited(took) + 1
      BY <2>2 DEF KeepWaiting
    <3> QED BY <2>2, <3>1 DEF KeepWaiting, timed_out, waited
  <2>3. CASE ReadConfig
    BY <2>3 DEF ReadConfig
  <2>4. CASE StartWeb \/ StartGrpc
    BY <2>4 DEF StartWeb, StartGrpc
  <2> QED BY <2>1, <2>2, <2>3, <2>4 DEF Boot
<1>3. TypeOK'
  BY <1>0, <1>1, <1>2 DEF TypeOK
<1>4. TopicsSeen'
  <2>1. CASE TopicsFound
    BY <1>0, <2>1 DEF TopicsFound, TopicsSeen
  <2>2. CASE StartWeb \/ StartGrpc
    BY <1>0, <2>2 DEF StartWeb, StartGrpc, TopicsSeen
  <2>3. CASE ReadConfig \/ KeepWaiting
    BY <1>0, <2>3 DEF ReadConfig, KeepWaiting, TopicsSeen
  <2> QED BY <2>1, <2>2, <2>3 DEF Boot
<1>5. LastOK'
  BY <1>0 DEF LastOK, Answer
<1> QED BY <1>2, <1>3, <1>4, <1>5 DEF IInv

LEMMA ServeKeeps ==
    ASSUME StartupAssumption, IInv, NEW req \in Requests, Submit(req) \/ Infer(req)
    PROVE  IInv'
<1>0. TypeOK /\ WaitOK /\ TopicsSeen /\ phase \in {"web", "serving"} /\ UNCHANGED <<env, phase, elapsed, topics>>
  BY DEF IInv, Submit, Infer, Serve
<1>1. PICK e \in Endpoint : Serve(e, req)
  BY DEF Submit, Infer, Endpoint
<1>2. PICK answer : /\ answer = Answer(e, req)
                    /\ last' = [endpoint |-> e, req |-> req, answer |-> answer]
  BY <1>1 DEF Serve, Answer
<1>3. last'.endpoint = e /\ last'.req = req /\ last'.answer = answer
  BY <1>2
<1>4. TypeOK'
  BY <1>0, <1>3 DEF TypeOK, Endpoint
<1>5. WaitOK' /\ TopicsSeen' /\ LastOK'
  BY <1>0, <1>2, <1>3 DEF WaitOK, TopicsSeen, LastOK, Answer
<1> QED BY <1>4, <1>5 DEF IInv

LEMMA StepKeeps == ASSUME StartupAssumption, IInv, [Next]_vars PROVE IInv'
<1>1. ASSUME NEW t \in Topics, CreateTopic(t) PROVE IInv'
  <2>1. /\ UNCHANGED <<env, phase, elapsed, last>> /\ topics' = topics \cup {t}
    BY <1>1 DEF CreateTopic
  <2>2. TypeOK' /\ WaitOK' /\ TopicsSeen' /\ LastOK'
    BY <2>1 DEF IInv, WaitOK, TypeOK, TopicsSeen, LastOK, Answer
  <2> QED BY <2>2 DEF IInv
<1>2. CASE UNCHANGED vars
  <2>1. TypeOK' /\ WaitOK' /\ TopicsSeen' /\ LastOK'
    BY <1>2 DEF IInv, vars, WaitOK, TypeOK, TopicsSeen, LastOK, Answer
  <2> QED BY <2>1 DEF IInv
<1> QED BY <1>1, <1>2, BootKeeps, ServeKeeps DEF Next

LEMMA AlwaysIInv == Spec => []IInv
<1>1. Init => IInv
  BY StartupAssumption, InitKeeps
<1>2. IInv /\ [Next]_vars => IInv'
  BY StartupAssumption, StepKeeps
<1> QED BY <1>1, <1>2, PTL DEF Spec

\* Every variable keeps its type, the seconds waited within a last sleep and a last
\* attempt of the deadline.
THEOREM StartupTyped == Spec => []TypeOK
<1>1. IInv => TypeOK
  BY DEF IInv
<1> QED BY <1>1, AlwaysIInv, PTL

\* A gateway without its topics gives up after its deadline, and no later than a
\* sleep and an attempt after it, whatever the deadline and the attempts' timeout.
THEOREM StartupGivesUpInTime == Spec => []GivesUpInTime
<1>1. ASSUME IInv PROVE GivesUpInTime
  BY <1>1, StartupAssumption DEF IInv, TypeOK, WaitOK, GivesUpInTime
<1> QED BY <1>1, AlwaysIInv, PTL

-----------------------------------------------------------------------------
(* What an accepted request looks like                                     *)

LEMMA AcceptedAnswer ==
    ASSUME IInv, Accepted
    PROVE  /\ env \in Environments /\ last.req \in Requests /\ last.endpoint \in Endpoint
           /\ last.answer = Answer(last.endpoint, last.req) /\ last.answer.outcome = "accepted"
           /\ needed_topics(env) \subseteq topics
BY DEF IInv, TypeOK, LastOK, Accepted

LEMMA SubmitAccepted ==
    ASSUME NEW req, submit(env, req).outcome = "accepted"
    PROVE  LET job == submit(env, req).job IN
           /\ job.id = or_else(trim(req.id), [name |-> Uuid, pad |-> FALSE])
           /\ job.max_tokens = normalize_max_tokens(env, req.max_tokens)
           /\ ~(job.max_tokens > max_tokens_limit)
           /\ request_topic_for_model(env, job.model) # None
BY DEF submit, Refused, Job

LEMMA InferAccepted ==
    ASSUME NEW req, infer(env, req).outcome = "accepted"
    PROVE  LET job == infer(env, req).job IN
           /\ job.id = or_else(req.id, [name |-> Uuid, pad |-> FALSE])
           /\ job.max_tokens = cap(IF req.max_tokens = None THEN env.default_max_tokens
                                                            ELSE req.max_tokens)
           /\ request_topic_for_model(env, job.model) # None
BY DEF infer, Refused, Job

\* A job is accepted only for a topic that wait_for_topics has seen.
THEOREM AcceptedJobsHaveTopics == Spec => []JobsHaveTopics
<1>1. ASSUME IInv PROVE JobsHaveTopics
  <2>1. SUFFICES ASSUME Accepted
                 PROVE  LET topic == request_topic_for_model(env, last.answer.job.model) IN
                        topic # None /\ topic.name \in topics
    BY DEF JobsHaveTopics
  <2>2. request_topic_for_model(env, last.answer.job.model) # None
    BY <1>1, <2>1, AcceptedAnswer, SubmitAccepted, InferAccepted DEF Answer
  <2>3. request_topic_for_model(env, last.answer.job.model).name \in needed_topics(env)
    BY <2>2 DEF request_topic_for_model, needed_topics
  <2> QED BY <1>1, <2>1, <2>2, <2>3, AcceptedAnswer
<1> QED BY <1>1, AlwaysIInv, PTL

\* No job that asked for a number of tokens generates more than MAX_TOKENS_LIMIT.
THEOREM AcceptedTokensWithinLimit == Spec => []TokensWithinLimit
<1>1. ASSUME IInv PROVE TokensWithinLimit
  <2> DEFINE asked == last.req.max_tokens
             got == last.answer.job.max_tokens
  <2>1. SUFFICES ASSUME Accepted, asked # 0, env.default_max_tokens # 0, max_tokens_limit # 0
                 PROVE  worker_max_tokens(last.answer.job) <= max_tokens_limit
    BY DEF TokensWithinLimit
  <2>2. /\ asked \in Nat \cup {None} /\ env.default_max_tokens \in Nat
        /\ max_tokens_limit \in Nat
    BY <1>1, <2>1, AcceptedAnswer, StartupAssumption, IntakeAssumption
  <2>3. got \in Nat \ {0} /\ got <= max_tokens_limit
    <3>1. CASE last.endpoint = "submit"
      <4>1. got = normalize_max_tokens(env, asked) /\ ~(got > max_tokens_limit)
        BY <1>1, <2>1, <3>1, AcceptedAnswer, SubmitAccepted DEF Answer
      <4> QED BY <2>1, <2>2, <4>1 DEF normalize_max_tokens
    <3>2. CASE last.endpoint # "submit"
      <4>1. got = cap(IF asked = None THEN env.default_max_tokens ELSE asked)
        BY <1>1, <2>1, <3>2, AcceptedAnswer, InferAccepted DEF Answer
      <4> QED BY <2>1, <2>2, <4>1 DEF cap
    <3> QED BY <3>1, <3>2
  <2> QED BY <2>3 DEF worker_max_tokens
<1> QED BY <1>1, AlwaysIInv, PTL

\* Whoever's request was accepted can cancel it with the id it sent.
THEOREM CancelFinds == Spec => []CancelFindsRequest
<1>1. ASSUME IInv PROVE CancelFindsRequest
  <2>1. SUFFICES ASSUME Accepted, ~is_blank(last.req.id)
                 PROVE  cancel_id(last.endpoint, last.req.id) = last.answer.job.id
    BY DEF CancelFindsRequest
  <2>2. is_text(last.req.id)
    BY <1>1, <2>1, AcceptedAnswer, StartupAssumption
  <2>3. trim(last.req.id).name = last.req.id.name
    BY <2>2 DEF is_text, trim
  <2>4. CASE last.endpoint = "submit"
    BY <1>1, <2>1, <2>3, <2>4, AcceptedAnswer, SubmitAccepted DEF Answer, or_else, is_blank, cancel_id
  <2>5. CASE last.endpoint # "submit"
    BY <1>1, <2>1, <2>5, AcceptedAnswer, InferAccepted DEF Answer, or_else, is_blank, cancel_id
  <2> QED BY <2>4, <2>5
<1> QED BY <1>1, AlwaysIInv, PTL

\* Within both endpoints' limits, they make the same of a request.
THEOREM SameAnswer == Spec => []EndpointsAgree
<1>1. ASSUME IInv PROVE EndpointsAgree
  <2> DEFINE req == last.req
             asked == IF req.max_tokens = None THEN env.default_max_tokens ELSE req.max_tokens
  <2>1. SUFFICES ASSUME last # NoRequest, ~req.id.pad, ~req.model.pad, ~req.replay,
                        req.prompt \in {"blank", "fits"},
                        req.max_tokens \in (1 .. max_tokens_limit) \cup {None},
                        env.default_max_tokens <= max_tokens_limit
                 PROVE  submit(env, req) = infer(env, req)
    BY DEF EndpointsAgree
  <2>2. req \in Requests /\ env \in Environments
    BY <1>1, <2>1 DEF IInv, TypeOK
  <2>3. is_text(req.id) /\ is_text(req.model) /\ env.default_max_tokens \in Nat /\ max_tokens_limit \in Nat
    BY <2>2, StartupAssumption, IntakeAssumption
  <2>4. trim(req.id) = req.id /\ trim(req.model) = req.model
    <3>1. \A t : is_text(t) /\ ~t.pad => trim(t) = t
      BY DEF is_text, trim
    <3> QED BY <2>1, <2>3, <3>1
  <2>5. normalize_max_tokens(env, req.max_tokens) = asked /\ asked \in Nat /\ asked <= max_tokens_limit
    BY <2>1, <2>3 DEF normalize_max_tokens
  <2> HIDE DEF asked
  <2>6. cap(asked) = asked /\ ~(asked > max_tokens_limit)
    BY <2>3, <2>5 DEF cap
  <2> DEFINE id == or_else(req.id, [name |-> Uuid, pad |-> FALSE])
             model == or_else(req.model, env.default_model_id)
             answer == IF req.prompt = "blank" THEN Refused("empty prompt")
                       ELSE IF request_topic_for_model(env, model) = None
                            THEN Refused("unknown model")
                            ELSE Job(id, model, asked)
  <2>7. submit(env, req) = answer
    <3>1. req.prompt \notin {"wide", "long"} /\ ~req.replay
      BY <2>1
    <3> HIDE DEF req
    <3> QED BY <2>4, <2>5, <2>6, <3>1 DEF submit
  <2>8. infer(env, req) = answer
    <3>1. cap(IF req.max_tokens = None THEN env.default_max_tokens ELSE req.max_tokens) = asked
      BY <2>6 DEF asked
    <3> HIDE DEF req
    <3> QED BY <3>1 DEF infer
  <2> HIDE DEF answer
  <2> QED BY <2>7, <2>8
<1> QED BY <1>1, AlwaysIInv, PTL
-----------------------------------------------------------------------------
(* The routes.  A loop over any number of entries: induction, which the    *)
(* library's theorem about well-founded relations gives for sets.          *)

\* Induction over the natural numbers, as a fact about a set of them.
LEMMA Induction ==
    ASSUME NEW S \in SUBSET Nat, 0 \in S, \A n \in S : n + 1 \in S
    PROVE  S = Nat
<1> DEFINE R == OpToRel(<, Nat)
           T == Nat \ S
<1>1. IsWellFoundedOn(R, Nat)
  BY NatLessThanWellFounded
<1>2. R = {ss \in Nat \X Nat : ss[1] < ss[2]}
  BY DEF OpToRel
<1> HIDE DEF R
<1>3. SUFFICES ASSUME T # {} PROVE FALSE
  OBVIOUS
<1>4. PICK n \in T : \A k \in T : ~(<<k, n>> \in R)
  BY <1>1, <1>3, WFMin
<1>5. n # 0 /\ n - 1 \in Nat
  BY <1>4
<1>6. <<n - 1, n>> \in R
  BY <1>2, <1>5
<1>7. n - 1 \in S
  BY <1>4, <1>5, <1>6
<1> QED BY <1>4, <1>5, <1>7

\* One round of the loop over the entries.
Round(raw, before, n) ==
    IF n = 0 THEN [ok |-> TRUE, routes |-> <<>>]
    ELSE IF is_entry(raw[n]) THEN insert_route(before, raw[n])
    ELSE before
Loop(raw, n, f) == [i \in 0 .. n |-> Round(raw, f[i - 1], i)]

\* The recursion has a solution, so what it defines is one.
LEMMA LoopDefined ==
    ASSUME NEW raw, Len(raw) \in Nat
    PROVE  parse_entries(raw) = Loop(raw, Len(raw), parse_entries(raw))
<1> DEFINE S == {n \in Nat : \E f : f = Loop(raw, n, f)}
<1>1. 0 \in S
  <2> DEFINE f == [i \in 0 .. 0 |-> [ok |-> TRUE, routes |-> <<>>]]
  <2>1. f = Loop(raw, 0, f)
    BY DEF Loop, Round
  <2> QED BY <2>1
<1>2. ASSUME NEW n \in S PROVE n + 1 \in S
  <2>1. n \in Nat
    OBVIOUS
  <2>2. PICK f : f = Loop(raw, n, f)
    OBVIOUS
  <2> DEFINE g == [i \in 0 .. n + 1 |-> IF i = n + 1 THEN Round(raw, f[n], i) ELSE f[i]]
  <2>3. \A i \in 0 .. n : g[i] = f[i] /\ f[i] = Round(raw, f[i - 1], i)
    BY <2>1, <2>2 DEF Loop
  <2>4. g[n + 1] = Round(raw, f[n], n + 1) /\ g[n] = f[n]
    BY <2>1
  <2>5. ASSUME NEW i \in 0 .. n + 1 PROVE g[i] = Round(raw, g[i - 1], i)
    <3>1. CASE i = n + 1
      BY <2>1, <2>4, <3>1
    <3>2. CASE i = 0
      <4>0. 0 \in 0 .. n
        BY <2>1
      <4>1. g[0] = f[0] /\ f[0] = Round(raw, f[0 - 1], 0)
        <5> HIDE DEF g
        <5> QED BY <2>3, <4>0
      <4>2. \A before : Round(raw, before, 0) = [ok |-> TRUE, routes |-> <<>>]
        BY DEF Round
      <4> HIDE DEF g
      <4> QED BY <3>2, <4>1, <4>2
    <3>3. CASE i \in 1 .. n
      <4>1. i \in 0 .. n /\ i - 1 \in 0 .. n
        BY <2>1, <3>3
      <4> HIDE DEF g
      <4> QED BY <2>3, <4>1
    <3> QED BY <2>1, <3>1, <3>2, <3>3
  <2>6. g = [i \in 0 .. n + 1 |-> g[i]]
    OBVIOUS
  <2> HIDE DEF g
  <2>7. g = Loop(raw, n + 1, g)
    BY <2>5, <2>6 DEF Loop
  <2> QED BY <2>1, <2>7
<1>3. S = Nat
  <2> HIDE DEF S
  <2>1. S \in SUBSET Nat
    BY DEF S
  <2> QED BY <1>1, <1>2, <2>1, Induction
<1>4. PICK f : f = Loop(raw, Len(raw), f)
  BY <1>3
<1>5. parse_entries(raw) = CHOOSE g : g = Loop(raw, Len(raw), g)
  BY DEF parse_entries, Loop, Round
<1> QED BY <1>4, <1>5

\* What the loop has after n rounds is what the first n entries say.
EntriesUpto(raw, n) == {i \in 1 .. n : is_entry(raw[i])}
Of(raw, n, m) == {i \in EntriesUpto(raw, n) : trim(raw[i].key) = m}
LastEntries(raw, n, p) ==
    /\ p = [ok |-> p.ok, routes |-> p.routes] /\ p.ok \in BOOLEAN
    /\ p.ok <=> \A i \in EntriesUpto(raw, n) : is_valid(raw[i])
    /\ p.ok =>
          /\ DOMAIN p.routes = {trim(raw[i].key) : i \in EntriesUpto(raw, n)}
          /\ \A m \in DOMAIN p.routes :
                \E i \in Of(raw, n, m) : /\ \A j \in Of(raw, n, m) : j <= i
                                         /\ p.routes[m] = trim(raw[i].value)

LEMMA RoundKeeps ==
    ASSUME NEW raw, NEW n \in Nat, NEW p, LastEntries(raw, n, p)
    PROVE  LastEntries(raw, n + 1, Round(raw, p, n + 1))
<1> DEFINE e == raw[n + 1]
           q == Round(raw, p, n + 1)
           k == trim(e.key)
<1>1. n + 1 # 0
  OBVIOUS
<1>2. CASE ~is_entry(e)
  <2>1. q = p
    BY <1>1, <1>2 DEF Round
  <2>2. EntriesUpto(raw, n + 1) = EntriesUpto(raw, n)
    BY <1>2 DEF EntriesUpto
  <2> QED BY <2>1, <2>2 DEF LastEntries, Of
<1>3. CASE is_entry(e) /\ ~is_valid(e)
  <2>1. q = [p EXCEPT !.ok = FALSE]
    BY <1>1, <1>3 DEF Round, insert_route
  <2>2. q = [ok |-> FALSE, routes |-> p.routes]
    BY <2>1 DEF LastEntries
  <2>3. n + 1 \in EntriesUpto(raw, n + 1)
    BY <1>3 DEF EntriesUpto
  <2>4. q.ok = FALSE /\ q = [ok |-> q.ok, routes |-> q.routes]
    BY <2>2
  <2> HIDE DEF q
  <2>5. LastEntries(raw, n + 1, q)
    BY <1>3, <2>3, <2>4 DEF LastEntries
  <2> QED BY <2>5 DEF q
<1>4. CASE is_entry(e) /\ is_valid(e)
  <2>1. q = [p EXCEPT !.routes = insert(@, k, trim(e.value))]
    BY <1>1, <1>4 DEF Round, insert_route
  <2>2. q = [ok |-> p.ok, routes |-> insert(p.routes, k, trim(e.value))]
    BY <2>1 DEF LastEntries
  <2>3. q.ok = p.ok /\ q.routes = insert(p.routes, k, trim(e.value))
    BY <2>2
  <2>4. /\ DOMAIN q.routes = {k} \cup DOMAIN p.routes
        /\ q.routes[k] = trim(e.value)
        /\ \A m \in DOMAIN p.routes : m # k => q.routes[m] = p.routes[m]
    BY <2>3 DEF insert
  <2>5. EntriesUpto(raw, n + 1) = EntriesUpto(raw, n) \cup {n + 1}
    BY <1>4 DEF EntriesUpto
  <2>6. \A i \in EntriesUpto(raw, n) : i \in Nat /\ i <= n
    BY DEF EntriesUpto
  <2>7. q = [ok |-> q.ok, routes |-> q.routes] /\ q.ok \in BOOLEAN
    BY <2>2, <2>3 DEF LastEntries
  <2> HIDE DEF q, k
  <2>8. q.ok <=> \A i \in EntriesUpto(raw, n + 1) : is_valid(raw[i])
    BY <1>4, <2>3, <2>5 DEF LastEntries
  <2>9. ASSUME q.ok
        PROVE  /\ DOMAIN q.routes = {trim(raw[i].key) : i \in EntriesUpto(raw, n + 1)}
               /\ \A m \in DOMAIN q.routes :
                     \E i \in Of(raw, n + 1, m) : /\ \A j \in Of(raw, n + 1, m) : j <= i
                                                  /\ q.routes[m] = trim(raw[i].value)
    <3>1. DOMAIN q.routes = {trim(raw[i].key) : i \in EntriesUpto(raw, n + 1)}
      BY <2>3, <2>4, <2>5, <2>9 DEF LastEntries, k
    <3>2. ASSUME NEW m \in DOMAIN q.routes
          PROVE  \E i \in Of(raw, n + 1, m) : /\ \A j \in Of(raw, n + 1, m) : j <= i
                                              /\ q.routes[m] = trim(raw[i].value)
      <4>1. CASE m = k
        <5>1. n + 1 \in Of(raw, n + 1, m)
          BY <2>5, <4>1 DEF Of, k
        <5>2. \A j \in Of(raw, n + 1, m) : j <= n + 1
          BY <2>5, <2>6 DEF Of
        <5> QED BY <2>4, <4>1, <5>1, <5>2
      <4>2. CASE m # k
        <5>1. Of(raw, n + 1, m) = Of(raw, n, m)
          BY <2>5, <4>2 DEF Of, k
        <5>2. m \in DOMAIN p.routes /\ q.routes[m] = p.routes[m]
          BY <2>4, <4>2
        <5> QED BY <2>3, <2>9, <5>1, <5>2 DEF LastEntries
      <4> QED BY <4>1, <4>2
    <3> QED BY <3>1, <3>2
  <2> QED BY <2>7, <2>8, <2>9 DEF LastEntries, q
<1>5. \/ ~is_entry(e)
      \/ is_entry(e) /\ ~is_valid(e)
      \/ is_entry(e) /\ is_valid(e)
  OBVIOUS
<1> QED BY <1>2, <1>3, <1>4, <1>5, Zenon

LEMMA LoopKeeps ==
    ASSUME NEW raw, Len(raw) \in Nat
    PROVE  LastEntries(raw, Len(raw), parse_entries(raw)[Len(raw)])
<1> DEFINE f == parse_entries(raw)
           S == {n \in Nat : n <= Len(raw) => LastEntries(raw, n, f[n])}
<1>1. \A n \in 0 .. Len(raw) : f[n] = Round(raw, f[n - 1], n)
  <2>1. f = [n \in 0 .. Len(raw) |-> Round(raw, f[n - 1], n)]
    BY LoopDefined DEF Loop
  <2> HIDE DEF f
  <2> QED BY <2>1
<1> HIDE DEF f
<1>2. 0 \in S
  <2>1. f[0] = [ok |-> TRUE, routes |-> <<>>]
    BY <1>1 DEF Round
  <2>2. EntriesUpto(raw, 0) = {}
    BY DEF EntriesUpto
  <2>3. f[0].ok = TRUE /\ f[0].routes = <<>> /\ DOMAIN <<>> = {}
    BY <2>1
  <2>4. f[0] = [ok |-> f[0].ok, routes |-> f[0].routes]
    BY <2>1
  <2>5. LastEntries(raw, 0, f[0])
    BY <2>2, <2>3, <2>4 DEF LastEntries
  <2> QED BY <2>5
<1>3. ASSUME NEW n \in S PROVE n + 1 \in S
  <2>1. SUFFICES ASSUME n + 1 <= Len(raw) PROVE LastEntries(raw, n + 1, f[n + 1])
    OBVIOUS
  <2>2. n \in Nat /\ LastEntries(raw, n, f[n]) /\ f[n + 1] = Round(raw, f[n], n + 1)
    BY <1>1, <2>1
  <2> QED BY <2>2, RoundKeeps
<1>4. S = Nat
  <2> HIDE DEF S
  <2>1. S \in SUBSET Nat
    BY DEF S
  <2> QED BY <1>2, <1>3, <2>1, Induction
<1> QED BY <1>4 DEF f

\* MODEL_ROUTES means what it says: one bad entry refuses all of it, a model goes
\* to the topic of its last entry, and the default model has a route anyway.
THEOREM LastEntryWins == Spec => []RoutesAreTheLastEntries
<1>1. ASSUME IInv PROVE RoutesAreTheLastEntries
  <2> DEFINE raw == env.raw
             n == Len(raw)
             p == parse_entries(raw)[n]
             d == env.default_model_id
             r == routes(env)
             Entries == {i \in DOMAIN raw : is_entry(raw[i])}
             OfModel(m) == {i \in Entries : trim(raw[i].key) = m}
  <2>1. n \in Nat /\ DOMAIN raw = 1 .. n
    <3>1. raw \in Seq({raw[i] : i \in DOMAIN raw})
      BY <1>1, StartupAssumption DEF IInv, TypeOK
    <3> QED BY <3>1
  <2>2. LastEntries(raw, n, p)
    BY <2>1, LoopKeeps
  <2>3. Entries = EntriesUpto(raw, n) /\ \A m : OfModel(m) = Of(raw, n, m)
    BY <2>1 DEF EntriesUpto, Of
  <2>4. r = [p EXCEPT !.routes = or_insert(@, d, env.request_topic)]
    BY DEF routes, parse_model_routes
  <2> HIDE DEF raw, n, p, d
  <2>5. r.ok = p.ok /\ r.routes = or_insert(p.routes, d, env.request_topic)
    BY <2>2, <2>4 DEF LastEntries
  <2> HIDE DEF r, Entries
  <2>6. r.ok <=> \A i \in Entries : is_valid(raw[i])
    BY <2>2, <2>3, <2>5 DEF LastEntries
  <2>7. ASSUME r.ok
        PROVE  /\ DOMAIN r.routes = {d} \cup {trim(raw[i].key) : i \in Entries}
               /\ \A m \in DOMAIN r.routes :
                     \/ OfModel(m) = {} /\ r.routes[m] = env.request_topic
                     \/ \E i \in OfModel(m) : /\ \A j \in OfModel(m) : j <= i
                                              /\ r.routes[m] = trim(raw[i].value)
    <3>1. /\ DOMAIN p.routes = {trim(raw[i].key) : i \in Entries}
          /\ \A m \in DOMAIN p.routes :
                \E i \in OfModel(m) : /\ \A j \in OfModel(m) : j <= i
                                      /\ p.routes[m] = trim(raw[i].value)
      BY <2>2, <2>3, <2>5, <2>7 DEF LastEntries
    <3>2. /\ DOMAIN r.routes = {d} \cup DOMAIN p.routes
          /\ \A m \in DOMAIN p.routes : r.routes[m] = p.routes[m]
          /\ d \notin DOMAIN p.routes => r.routes[d] = env.request_topic
      BY <2>5 DEF or_insert, insert
    <3>3. ASSUME NEW m \in DOMAIN r.routes, m \notin DOMAIN p.routes
          PROVE  OfModel(m) = {} /\ r.routes[m] = env.request_topic
      BY <3>1, <3>2, <3>3
    <3> HIDE DEF OfModel
    <3>4. ASSUME NEW m \in DOMAIN r.routes, m \in DOMAIN p.routes
          PROVE  \E i \in OfModel(m) : /\ \A j \in OfModel(m) : j <= i
                                       /\ r.routes[m] = trim(raw[i].value)
      BY <3>1, <3>2, <3>4
    <3> QED BY <3>1, <3>2, <3>3, <3>4
  <2> QED BY <2>6, <2>7 DEF RoutesAreTheLastEntries, raw, d, r, Entries
<1> QED BY <1>1, AlwaysIInv, PTL
=============================================================================
