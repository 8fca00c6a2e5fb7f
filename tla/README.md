# TLA+ verification of Cria

Cria serves language-model inference. A Rust gateway accepts requests over gRPC
and a small HTTP interface for browsers (the BFF), puts one job per request into
a Kafka topic, and streams back the token events that Python workers publish.
This directory holds TLA+ modules for the gateway and what surrounds it, the
TLC configurations that check them on small instances, and proofs that hold for
every instance.

Paths below are relative to the repository; `control-plane/src` is shortened to
`cp`, `workers/python/inference_worker` to `py`.

## 1. Inventory

| Component | State | Operations | Interacts with |
| --- | --- | --- | --- |
| Request state, `cp/state` | `inner`: id -> record (status, token count); `events`: id -> list of events; two DashMaps | `insert`, `cancel`, `mark_running`, `note_token`, `finish_*`, `record_event`, `events`, `active_count` | called by both APIs and the router, concurrently |
| Stream registry, `cp/streaming` | id -> `mpsc::Sender` of a 256-slot channel | `register`, `send`, `unregister` | the handlers register, the router and replay tasks send and unregister |
| gRPC API, `cp/api` | none of its own | `Submit` (with replay), `Cancel`, `GetStatus` | state, registry, producer, metrics |
| Web BFF, `cp/bff.rs` | none of its own | `infer`, `cancel`, `status`, `models` | the same shared state, with fewer checks |
| Token-event router, `cp/kafka` | one event in hand, the consumer's position | `route_events`, `route_one` | reads the token topic, writes state, sends to streams |
| Kafka producer, `cp/kafka` | its queue, message timeout 5 s | `produce_request`, `produce_cancellation` | brokers |
| Metrics, `cp/telemetry.rs` | counters, one gauge | `inc`, `dec`, `observe` | handlers and router |
| Startup and configuration, `cp/main.rs`, `cp/config.rs` | model routes | `parse_model_routes`, `wait_for_topics`, `main` | brokers |
| Worker, `py/main.py`, `py/kafka_io.py`, `py/events.py` | the job in hand, its sequence number, the consumer's position | `poll_job`, `process_job`, `publish_token_event`, `flush`, `commit` | brokers, backend |
| Cancellation watcher, `py/kafka_io.py` | set of cancelled ids | `_run`, `is_cancelled` | control topic, worker loop |
| Backends, `py/backends` | generation thread and streamer | `generate` | worker loop |
| Web console, `web/src` | stream state, abort controller | submit, cancel, status | BFF |
| Client, load test, benchmark, smoke test | results | call the API, aggregate | gateway |
| Deployment (compose, helm, k8s, infra) | - | manifests | - |

What is hard here, and what makes each part correct:

* **Shared maps without transactions.** Every handler is a sequence of
  operations on single map entries; the router and other handlers run in
  between. *A status must be backed by the events that justify it; the admission
  bound must hold up to the test-then-insert window; no interleaving may leave a
  record active for ever.*
* **Streams found by id.** The router and the replay tasks look the sender up for
  each event and unregister by id, so they may reach another client's stream.
  *A stream carries consecutive events, ends, and ends only after it said why.*
* **Back-pressure through one router.** It waits for a slow client's channel and
  holds everybody up. *Nothing is skipped or reordered, streams end.*
* **Failures.** Enqueueing can fail, or be reported as failed although the job is
  in the topic; clients hang up; workers crash and jobs are processed again; the
  gateway restarts with events of old requests still to come.
* **Cancellation** is recorded in the gateway while tokens are in flight, and may
  reach the worker late or never.
* **At-least-once processing.** A worker commits after it flushed, may be thrown
  out of its group and work on, may die with events in its queue, may be sent a
  job it cannot parse. *No job is committed before its log says how it ended; every
  event builds on an earlier one; jobs end.*
* **Two endpoints, one job format.** Ids, models and token limits are normalised in
  three places. *The endpoints agree; an accepted job has a topic; the limit holds.*
* **A page whose handlers overlap.** Each handler of the web console awaits the BFF
  while the user goes on clicking. *The page never gets stuck and shows one request.*

`PROJECT.json` lists the hazards line by line with the properties that cover them.

## 2. Plan

| Order | Module | Composes / refines | Status |
| --- | --- | --- | --- |
| 1 | `RequestState` - the record and its mutators | used by `Gateway` | done |
| 2 | `Gateway`, `MCGateway` - handlers, registry, router, replay, with brokers and workers as environment | uses `RequestState` | done |
| 3 | `TokenLog` - what workers promise the readers of the token topic | abstract specification | done |
| 4 | `Worker`, `MCWorker` - consumer group, main loop, producer queue, flush, commit, watcher | implements `TokenLog` | done |
| 5 | `Intake`, `Startup`, `MCStartup` - configuration, validation and normalisation; `wait_for_topics` and `main` | `Startup` extends `Intake` | done |
| 6 | `WebConsole` - the page's handlers and their awaits | stand-alone; assumes `Gateway`'s `StreamEnds` | done |
| 7 | `GatewayProofs`, `GatewayContract`, `WorkerProofs`, `TokenLogProofs`, `StartupProofs`, `WebConsoleProofs` | about the above | done, see section 5 |
| 8 | `GatewayStreams`, `GatewaySlots` - proofs about streams, replays, slots, admission and the gauge | about `Gateway` | done, see section 5 |
| 9 | `Cluster` - the gateway among any workers that keep the contract, and with the workers of `Worker` | composes `Gateway` and `Worker` | done; for proofs only |

No run puts `Gateway` and `Worker` into one state space: their product is far out
of TLC's reach. They are composed by contract: `TokenLog` says what goes over the
token topic, the workers of `Worker` implement it, and `Gateway`'s safety promises
hold among any workers that keep it. `Cluster` is the product itself, and its proofs
put the two together (section 5).

## 3. Modules

### RequestState

Pure operators on one record: status and emitted tokens. Each is what one
mutator does under one DashMap shard lock (`mark_running`, `note_token`,
`cancel`, `finish_completed`, ...); `update` does nothing to an absent record.
`ApplyEvent` is the `match` in `route_one`. Timestamps, worker ids and texts are
left out because no decision reads them.

### Gateway

The gateway process with its clients, brokers and workers.

| Variables | Code |
| --- | --- |
| `records`, `events` | `RequestState.inner` and `.events` |
| `registry` | `StreamRegistry.inner`: whose sender is stored at an id |
| `pc`, `call` | where each handler is, and what its client asked for |
| `sent`, `read` | each call's channel: the events put in, the number taken out |
| `displaced` | history, in no variable of the code: the ids of which a registration dropped another's sender |
| `task`, `snap` | the task `replay_cached_events` spawns, and its copy of the events |
| `router` | the event `route_one` has in hand, and the sender clone it awaits |
| `position`, `joined` | the token consumer |
| `topic` | the token topic: one append-only log per request id (its partition key) |
| `job`, `seq`, `tries` | each call's job message and the attempt at it |
| `cancelling`, `control` | accepted cancellations: not yet published / published |
| `activeStreams`, `cancelledRequests` | the two metrics that are not mere event counts |

*Steps.* A handler is cut at every operation on a shared map and at every await;
code between two such points is one action, with its metric updates. `submit` is
`SubmitCheck`, `SubmitInsert`, `RegisterCheck`, then `FinishConflict` or
`RegisterInsert`, then `ProduceAck` or `ProduceError`, `EnqueueUnregister`,
`EnqueueFinish`. `register` is two steps because the code makes two DashMap
calls. `infer` shares the steps it shares in code, and returns where the code
returns without cleaning up. `route_one` is `RouterPoll` (which ends with
`record_event`), `RouterUpdate`, `RouterLookup`, `RouterSend`,
`RouterUnregister`. The replay handler is `SubmitCheck`, `ReplayLookup`,
`RegisterCheck`, `RegisterInsert`, `Snapshot`, and its task `TaskLookup`,
`TaskSend`, `TaskFinish`.

*Data.* Within one id's log an event is known by its offset, so the cache,
channels and snapshots hold offsets; this is what lets a property say that a
stream carries consecutive events. Token texts do not occur.

*Environment.* `Deliver` and `Lose` are the producer's outcome for a job;
"ambiguous" lets the handler see an error for a delivered one
(`message.timeout.ms`). `WorkerStart`, `WorkerToken`, `WorkerFinish`,
`WorkerCommit`, `WorkerCrash` are what a gateway can observe of workers: STARTED,
numbered tokens, one terminal event, and all of it again if the worker dies
before its commit. CANCELLED needs a published cancellation, which a worker may
also miss. `StrayEvent` is a worker that lost its partition and works on beside the
new owner, or a producer's retry: any event `TokenLog` allows next on the log of a
job once begun. `GatewayRestart` empties memory and keeps the topics. `Faults` chooses
which of these may happen.

*Abstractions a reader should know.*

* Argument validation, model routing and `max_tokens` are `Intake`'s: a rejected
  request changes nothing.
* `active_count` is one atomic look. The code iterates the map shard by shard; a
  concurrent insert or finish may or may not be counted, which is an outcome of
  looking a little earlier or later, except that several changes in one
  iteration could be seen in part.
* `Threads` limits how many handlers are between two awaits at once; it is what
  bounds the overshoot of admission control. The router and the replay tasks may
  always take a step, as if they had threads of their own.
* Kafka keeps the order of one partition. The consumer group of a gateway is its
  own (`cp/config.rs:49`), so there is no rebalancing among gateways; a group id
  configured to be shared is not modelled. The workers' producer is not idempotent:
  events it repeats are modelled, events that overtake each other are not.
* Two jobs with one id may run at once: the code does not prevent it across
  model topics or after a reassignment.
* Other gateways' requests, whose events this router receives too, are not
  modelled.
* `CHECK_DEADLOCK FALSE` in every configuration: each client makes one call, so
  a finished system stops. Who may wait for ever is what the liveness
  properties and `NoLeakedSlot` at quiescence (`Quiet`) are for.

### MCGateway

Names the sets of endpoints and faults the configurations use, and the symmetry
sets (safety runs only).

### TokenLog

The abstract specification of the token topic: an append-only log per request in
which, once its job is given, an attempt starts, gets one token further than some
attempt had got, or ends where one had got; CANCELLED needs a published cancellation; `settled` (the
committed jobs) only ever contains ended requests. Commits may go back, because a
worker that lost its partition can overwrite the new owner's commit.

### Worker

The workers of one model and their consumer group.

| Variables | Code |
| --- | --- |
| `jobs`, `unreadable` | the request topic; messages `json.loads` or `from_payload` raise on |
| `committed`, `owner`, `fetch`, `evicted` | the group: offsets, assignment, fetch positions, members thrown out |
| `pc`, `hand`, `seq` | `main`'s loop, the message in hand, `process_job`'s `sequence` |
| `queue` | the producer's local queue |
| `topic`, `control` | token topic and control topic |
| `cancelled` | each process's `CancellationWatcher._cancelled` |
| `unflushed` | history: ids whose `flush(10)` returned with events left |

`Poll` (up to the STARTED event), `Token`, `Finish`, `Flush` or `FlushTimeout`, and
`Commit` or `CommitError` are one round of the loop; `PollUnreadable` is the
exception that ends the process. `Hear` adds any published id at any time, and
need not: the watcher's group starts at the latest offset or behind what an
earlier process read. `Crash`, `Evict`, `Reshuffle`, `FlushTimeout` and `Resend`
each use up one of `MaxTroubles`. A poll that returns nothing or an error changes
nothing and is left out. A backend yields up to `MaxTokens` tokens, may stop early
when cancelled, and may raise for ids in `Failing`.

### Cluster

The gateway with workers other than the built-in ones of `Gateway`.

* `OpenSpec`: `Gateway`, and next to it `Published(r)`, any event `TokenLog` lets
  anybody put in the log of `r`, at any time and without a bound on how many.
* `ClusterSpec`: `ControlPlane` is every step of `Gateway` that is the gateway's or a
  client's; `Fleet` is every step of `Worker` that does not put a job or a cancellation
  in a topic; `DeliverJob` and `DeliverCancel` are steps of both, in which what one side's
  producer had in flight reaches the topic the other side reads. The token topic is one
  variable of both.

`Worker` has at most one job of an id, so the cluster never delivers a second; several jobs of one id are the business of `OpenSpec`, where publishers need no
job in hand to publish. A message in flight when the gateway dies is lost with it: one
that had left before was delivered before.

### Intake and Startup

`Intake` has the pure functions: `parse_model_routes` with its loop as a recursive
function of the number of entries read,
what `wait_for_topics` waits for, what `submit` and `infer` make of a request, the
id under which `cancel` looks it up, and the worker's `max_tokens`. A text is a name
and whether white space surrounds it, which is all that trimming, defaulting and
lookup can tell apart; a prompt is blank, fits, fits in characters but not in
bytes, or is too long.

`Startup` is `main`: `ReadConfig`, `TopicsFound` or `KeepWaiting` (an attempt takes
up to `FetchTimeout` seconds, a sleep one; `elapsed` is the time since `started_at`, the
last attempt's included), `StartWeb`, `StartGrpc`, with an error
exit from each. Topics are created in any order, or never. `Submit` and `Infer`
take any request as soon as the listener is up. One request is enough, since the
functions keep nothing; the id, record and stream of a request are `Gateway`'s.

### WebConsole

The page. `streamState`, `requestId`, `status` and `ref` are the code's state
(`ref` is `streamAbortRef.current`), `shown` says whose events are in `events` and
`output`. The code of a handler between two awaits is one action: `handleSubmit`,
`onEvent`, `StreamDone`, `StreamFails`, `KeepAlive` for `streamInference`;
`CancelClick`, `CancelDone`, `CancelFails`; `StatusClick`, `StatusDone`. `crossed`
and `failed` are history. `Pauses` lets ten seconds pass without an event, after
which the BFF sends its keep-alive comment.

## 4. Runs

The configuration of run X is `X.cfg`.

| Run | Instance | Faults | Checks |
| --- | --- | --- | --- |
| GatewaySameId | 2 calls of 1 id; submit, both cancels | lost, disconnect | types, status backed by the cache, contiguous streams, no leaked slot, gauge back at zero |
| GatewayRetry | 1 call, 2 tokens, 2 attempts or stray events, 1 restart; all endpoints but the web cancel | lost, dropped, crash, stray | status backed by the cache, contiguous streams, no token missing from a stream, slots lost in the known cases only, monotone count, the contract |
| GatewayAdmission | 3 submits of 3 ids, limit 1, 2 threads | lost, disconnect | at most `MaxActive + Threads - 1` active |
| GatewayUnique | 2 calls on 2 threads, each id submitted and replayed at most once, 2 attempts | lost, ambiguous, disconnect, crash | an ended stream told why; no orphaned registration; a replay repeats the stream, unless it dropped the stream's sender |
| GatewayLive | 2 calls of 1 id, or one call that is cancelled and its job done again; submit, infer, replay, cancel; 2 attempts | lost, crash; fair | streams end, replays end; slots lost in the known cases only, when duplicates race too |
| Worker | 2 workers, 1 partition, 2 jobs, 1 token, 1 trouble; one job may be unreadable or fail, the other be cancelled | crash, eviction, rebalance, flush timeout, resend; fair | types, committed jobs have ended, the contract, jobs end |
| Startup | up to 2 of 7 kinds of routes, 2 default models, 2 default token numbers; 55 requests at either endpoint | topics late or missing, any exit | see section 3; starting ends, without topics soon after its deadline |
| WebConsole | 3 submissions, 1 click on Cancel each | errors, broken connections, pauses; fair | types, one request shown, silence after a cancellation, never stuck |

*Why these bounds.* Two calls of one id are what registration races need.
One channel slot makes every second event wait. Two attempts give two terminal
events and renumbered tokens; two tokens make renumbering lower a count. Two threads
are needed for any window between two steps of handlers and three calls to exceed a
limit of one by more than the bound allows. Gateway runs with `MaxTokens = 0` are
about starts, ends and registrations; tokens add steps there and no new case. Two
workers are an old owner beside a new one, two jobs in one partition let a job
stand behind an unreadable one and a stale commit move the offset; one trouble is
enough for a job to be processed twice. Two routes are enough for one to repeat,
pad or follow another. A deadline of six seconds is passed during a sleep, at the start or
at the end of an attempt of up to five, like the code's of sixty. Three submissions let an answer for the first arrive when
the second has ended and the third is open.

*Fairness.* `Gateway`'s `FairSpec`: each ready handler, replay task and the router
(tokio runs ready tasks), delivery or failure of a produced job (librdkafka's
timeout), the worker on a job, a client reading its stream, the end of a drained
stream. No client has to call, cancel or hang up, and no fault has to happen. A
client that stops reading without hanging up blocks the router for everybody: the
liveness properties assume there is none, as the code does. They also assume that the token
consumer was assigned its partitions before there were events; `GatewayLate` is about what
happens otherwise. `StreamEnds` shows that the end of a stream is not lost in a race of
two registrations, in a full channel, or behind a cancelled or crashed job. `Worker`'s: a worker
that is up runs its loop (its backend yields or ends), its producer's thread gets
events out, the coordinator replaces owners that are gone, and the orchestrator
restarts workers that exited (`restart:` in the compose file, Deployments in
Kubernetes). Not among them: hearing of a cancellation. `Startup`: `main` runs on;
no topic need be created. `WebConsole`: an open response ends, which is what
`StreamEnds` shows of the gateway; the user need not click.

`CHECK_DEADLOCK FALSE` in every configuration: clients make a bounded number of
calls, so a finished system stops.

`GatewayLive` goes through two parts of the state space: two calls race, or one is
made that is cancelled and whose worker crashes (`OneAtOnce` in `MCGateway`). Everything
at once is millions of states too many for a liveness check. Only calls, cancellations
and crashes are held back for that, and none of these has to happen, so nothing the
properties wait for is.

*Where a property is narrower than it sounds.* `ReplayAgrees` excepts the ids in
`displaced`: with two threads, a replay that tested the registry before a submit
registered inserts its stream over the submit's, and the router's late unregister can
cut it short; without that exception TLC refutes the property. Two handlers of one id can
displace each other only in that window, so everything else that may go wrong between
two threads, the router and the task is in. `NoLeakedSlot`, `NoOrphanStream` and
`GaugeTracksStreams` are about `submit`; `infer` cleans up nothing and breaks them,
and `KnownLeaksOnly` says how far that goes. `AdmissionBound` and `GaugeTracksStreams`
need every job to be processed once: a second attempt's STARTED makes an ended record
active again, and its terminal event lowers the gauge again. `ReplayEnds` excepts a request that never gets a job.
`CommittedHasEnded` and `JobsEnd` except jobs flush gave up on, which `WorkerFlush`
is about. `NoTokenMissing` excepts replays, which may join midway, a gateway that missed events,
and ids used by several submissions. `TokensWithinLimit` excepts a request for zero tokens. `ShowsOneRequest`
and `CancelledIsSilent` hold up to the first submission made while an earlier
request's call is awaited.

### Disagreements between documents and code

Each is a run whose only property TLC refutes.

| Run | What a document or the page says | What the code does |
| --- | --- | --- |
| GatewayLate | README: "Token event delivery is at least once." | requests are accepted before the token consumer is assigned; it starts at `latest` |
| WorkerFlush | README: "Request processing is at least once.", and the same of token events | `flush(10)` may give up, nobody looks, the offset is committed (`py/kafka_io.py:49`) |
| WorkerDedup | README: "Clients should de-duplicate by `request_id` and `sequence_number`." | the terminal event repeats the number of the event before it: such a client drops it |
| WebKeepAlive | App.tsx: "keep control with status and cancellation actions" | the BFF's keep-alive comment is parsed as JSON and throws; the page shows an error and drops the stream |

Seen while modelling, without a run of their own:

* Admission: `infer` does not test the limit (`cp/bff.rs:103`), and its requests use
  up `submit`'s share. On a failed enqueue it cleans up nothing (`cp/bff.rs:125`).
* `infer` puts a fresh record over that of an earlier request with the same id before
  `register` can refuse it (`cp/bff.rs:103`), and leaves it there. If the earlier
  request's end has been noted and its stream is still registered, the id is active for
  good. An invariant that said slots are lost with their jobs only was refuted by this
  case when its proof was tried; `KnownLeaksOnly` has it as its second.
* A cancellation is counted where it is accepted and where its event arrives
  (`cp/api/mod.rs:155`, `cp/kafka/mod.rs:203`). A job processed twice lowers the
  gauge of active streams twice.
* STARTED or TOKEN events still in flight make a cancelled record Running again
  (`cp/state/mod.rs:81`). Behind the terminal event, published by a worker that had
  lost the job, they leave it Running for good.
* `register` tests and inserts in two map operations: of two handlers with one id
  both can succeed, and the first one's stream ends without an event. A replay that
  registers between `submit`'s insert and register makes `submit` fail as a
  duplicate, and then has nobody to end it.
* A client that lost its stream cannot replay until the request has ended: the dead
  sender is still registered. A duplicate terminal event unregisters a replay
  midway, and the task ignores the failed sends.
* The refusal of a replay without an id (`cp/api/mod.rs:203`) cannot be reached: a
  blank id has become a new one by then. `GetStatus` and the web endpoints do not
  trim ids, `Submit` and `Cancel` do.
* The web endpoint passes `max_tokens` 0 on and the worker makes it 128, under any
  limit. With `DEFAULT_MAX_TOKENS` above `MAX_TOKENS_LIMIT`, `submit` refuses every
  request that does not name a number, where `infer` clamps. `infer` does not test
  `MAX_PROMPT_CHARS`; `submit` tests bytes.
* The web endpoint serves before the TLS files of the gRPC server are read, and goes
  down with the process if they cannot be.
* A cancellation watcher that starts anew has forgotten what it heard, and its group
  has moved on; one that heard of an id cancels every later job of that id at once.
* In the console, a late answer to Cancel aborts the stream of a newer request, the
  end of an old stream takes the newer one's controller away, and an old status is
  shown under a new request. A cancellation that was not accepted is shown as one.

## 5. Proofs

TLAPS checks these for every value of the constants, from the named assumptions of
each module only (`GatewayAssumption`, `WorkerAssumption`, `IntakeAssumption`,
`StartupAssumption`, `ConsoleAssumption`: the "none" values are not members, bounds
are natural numbers, and so on).

| Module | Theorem | States | Argument |
| --- | --- | --- | --- |
| GatewayProofs | `TypeCorrect` | `Spec => [](TypeOK /\ HeldOffsets)` | `TypeOK` is not inductive: the router and the replay tasks index a log and a copy with numbers they took before an await. `HeldOffsets` says the indices are still valid; it needs that logs only grow and that a copy changes only together with its task. |
| | `StatusIsBackedByLog` | `Spec => []StatusBackedByLog` | `BackedInv` adds `Cached` (every cached offset is in the log) and `Applying` (between `record_event` and the record's update the event in hand is in the cache). Each of the four writers of a record then keeps it backed: `insert` and `finish_failed` claim nothing, `cancel` keeps the count, the router has its event. |
| | `EmittedIsMonotone` | `Spec => EmittedMonotone` | no operator of `ApplyEvent` lowers the count, and no other step but `insert` and a restart replaces it. |
| GatewayStreams | `StreamsAreContiguous` | `Spec => []StreamContiguous` | the last event of a stream the router can still reach (by the registry or by the clone it holds) must be the last one routed for the id; a stream that took the id while the router awaits the one before has none yet (`StreamsInOrder`). Rests on `CallInv`: which program points a call of each kind can be at, which job state goes with which, that a registered sender is of that id, that the router is at its position. |
| | `NoStreamIsOrphaned` | `Spec => []NoOrphanStream` | inductive with `CallInv` and `LogsBegun` (only a job that reached its topic has a log): a stream registers before its job is there, so the router can be past no terminal event yet. |
| | `EndedStreamsTold` | `Spec => []EndedToldWhy` | `StreamsTell`: from its registration to its end a stream has been told all that the router is done with; whoever takes it out of the registry has just sent it the first terminal event. |
| | `ReplaysAgree` | `Spec => []ReplayAgrees` | `Followed`, of every submission and the replay of its id: a replay that registers first makes the submission fail, with no event for it ever; as long as the request's stream is in the registry it has all that is routed, and the replay does not register, or else it is in `displaced`; once the router has taken it out, and unless more events come, the router is through with the request, so the replay's stream is its task's alone, and the cache it copies is the whole log (`CacheExact`). |
| GatewaySlots | `LeaksAreKnown` | `Spec => []KnownLeaksOnly` | `SlotsAccounted`: for every active record there is a handler or a job that will see to it, an event still to be routed, a log whose last event is no terminal, or a handler that left it behind. At quiescence only the three cases remain. |
| | `NoSlotLeaks` | `Orderly`: `Spec => []NoLeakedSlot` | adds `NothingAbandoned`: a client that goes away had its job delivered, and a log without an end has a job that will go on with it. |
| | `AdmissionIsBounded` | `Once`: `Spec => []AdmissionBound` | the bound itself is not inductive. `Bounded` counts the handlers that passed the test as active already; these are on a thread, as is the one that is testing. `NoneRevived`: no ended record becomes active again, which needs that a request has one job that ends once and that a submission fails only if its job got nowhere. |
| | `GaugeIsExact` | `OrderlyOnce`: `Spec => []GaugeTracksStreams` | an equation: the gauge is the number of calls it went up for and was not taken back for, less the number of terminal events the router has counted; and there are as many terminal events as jobs that ended. Not one request at a time: several jobs may have one id, and the router cannot tell them apart. |
| GatewayContract | `KeepsContract` | `Spec => KeepsTokenLog` | `JobsBacked`: what a running job counts from is in the log, and a job past its end has one there. |
| | `NoTokenIsMissing` | `Spec => []NoTokenMissing` | of a reader's property of the log, one of the gateway's stream: by the contract no log has a gap, and by `StreamsTell` the stream of the only submission of its id is a copy of the log's beginning. |
| | `AnyWorkersDo` | `OpenSpec => []Promises /\ EmittedMonotone` | a publication appends one event to one log that has a job or events, and touches nothing else. `OpenInv` (`StreamInv`, `BackedInv`, `AgreeInv`, `JobsBacked` and the contract's invariant) survives that, because whatever it says of a log is about positions already written, or about logs without a job; of a log past its first terminal event `Followed` claims nothing that later events could refute. |
| | `ClusterIsOpen` | `ClusterSpec => OpenSpec /\ W!Spec /\ []ClusterInv` | `ClusterInv` is `OpenInv`, `Worker`'s invariants and `Fed`: the jobs the workers were given are jobs the gateway's producer delivered. With it a step of a worker is a stutter of the gateway or a publication the contract allows. |
| | `ClusterKeepsPromises` | `ClusterSpec => [](Promises /\ W!CommittedHasEnded) /\ EmittedMonotone` | from the two before. |
| WorkerProofs | `WorkersTyped` | `Spec => []TypeOK` | with the messages in hand and the fetch positions inside the partitions. |
| | `OnlyEndedCommitted` | `Spec => []CommittedHasEnded` | a job below a fetch position has ended, was given up on, or is in its owner's hand; a worker past `Finish` has its terminal event in its queue or in the log, and past `Flush` in the log. Whatever is before the message in hand is safe too, so a stale commit is. |
| | `KeepsContract` | `Spec => KeepsTokenLog` | what is in a queue is of a job in the request topic (`OfJobs`), and a chain of events each of which builds on the log or on an earlier one in the same queue; arriving or arriving twice keeps it so, and dying loses a suffix. |
| TokenLogProofs | `ContractHolds` | `Spec => []ContractInv` | `NoGap`, `CancelledWasAsked`, `NothingUngiven` and `SettledHasEnded` are inductive together with the types. |
| StartupProofs | `StartupTyped` | `Spec => []TypeOK` | with `WaitOK`: a process that waits is within a sleep of its deadline, since it is tested before each. |
| | `StartupGivesUpInTime` | `Spec => []GivesUpInTime` | `WaitOK`, and that one attempt takes at most `FetchTimeout`: with the code's constants a gateway without topics gives up between 60 and 66 seconds. |
| | `AcceptedJobsHaveTopics` | `Spec => []JobsHaveTopics` | past `waiting`, the needed topics are there and stay; a route's topic is a needed one, whatever the loop made of MODEL_ROUTES. |
| | `LastEntryWins` | `Spec => []RoutesAreTheLastEntries` | by induction over the entries, for a MODEL_ROUTES of any length: after `n` entries the map has, for each model, the topic of the last of its entries among them, and nothing else; a round of the loop keeps that. The library's induction theorem takes an operator, which no installed prover can instantiate, so `Induction` states it for a set of numbers, from `NatLessThanWellFounded` and `WFMin`. |
| | `AcceptedTokensWithinLimit`, `CancelFinds`, `SameAnswer` | the invariants of these names | case analysis of `submit` and `infer` on the request kept in `last`. |
| WebConsoleProofs | `ConsoleTyped`, `NeverStuckStreaming`, `ShowsOne`, `CancelledSilent` | `Spec => []` of `TypeOK`, `StreamingIsLive`, `ShowsOneRequest` and `CancelledIsSilent` | one inductive invariant: `Streaming` comes with an open, untold stream, which until a crossing is the only one and the newest request's. |

*Three named hypotheses.* What is promised to some clients only, or without some faults,
is a theorem with a named hypothesis on `Endpoints` and `Faults`; calls, bounds, threads
and capacities stay arbitrary. The configurations of the runs satisfy them.

* `Orderly`: no web requests (`infer` cleans up nothing), no handler dropped while it
  awaits the producer, no stray events, no missed events and no restart. Each of these
  can leak a place, as `KnownLeaksOnly` and section 4 say. Cancellations, hang-ups, lost and
  ambiguous jobs, several jobs of an id and crashing workers are allowed.
* `OrderlyOnce`: `Orderly`, and jobs delivered as the producer says and processed once. An ambiguous error takes the gauge down in the handler although the
  job's end will do so again; a crash ends a job twice.
* `Once` is for admission: submits with ids of their own and their replays, each job as in
  `OrderlyOnce`. Otherwise a record can end early and become active again without a test:
  a cancelled one by the tokens in flight, that of a running request by its next event
  after a refused duplicate marked it Failed.

*Assume and guarantee.* `Worker` implements `TokenLog` (`WorkerProofs!KeepsContract`)
and `Gateway`'s environment does (`GatewayContract!KeepsContract`), both by refinement
with `INSTANCE TokenLog WITH`. The second says that nothing shown of the gateway as
refuted hangs on an event no worker would publish. For what holds of the gateway the
other direction counts: its promises must not hang on what the built-in workers cannot
do. `Promises` are `TypeOK`, `StatusBackedByLog`, `StreamContiguous`, `NoOrphanStream`,
`EndedToldWhy`, `NoTokenMissing` and `ReplayAgrees`; `AnyWorkersDo` proves them and
`EmittedMonotone` for the gateway among any publishers that keep the contract.
`ClusterKeepsPromises` has them of the gateway
and the workers of `Worker` as one system, from the assumptions of the two modules and no
other. What counts jobs or needs somebody to finish them (`KnownLeaksOnly`,
`NoLeakedSlot`, `AdmissionBound`, `GaugeTracksStreams` and the liveness properties) is
shown for the built-in workers only: the contract lets an attempt start again after the
end, or never end. `TokenLogProofs` says what a reader gets out of the contract alone.

The proofs are laid out by component: one lemma per group of actions, one step
per action, and framing lemmas that say once which actions touch which variables.

Only model-checked: the liveness properties, which with fairness and ENABLED are out of
the prover's reach.
`KeepsTokenLog` is the safety part of a refinement; `JobsEnd` is its liveness, by TLC.

## 6. Not modelled

* The Transformers backend's generation thread: it runs the transformers library, and
  whether it ends when `generate` raises is not settled in this repository. `Worker`
  assumes a backend that yields or ends.
* Events of one request that overtake each other through the retries of the workers'
  producer; `Deliver_out_of_order` in `Worker` shows that they break the contract.
* Several gateways, whether with group ids of their own (each sees all events and
  ignores those it has no stream for) or, misconfigured, with one.
* Exceptions out of `produce` when the worker's local queue is full, and a
  cancellation watcher whose thread dies.
* TLS, HTTP and SSE encoding apart from the keep-alive, logging, metrics that only
  count, the worker's environment variables, the command-line tools, test drivers and
  manifests: they keep no state this system's correctness depends on. `deadline_ms`
  travels to the worker and is never read there, so there is no behaviour to model.
