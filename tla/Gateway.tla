------------------------------- MODULE Gateway -------------------------------
(***************************************************************************)
(* The Rust control plane of Cria: the gRPC Submit/Cancel handlers, the    *)
(* BFF infer/cancel handlers, the replay task, the stream registry, the    *)
(* request state and the token-event router, all running concurrently on   *)
(* a multi-threaded tokio runtime over two DashMaps and a registry.        *)
(*                                                                         *)
(* Grain of atomicity.  A handler is cut at every operation on a shared    *)
(* map and at every await: between two of them another handler, the        *)
(* router or a replay task may run.  Metric updates commute with           *)
(* everything and are folded into the step next to them.                   *)
(*                                                                         *)
(* Kafka and the workers are modelled here as the gateway sees them.       *)
(* Token events of a request share a partition key, so topic[r] is an      *)
(* immutable per-request log and an event is known by its offset in it:    *)
(* the event cache, the channels and the snapshots hold offsets.           *)
(***************************************************************************)
EXTENDS RequestState, Sequences, FiniteSets

CONSTANTS
    Calls,          \* client calls of Submit / infer, each made at most once
    RequestIds,     \* request ids the clients use
    NoCall,         \* "no stream": not a call
    NoRequest,      \* the router holds no event: not a request id
    Endpoints,      \* the endpoints clients use
    Faults,         \* the faults the environment may inject
    UniqueIds,      \* TRUE: an id is submitted once and replayed once
    MaxActive,      \* MAX_ACTIVE_REQUESTS
    Capacity,       \* slots of a stream's mpsc channel (256)
    Threads,        \* worker threads of the tokio runtime
    MaxTokens,      \* tokens a job generates (bound of the model)
    MaxAttempts,    \* attempts at a job and stray events of it (bound of the model)
    MaxRestarts     \* gateway restarts (bound of the model)

AllEndpoints == {"submit", "replay", "infer", "cancel", "infer_cancel"}
AllFaults == {"lost", "ambiguous", "dropped", "disconnect", "worker_crash", "stray",
              "late_assignment"}

ASSUME GatewayAssumption ==
    /\ NoCall \notin Calls
    /\ NoRequest \notin RequestIds
    /\ Endpoints \subseteq AllEndpoints
    /\ Faults \subseteq AllFaults
    /\ UniqueIds \in BOOLEAN
    /\ MaxActive \in Nat \ {0}
    /\ Capacity \in Nat \ {0}
    /\ Threads \in Nat \ {0}
    /\ MaxTokens \in Nat
    /\ MaxAttempts \in Nat \ {0}
    /\ MaxRestarts \in Nat

VARIABLES
    call,               \* what each call asks for, fixed by the client
    pc,                 \* where each call's handler (then its stream) is
    records,            \* RequestState.inner
    events,             \* RequestState.events, as offsets
    registry,           \* StreamRegistry.inner: whose sender an id maps to
    sent,               \* offsets ever put in a call's channel
    read,               \* how many of them the client has taken out
    task, snap,         \* the spawned replay task and its copy of the events
    router,             \* the event route_one is working on
    cancelling,         \* accepted cancellations not yet published
    activeStreams,      \* the inference_active_streams gauge
    cancelledRequests,  \* the inference_cancelled_requests_total counter
    topic,              \* the token topic, one log per request
    position, joined,   \* the gateway consumer: next offset - 1, assigned?
    control,            \* ids with a cancellation event in the control topic
    job, seq, tries,    \* each call's job message and the attempt on it
    restarts,
    displaced           \* history: ids a registration of which dropped another's sender

mapVars    == <<records, events, registry>>
chanVars   == <<sent, read, displaced>>
taskVars   == <<task, snap>>
metricVars == <<activeStreams, cancelledRequests>>
consVars   == <<position, joined>>
workerVars == <<topic, job, seq, tries>>
cancelVars == <<cancelling, control>>
vars == <<call, pc, mapVars, chanVars, taskVars, router, cancelVars,
          metricVars, consVars, workerVars, restarts>>

-----------------------------------------------------------------------------
(* Types and views *)

TerminalTypes == {"COMPLETED", "FAILED", "CANCELLED"}
EventTypes == {"STARTED", "TOKEN"} \cup TerminalTypes
Event == [type : EventTypes, seq : Nat]

PCs == {"idle",          \* not made yet
        "admitted",      \* submit: passed admission control
        "replaying",     \* submit with replay_from_beginning: passed it too
        "inserted",      \* record inserted; about to test contains_key
        "found",         \* replay: record exists; about to test contains_key
        "unique",        \* contains_key was false; about to insert the sender
        "conflict",      \* submit: register refused; about to finish_failed
        "producing",     \* awaiting produce_request
        "enqueueFailed", \* submit: produce failed; about to unregister
        "unregistered",  \* submit: unregistered; about to finish_failed
        "snapshotting",  \* replay: registered; about to copy the events
        "streaming",     \* the client holds the response stream
        "ended",         \* the stream ended: every sender is gone
        "failed",        \* the handler returned an error
        "gone"}          \* the client or the gateway process went away

\* Handlers that are on a runtime thread, between two awaits.
OnThread == {"admitted", "replaying", "inserted", "found", "unique",
             "conflict", "enqueueFailed", "unregistered", "snapshotting"}

\* The mpsc Receiver of the call exists.
ReceiverPCs == {"producing", "enqueueFailed", "unregistered", "snapshotting", "streaming"}
ReceiverAlive(c) == pc[c] \in ReceiverPCs

JobStates == {"none",      \* nothing produced
              "inflight",  \* in the producer's queue
              "lost",      \* produce timed out, the broker never got it
              "queued",    \* in the request topic, uncommitted
              "running",   \* a worker is processing it
              "emitted",   \* terminal event published, offset not committed
              "done"}      \* committed

\* The local variables of the replay task: what it is at, the next event's index,
\* and the Sender it holds a clone of.  The router's are the like.
TaskState == [pc : {"none", "loop", "sending"}, pos : Nat, chan : Calls \cup {NoCall}]
RouterState == [pc : {"poll", "update", "lookup", "send", "unregister"},
                id : RequestIds \cup {NoRequest}, off : Nat, chan : Calls \cup {NoCall}]

IdleTask == [pc |-> "none", pos |-> 0, chan |-> NoCall]
IdleRouter == [pc |-> "poll", id |-> NoRequest, off |-> 0, chan |-> NoCall]

EventAt(r, off) == topic[r][off]
IsTerminalAt(r, off) == EventAt(r, off).type \in TerminalTypes

ActiveCount == Cardinality({r \in RequestIds : IsActive(records[r])})

FreeThread == Cardinality({c \in Calls : pc[c] \in OnThread}) < Threads

Goto(c, next) == pc' = [pc EXCEPT ![c] = next]

-----------------------------------------------------------------------------
(* Initial state: a fresh gateway process, empty topics, and any           *)
(* assignment of endpoints and ids to the calls.                           *)

Init ==
    /\ call \in [Calls -> [kind : Endpoints \cap {"submit", "infer", "replay"},
                           id : RequestIds]]
    /\ UniqueIds => \A c, d \in Calls :
           c # d /\ call[c].id = call[d].id
               => (call[c].kind = "replay") # (call[d].kind = "replay")
    /\ pc = [c \in Calls |-> "idle"]
    /\ records = [r \in RequestIds |-> NoRecord]
    /\ events = [r \in RequestIds |-> <<>>]
    /\ registry = [r \in RequestIds |-> NoCall]
    /\ sent = [c \in Calls |-> <<>>]
    /\ read = [c \in Calls |-> 0]
    /\ task = [c \in Calls |-> IdleTask]
    /\ snap = [c \in Calls |-> <<>>]
    /\ router = IdleRouter
    /\ cancelling = {} /\ control = {}
    /\ activeStreams = 0 /\ cancelledRequests = 0
    /\ topic = [r \in RequestIds |-> <<>>]
    /\ position = [r \in RequestIds |-> 0]
    /\ joined = ("late_assignment" \notin Faults)
    /\ job = [c \in Calls |-> "none"]
    /\ seq = [c \in Calls |-> 0]
    /\ tries = [c \in Calls |-> 0]
    /\ restarts = 0 /\ displaced = {}

-----------------------------------------------------------------------------
(* GatewayService::submit and, from the record on, bff::infer.             *)

Admits_off_by_one == ActiveCount <= MaxActive

Admits == ActiveCount < MaxActive

\* Admission control; a replay passes it too before it branches off.
SubmitCheck(c) ==
    /\ pc[c] = "idle" /\ FreeThread
    /\ \/ /\ call[c].kind = "submit" /\ Admits
          /\ Goto(c, "admitted")
       \/ /\ call[c].kind = "replay" /\ Admits
          /\ Goto(c, "replaying")
       \/ /\ call[c].kind # "infer" /\ ~Admits
          /\ Goto(c, "failed")
    /\ UNCHANGED <<call, mapVars, chanVars, taskVars, router, cancelVars,
                   metricVars, consVars, workerVars, restarts>>

\* state.insert overwrites whatever record the id had; the gauge goes up.
InsertRecord(c) ==
    /\ records' = [records EXCEPT ![call[c].id] = queued]
    /\ activeStreams' = activeStreams + 1
    /\ Goto(c, "inserted")
    /\ UNCHANGED <<call, events, registry, chanVars, taskVars, router, cancelVars,
                   cancelledRequests, consVars, workerVars, restarts>>

SubmitInsert(c) == pc[c] = "admitted" /\ InsertRecord(c)

\* The web endpoint has no admission control.
InferInsert(c) ==
    pc[c] = "idle" /\ call[c].kind = "infer" /\ FreeThread /\ InsertRecord(c)

\* register, first half: contains_key.  Only submit cleans up on a refusal.
RegisterCheck(c) ==
    /\ pc[c] \in {"inserted", "found"}
    /\ \/ /\ registry[call[c].id] = NoCall
          /\ Goto(c, "unique")
       \/ /\ registry[call[c].id] # NoCall /\ call[c].kind = "submit"
          /\ Goto(c, "conflict")
       \/ /\ registry[call[c].id] # NoCall /\ call[c].kind # "submit"
          /\ Goto(c, "failed")
    /\ UNCHANGED <<call, mapVars, chanVars, taskVars, router, cancelVars,
                   metricVars, consVars, workerVars, restarts>>

\* A mutated clean-up that forgets the gauge.
FailAndDec_keeps_gauge(c) ==
    /\ Goto(c, "failed")
    /\ records' = [records EXCEPT ![call[c].id] = update(@, finish_failed(@))]
    /\ UNCHANGED activeStreams

\* A mutated clean-up that leaves the record as it is.
FailAndDec_keeps_record(c) ==
    /\ Goto(c, "failed")
    /\ activeStreams' = activeStreams - 1
    /\ UNCHANGED records

\* The record fails, the gauge goes down, the client gets its error.
FailAndDec(c) ==
    /\ Goto(c, "failed")
    /\ records' = [records EXCEPT ![call[c].id] = update(@, finish_failed(@))]
    /\ activeStreams' = activeStreams - 1

\* submit's map_err closure: the id already has a stream.
FinishConflict(c) ==
    /\ pc[c] = "conflict" /\ FailAndDec(c)
    /\ UNCHANGED <<call, events, registry, chanVars, taskVars, router, cancelVars,
                   cancelledRequests, consVars, workerVars, restarts>>

\* register, second half: insert drops any sender stored in between.  A replay
\* goes on to copy the events, the others hand the job to the producer.
RegisterInsert(c) ==
    /\ pc[c] = "unique"
    /\ registry' = [registry EXCEPT ![call[c].id] = c]
    /\ displaced' = displaced \cup (IF registry[call[c].id] = NoCall THEN {} ELSE {call[c].id})
    /\ \/ /\ call[c].kind = "replay"
          /\ Goto(c, "snapshotting") /\ UNCHANGED job
       \/ /\ call[c].kind # "replay"
          /\ Goto(c, "producing") /\ job' = [job EXCEPT ![c] = "inflight"]
    /\ UNCHANGED <<call, records, events, sent, read, taskVars, router, cancelVars,
                   metricVars, consVars, topic, seq, tries, restarts>>

Delivered(c) == job[c] \in {"queued", "running", "emitted", "done"}

\* produce_request returned Ok: the client gets its stream.
ProduceAck(c) ==
    /\ pc[c] = "producing" /\ Delivered(c)
    /\ Goto(c, "streaming")
    /\ UNCHANGED <<call, mapVars, chanVars, taskVars, router, cancelVars,
                   metricVars, consVars, workerVars, restarts>>

\* produce_request returned Err: message.timeout.ms ran out, with the message
\* lost or (the acknowledgement was) not.  infer returns without any cleanup.
ProduceError(c) ==
    /\ pc[c] = "producing" /\ FreeThread
    /\ job[c] = "lost" \/ ("ambiguous" \in Faults /\ Delivered(c))
    /\ \/ call[c].kind = "submit" /\ Goto(c, "enqueueFailed")
       \/ call[c].kind = "infer" /\ Goto(c, "failed")
    /\ UNCHANGED <<call, mapVars, chanVars, taskVars, router, cancelVars,
                   metricVars, consVars, workerVars, restarts>>

\* A mutated clean-up that leaves the sender in the registry.
EnqueueUnregister_forgets(c) ==
    /\ pc[c] = "enqueueFailed"
    /\ Goto(c, "unregistered")
    /\ UNCHANGED <<call, mapVars, chanVars, taskVars, router, cancelVars,
                   metricVars, consVars, workerVars, restarts>>

EnqueueUnregister(c) ==
    /\ pc[c] = "enqueueFailed"
    /\ registry' = [registry EXCEPT ![call[c].id] = NoCall]
    /\ Goto(c, "unregistered")
    /\ UNCHANGED <<call, records, events, chanVars, taskVars, router, cancelVars,
                   metricVars, consVars, workerVars, restarts>>

EnqueueFinish(c) ==
    /\ pc[c] = "unregistered" /\ FailAndDec(c)
    /\ UNCHANGED <<call, events, registry, chanVars, taskVars, router, cancelVars,
                   cancelledRequests, consVars, workerVars, restarts>>

\* The client hangs up while the handler awaits the producer: the server drops
\* the handler's future, and with it the receiver, at that await.
DropHandler(c) ==
    /\ "dropped" \in Faults /\ pc[c] = "producing"
    /\ Goto(c, "gone")
    /\ UNCHANGED <<call, mapVars, chanVars, taskVars, router, cancelVars,
                   metricVars, consVars, workerVars, restarts>>

-----------------------------------------------------------------------------
(* The client's end of a response stream                                   *)

ClientRead(c) ==
    /\ pc[c] = "streaming" /\ read[c] < Len(sent[c])
    /\ read' = [read EXCEPT ![c] = @ + 1]
    /\ UNCHANGED <<call, pc, mapVars, sent, displaced, taskVars, router, cancelVars,
                   metricVars, consVars, workerVars, restarts>>

\* Someone still owns a clone of the Sender of c's channel.
SenderAlive(c) ==
    \/ \E r \in RequestIds : registry[r] = c
    \/ router.chan = c
    \/ \E t \in Calls : task[t].chan = c

\* recv returns None: the channel is drained and every sender dropped.
StreamEnd(c) ==
    /\ pc[c] = "streaming" /\ read[c] = Len(sent[c]) /\ ~SenderAlive(c)
    /\ Goto(c, "ended")
    /\ UNCHANGED <<call, mapVars, chanVars, taskVars, router, cancelVars,
                   metricVars, consVars, workerVars, restarts>>

Disconnect(c) ==
    /\ "disconnect" \in Faults /\ pc[c] = "streaming"
    /\ Goto(c, "gone")
    /\ UNCHANGED <<call, mapVars, chanVars, taskVars, router, cancelVars,
                   metricVars, consVars, workerVars, restarts>>

-----------------------------------------------------------------------------
(* Channels.  StreamRegistry::send looks the id up, clones the Sender and   *)
(* awaits a slot; send fails at once when the Receiver is gone.            *)

Room(c) == Len(sent[c]) - read[c] < Capacity

\* A mutated send that, like try_send, drops the event when there is no slot.
SendOn_try_send(c, off) ==
    \/ /\ ReceiverAlive(c) /\ Room(c)
       /\ sent' = [sent EXCEPT ![c] = Append(@, off)]
    \/ /\ ~(ReceiverAlive(c) /\ Room(c))
       /\ UNCHANGED sent

SendOn(c, off) ==
    \/ /\ ReceiverAlive(c) /\ Room(c)
       /\ sent' = [sent EXCEPT ![c] = Append(@, off)]
    \/ /\ ~ReceiverAlive(c)
       /\ UNCHANGED sent

-----------------------------------------------------------------------------
(* replay_cached_events and the task it spawns                             *)

ReplayLookup(c) ==
    /\ pc[c] = "replaying"
    /\ \/ Present(records[call[c].id]) /\ Goto(c, "found")
       \/ ~Present(records[call[c].id]) /\ Goto(c, "failed")
    /\ UNCHANGED <<call, mapVars, chanVars, taskVars, router, cancelVars,
                   metricVars, consVars, workerVars, restarts>>

\* Copy the cached events, spawn the task, hand the stream to the client.
Snapshot(c) ==
    /\ pc[c] = "snapshotting"
    /\ snap' = [snap EXCEPT ![c] = events[call[c].id]]
    /\ task' = [task EXCEPT ![c].pc = "loop"]
    /\ Goto(c, "streaming")
    /\ UNCHANGED <<call, mapVars, chanVars, router, cancelVars,
                   metricVars, consVars, workerVars, restarts>>

\* The task sends by id: whoever is registered now gets the event.
TaskLookup(c) ==
    /\ task[c].pc = "loop" /\ task[c].pos < Len(snap[c])
    /\ \/ /\ registry[call[c].id] = NoCall
          /\ task' = [task EXCEPT ![c].pos = @ + 1]
       \/ /\ registry[call[c].id] # NoCall
          /\ task' = [task EXCEPT ![c].pc = "sending", ![c].chan = registry[call[c].id]]
    /\ UNCHANGED <<call, pc, mapVars, chanVars, snap, router, cancelVars,
                   metricVars, consVars, workerVars, restarts>>

TaskSend(c) ==
    /\ task[c].pc = "sending"
    /\ SendOn(task[c].chan, snap[c][task[c].pos + 1])
    /\ task' = [task EXCEPT ![c] = [pc |-> "loop", pos |-> @.pos + 1, chan |-> NoCall]]
    /\ UNCHANGED <<call, pc, mapVars, read, displaced, snap, router, cancelVars,
                   metricVars, consVars, workerVars, restarts>>

\* A mutated task that leaves every stream to the router.
SnapIsTerminal_never(c) == FALSE

\* The loop leaves `terminal` telling of the last cached event only.
SnapIsTerminal(c) ==
    snap[c] # <<>> /\ IsTerminalAt(call[c].id, snap[c][Len(snap[c])])

\* Unregister the id if the request had ended; else leave the stream to the
\* router.
TaskFinish(c) ==
    /\ task[c].pc = "loop" /\ task[c].pos = Len(snap[c])
    /\ \/ /\ SnapIsTerminal(c)
          /\ registry' = [registry EXCEPT ![call[c].id] = NoCall]
       \/ /\ ~SnapIsTerminal(c)
          /\ UNCHANGED registry
    /\ task' = [task EXCEPT ![c] = IdleTask]
    /\ UNCHANGED <<call, pc, records, events, chanVars, snap, router, cancelVars,
                   metricVars, consVars, workerVars, restarts>>

-----------------------------------------------------------------------------
(* Cancellation.  A refused cancel changes nothing.                        *)

AcceptCancel(r) ==
    /\ accepts_cancel(records[r])
    /\ records' = [records EXCEPT ![r] = cancel(@)]
    /\ cancelling' = cancelling \cup {r}
    /\ UNCHANGED <<call, pc, events, registry, chanVars, taskVars, router, control,
                   activeStreams, consVars, workerVars, restarts>>

\* GatewayService::cancel.
Cancel(r) ==
    /\ "cancel" \in Endpoints /\ AcceptCancel(r)
    /\ cancelledRequests' = cancelledRequests + 1

\* bff::cancel.
InferCancel(r) ==
    /\ "infer_cancel" \in Endpoints /\ AcceptCancel(r)
    /\ UNCHANGED cancelledRequests

PublishCancel(r) ==
    /\ r \in cancelling
    /\ cancelling' = cancelling \ {r} /\ control' = control \cup {r}
    /\ UNCHANGED <<call, pc, mapVars, chanVars, taskVars, router,
                   metricVars, consVars, workerVars, restarts>>

\* The produce failed or its handler was dropped: a warning, or nothing.
LosePublish(r) ==
    /\ "lost" \in Faults /\ r \in cancelling
    /\ cancelling' = cancelling \ {r}
    /\ UNCHANGED <<call, pc, mapVars, chanVars, taskVars, router, control,
                   metricVars, consVars, workerVars, restarts>>

-----------------------------------------------------------------------------
(* The token-event router, one task: route_events and route_one            *)

\* A mutated record_event that caches only tokens and terminal events.
record_event_no_started(r, off) ==
    IF EventAt(r, off).type = "STARTED" THEN events[r] ELSE Append(events[r], off)

record_event(r, off) == Append(events[r], off)

\* Partition assignment.  The consumer group is this process's own unless
\* configured, so it has no committed offset, and auto.offset.reset = latest
\* starts it behind everything already in the topic.
Assign ==
    /\ ~joined /\ joined' = TRUE
    /\ position' = [r \in RequestIds |-> Len(topic[r])]
    /\ UNCHANGED <<call, pc, mapVars, chanVars, taskVars, router, cancelVars,
                   metricVars, workerVars, restarts>>

\* The next message of r's partition: route_one begins with record_event.
RouterPoll(r) ==
    LET off == position[r] + 1 IN
    /\ joined /\ router.pc = "poll" /\ off <= Len(topic[r])
    /\ position' = [position EXCEPT ![r] = off]
    /\ events' = [events EXCEPT ![r] = record_event(r, off)]
    /\ router' = [pc |-> "update", id |-> r, off |-> off, chan |-> NoCall]
    /\ UNCHANGED <<call, pc, records, registry, chanVars, taskVars, cancelVars,
                   metricVars, joined, workerVars, restarts>>

RoutedType == EventAt(router.id, router.off).type

RouterUpdate ==
    /\ router.pc = "update"
    /\ records' = [records EXCEPT ![router.id] = ApplyEvent(@, EventAt(router.id, router.off))]
    /\ activeStreams' = activeStreams - (IF RoutedType \in TerminalTypes THEN 1 ELSE 0)
    /\ cancelledRequests' = cancelledRequests + (IF RoutedType = "CANCELLED" THEN 1 ELSE 0)
    /\ router' = [router EXCEPT !.pc = "lookup"]
    /\ UNCHANGED <<call, pc, events, registry, chanVars, taskVars, cancelVars,
                   consVars, workerVars, restarts>>

\* A mutated route_one that never unregisters.
AfterSend_keeps_stream == IdleRouter

\* Where the router goes once the send is over, one way or another.
AfterSend ==
    IF RoutedType \in TerminalTypes
    THEN [router EXCEPT !.pc = "unregister", !.chan = NoCall]
    ELSE IdleRouter

RouterLookup ==
    /\ router.pc = "lookup"
    /\ \/ registry[router.id] = NoCall /\ router' = AfterSend
       \/ /\ registry[router.id] # NoCall
          /\ router' = [router EXCEPT !.pc = "send", !.chan = registry[router.id]]
    /\ UNCHANGED <<call, pc, mapVars, chanVars, taskVars, cancelVars,
                   metricVars, consVars, workerVars, restarts>>

\* Awaits a slot of one client's channel: every other stream waits with it.
RouterSend ==
    /\ router.pc = "send"
    /\ SendOn(router.chan, router.off)
    /\ router' = AfterSend
    /\ UNCHANGED <<call, pc, mapVars, read, displaced, taskVars, cancelVars,
                   metricVars, consVars, workerVars, restarts>>

\* Removes whatever stream the id has by now.
RouterUnregister ==
    /\ router.pc = "unregister"
    /\ registry' = [registry EXCEPT ![router.id] = NoCall]
    /\ router' = IdleRouter
    /\ UNCHANGED <<call, pc, records, events, chanVars, taskVars, cancelVars,
                   metricVars, consVars, workerVars, restarts>>

-----------------------------------------------------------------------------
(* Environment: the brokers and the workers, as this gateway observes them. *)
(* Two jobs with one id may run at once: ids are not unique across model    *)
(* topics, and a crashed worker's job is given to another.                  *)

Deliver(c) ==
    /\ job[c] = "inflight" /\ job' = [job EXCEPT ![c] = "queued"]
    /\ UNCHANGED <<call, pc, mapVars, chanVars, taskVars, router, cancelVars,
                   metricVars, consVars, topic, seq, tries, restarts>>

Lose(c) ==
    /\ "lost" \in Faults
    /\ job[c] = "inflight" /\ job' = [job EXCEPT ![c] = "lost"]
    /\ UNCHANGED <<call, pc, mapVars, chanVars, taskVars, router, cancelVars,
                   metricVars, consVars, topic, seq, tries, restarts>>

Publish(c, type, n) ==
    topic' = [topic EXCEPT ![call[c].id] = Append(@, [type |-> type, seq |-> n])]

\* process_job publishes STARTED with sequence number 0 ...
WorkerStart(c) ==
    /\ job[c] = "queued" /\ tries[c] < MaxAttempts
    /\ job' = [job EXCEPT ![c] = "running"]
    /\ tries' = [tries EXCEPT ![c] = @ + 1]
    /\ seq' = [seq EXCEPT ![c] = 0]
    /\ Publish(c, "STARTED", 0)
    /\ UNCHANGED <<call, pc, mapVars, chanVars, taskVars, router, cancelVars,
                   metricVars, consVars, restarts>>

\* A mutated backend loop that yields one token too many.
TokensLeft_off_by_one(c) == seq[c] <= MaxTokens

TokensLeft(c) == seq[c] < MaxTokens

\* ... a TOKEN per generated token, numbered from 1 ...
WorkerToken(c) ==
    /\ job[c] = "running" /\ TokensLeft(c)
    /\ seq' = [seq EXCEPT ![c] = @ + 1]
    /\ Publish(c, "TOKEN", seq[c] + 1)
    /\ UNCHANGED <<call, pc, mapVars, chanVars, taskVars, router, cancelVars,
                   metricVars, consVars, job, tries, restarts>>

\* A mutated worker that reports a cancellation nobody published: one that
\* remembers ids from before it was asked.
WorkerFinish_cancels_unasked(c) ==
    /\ job[c] = "running"
    /\ job' = [job EXCEPT ![c] = "emitted"]
    /\ \E type \in TerminalTypes : Publish(c, type, seq[c])
    /\ UNCHANGED <<call, pc, mapVars, chanVars, taskVars, router, cancelVars,
                   metricVars, consVars, seq, tries, restarts>>

\* ... and one terminal event; CANCELLED only if a cancellation was published,
\* which the worker may also notice too late.
WorkerFinish(c) ==
    /\ job[c] = "running"
    /\ job' = [job EXCEPT ![c] = "emitted"]
    /\ \E type \in TerminalTypes :
          /\ type = "CANCELLED" => call[c].id \in control
          /\ Publish(c, type, seq[c])
    /\ UNCHANGED <<call, pc, mapVars, chanVars, taskVars, router, cancelVars,
                   metricVars, consVars, seq, tries, restarts>>

\* main commits the job's offset once process_job returned.
WorkerCommit(c) ==
    /\ job[c] = "emitted" /\ job' = [job EXCEPT ![c] = "done"]
    /\ UNCHANGED <<call, pc, mapVars, chanVars, taskVars, router, cancelVars,
                   metricVars, consVars, topic, seq, tries, restarts>>

\* A worker dies before it commits: the job is processed again.
WorkerCrash(c) ==
    /\ "worker_crash" \in Faults
    /\ job[c] \in {"running", "emitted"} /\ tries[c] < MaxAttempts
    /\ job' = [job EXCEPT ![c] = "queued"]
    /\ UNCHANGED <<call, pc, mapVars, chanVars, taskVars, router, cancelVars,
                   metricVars, consVars, topic, seq, tries, restarts>>

\* A worker that lost its partition goes on beside the new owner, or a retry of
\* its producer repeats an event: whatever attempt it is of, the event builds on
\* one that is in the log.
StrayEvent(c) ==
    LET r == call[c].id
        Progress == {i \in 1 .. Len(topic[r]) : ~IsTerminalAt(r, i)}
    IN
    /\ "stray" \in Faults /\ tries[c] \in 1 .. MaxAttempts - 1
    /\ tries' = [tries EXCEPT ![c] = @ + 1]
    /\ \/ Publish(c, "STARTED", 0)
       \/ \E i \in Progress : /\ EventAt(r, i).seq < MaxTokens
                             /\ Publish(c, "TOKEN", EventAt(r, i).seq + 1)
       \/ \E i \in Progress : \E type \in TerminalTypes :
             /\ type = "CANCELLED" => r \in control
             /\ Publish(c, type, EventAt(r, i).seq)
    /\ UNCHANGED <<call, pc, mapVars, chanVars, taskVars, router, cancelVars,
                   metricVars, consVars, job, seq, restarts>>

-----------------------------------------------------------------------------
(* The gateway process dies and a new one starts: everything in memory is   *)
(* lost, streams break, and of the messages in the producer's queue some    *)
(* had already left.                                                        *)

GatewayRestart ==
    /\ restarts < MaxRestarts /\ restarts' = restarts + 1
    /\ pc' = [c \in Calls |-> IF pc[c] \in {"idle", "ended", "failed"} THEN pc[c] ELSE "gone"]
    /\ records' = [r \in RequestIds |-> NoRecord]
    /\ events' = [r \in RequestIds |-> <<>>]
    /\ registry' = [r \in RequestIds |-> NoCall]
    /\ task' = [c \in Calls |-> IdleTask]
    /\ snap' = [c \in Calls |-> <<>>]
    /\ router' = IdleRouter
    /\ cancelling' = {}
    /\ activeStreams' = 0 /\ cancelledRequests' = 0
    /\ joined' = FALSE
    /\ \E left \in SUBSET Calls :
          job' = [c \in Calls |-> IF job[c] # "inflight" THEN job[c]
                                  ELSE IF c \in left THEN "queued" ELSE "lost"]
    /\ UNCHANGED <<call, chanVars, control, position, topic, seq, tries>>

-----------------------------------------------------------------------------

Handler(c) ==
    \/ SubmitInsert(c) \/ RegisterCheck(c) \/ FinishConflict(c) \/ RegisterInsert(c)
    \/ ProduceAck(c) \/ ProduceError(c) \/ EnqueueUnregister(c) \/ EnqueueFinish(c)
    \/ ReplayLookup(c) \/ Snapshot(c)

Task(c) == TaskLookup(c) \/ TaskSend(c) \/ TaskFinish(c)

Router ==
    \/ \E r \in RequestIds : RouterPoll(r)
    \/ RouterUpdate \/ RouterLookup \/ RouterSend \/ RouterUnregister

Worker(c) == WorkerStart(c) \/ WorkerToken(c) \/ WorkerFinish(c) \/ WorkerCommit(c)

Next ==
    \/ \E c \in Calls :
          \/ SubmitCheck(c) \/ InferInsert(c) \/ Handler(c) \/ DropHandler(c)
          \/ Task(c) \/ ClientRead(c) \/ StreamEnd(c) \/ Disconnect(c)
          \/ Deliver(c) \/ Lose(c) \/ Worker(c) \/ WorkerCrash(c) \/ StrayEvent(c)
    \/ \E r \in RequestIds :
          Cancel(r) \/ InferCancel(r) \/ PublishCancel(r) \/ LosePublish(r)
    \/ Router \/ Assign \/ GatewayRestart

Spec == Init /\ [][Next]_vars

\* tokio runs every ready task, brokers deliver or the producer times out,
\* clients read what they are sent, workers get through their jobs.  Nobody
\* has to make a call, cancel, hang up, crash or restart.
Fairness ==
    /\ \A c \in Calls :
          /\ WF_vars(Handler(c)) /\ WF_vars(Task(c))
          /\ WF_vars(ClientRead(c)) /\ WF_vars(StreamEnd(c))
          /\ WF_vars(Deliver(c)) /\ WF_vars(Worker(c))
    /\ WF_vars(Router) /\ WF_vars(Assign)

FairSpec == Spec /\ Fairness

-----------------------------------------------------------------------------
(* Type invariant                                                          *)

\* Every variable keeps its type, over everything the actions above do to it.
TypeOK ==
    /\ call \in [Calls -> [kind : Endpoints \cap {"submit", "infer", "replay"},
                           id : RequestIds]]
    /\ pc \in [Calls -> PCs]
    /\ records \in [RequestIds -> Slot]
    /\ events \in [RequestIds -> Seq(Nat)]
    /\ registry \in [RequestIds -> Calls \cup {NoCall}]
    /\ sent \in [Calls -> Seq(Nat)]
    /\ read \in [Calls -> Nat]
    /\ task \in [Calls -> TaskState]
    /\ snap \in [Calls -> Seq(Nat)]
    /\ router \in RouterState
    /\ cancelling \subseteq RequestIds /\ control \subseteq RequestIds
    /\ activeStreams \in Int /\ cancelledRequests \in Nat
    /\ topic \in [RequestIds -> Seq(Event)]
    /\ position \in [RequestIds -> Nat] /\ joined \in BOOLEAN
    /\ job \in [Calls -> JobStates]
    /\ seq \in [Calls -> 0 .. MaxTokens] /\ tries \in [Calls -> 0 .. MaxAttempts]
    /\ restarts \in 0 .. MaxRestarts /\ displaced \subseteq RequestIds

-----------------------------------------------------------------------------
(* Streams                                                                 *)

\* No client replays the id, so only the router sends to its streams.
NoReplay(r) == \A c \in Calls : call[c].id = r => call[c].kind # "replay"

\* A live stream carries consecutive events of its request: none skipped, none
\* twice, none out of order - however registrations of the id race, slow the
\* client is, or often the job is processed (route_one, StreamRegistry).
StreamContiguous ==
    \A c \in Calls : NoReplay(call[c].id) =>
        \A i \in 1 .. Len(sent[c]) - 1 : sent[c][i + 1] = sent[c][i] + 1

\* No event went by unseen: the consumer is assigned before there are events, and
\* no new process took over behind some.
MissedNothing == "late_assignment" \notin Faults /\ restarts = 0

\* An id that one call uses, and no replay.
SoleUser(c) == \A d \in Calls : d # c => call[d].id # call[c].id

\* An id that others at most replay.
SoleJob(c) == \A d \in Calls : d # c /\ call[d].id = call[c].id => call[d].kind = "replay"

\* A stream whose id nobody else uses ends by itself only after it carried the
\* request's log from STARTED to the first terminal event: the end of a stream
\* always tells the client how its request ended.  (Unless the consumer missed
\* events.)
EndedToldWhy ==
    \A c \in Calls :
        (pc[c] = "ended" /\ SoleUser(c) /\ call[c].kind # "replay" /\ MissedNothing) =>
            LET n == Len(sent[c]) IN
            /\ n > 0
            /\ \A i \in 1 .. n : sent[c][i] = i
            /\ \A i \in 1 .. n : IsTerminalAt(call[c].id, i) <=> i = n

\* Whatever a client has got to on its stream, it has every token up to that one's
\* number: however often its job was started anew, by whichever workers, a client
\* that drops the numbers it has seen reads the tokens without a gap.  (process_job
\* numbers them, route_one and send relay them; unless the consumer missed events or
\* the id has other users.)
NoTokenMissing ==
    \A c \in Calls :
        (/\ pc[c] \in {"streaming", "ended"}
         /\ SoleUser(c) /\ call[c].kind # "replay" /\ MissedNothing) =>
            \A i \in 1 .. Len(sent[c]) :
                \A m \in 1 .. EventAt(call[c].id, sent[c][i]).seq :
                    \E k \in 1 .. i :
                        EventAt(call[c].id, sent[c][k]) = [type |-> "TOKEN", seq |-> m]

\* Once a handler failed, or the router is past a terminal event of the id, the
\* registry no longer holds the stream: a later request may use the id again.
\* (Submit's own streams, one job per id, no event missed; the BFF handler does not
\* promise it, and a replay's stream is left to its task.)
NoOrphanStream ==
    \A r \in RequestIds : \A c \in Calls :
        (registry[r] = c /\ call[c].kind = "submit" /\ SoleJob(c) /\ MissedNothing) =>
        /\ pc[c] \notin {"failed", "ended"}
        /\ \A off \in 1 .. position[r] :
              IsTerminalAt(r, off) => router.id = r /\ router.off <= off

\* c replays the request that d submits, and nobody else uses the id.
Replays(c, d) ==
    /\ call[c].kind = "replay" /\ call[d].kind = "submit" /\ call[c].id = call[d].id
    /\ \A e \in Calls : call[e].id = call[d].id => e \in {c, d}

\* When a request's own stream carried its whole log, a replay of it that ended
\* carried the same, event for event: neither the router's late unregister of the id
\* nor the events sent by two tasks at once cut it short or disorder it, on any number
\* of runtime threads.  (replay_cached_events, route_one; unless the two handlers passed
\* contains_key together and one dropped the other's sender, or events were missed.)
ReplayAgrees ==
    \A c, d \in Calls :
        /\ Replays(c, d) /\ call[d].id \notin displaced /\ MissedNothing
        /\ pc[c] = "ended" /\ pc[d] = "ended"
        /\ sent[d] = [i \in 1 .. Len(topic[call[d].id]) |-> i]
        => sent[c] = sent[d]

-----------------------------------------------------------------------------
(* Request records                                                         *)

LoggedAt(r, i) == EventAt(r, events[r][i])

\* What get_status reports happened: a Completed record has its COMPLETED event
\* in the event cache a replay reads, and a token count is that of some cached
\* event, although the two maps are updated in two steps and insert,
\* finish_failed and cancel write the record at any time in between.
StatusBackedByLog ==
    \A r \in RequestIds :
        /\ records[r].status = "Completed" =>
              \E i \in 1 .. Len(events[r]) : LoggedAt(r, i).type = "COMPLETED"
        /\ records[r].status = "Running" => events[r] # <<>>
        /\ records[r].emitted_tokens > 0 =>
              \E i \in 1 .. Len(events[r]) : LoggedAt(r, i).seq = records[r].emitted_tokens

\* The token count a client polls never goes back, although a crashed worker's
\* job is numbered from 1 again, unless the id is submitted anew or the
\* gateway restarts.
EmittedMonotone ==
    [][\A r \in RequestIds :
          \/ records'[r].emitted_tokens >= records[r].emitted_tokens
          \/ records'[r] = queued
          \/ restarts' # restarts]_vars


-----------------------------------------------------------------------------
(* Admission and accounting                                                *)

\* Handlers test active_count and insert in two steps, but with no await in
\* between: at most one request per runtime thread slips past the limit.
\* (Submit only, one call per id, no revived records.)
AdmissionBound == ActiveCount <= MaxActive + Threads - 1

\* Nothing is left to happen: every call is over, every job processed, every
\* event routed.
Quiet ==
    /\ \A c \in Calls : /\ pc[c] \in {"idle", "ended", "failed", "gone"}
                        /\ job[c] \in {"none", "lost", "done"}
                        /\ task[c].pc = "none"
    /\ joined /\ router.pc = "poll"
    /\ \A r \in RequestIds : position[r] = Len(topic[r])

\* Once nothing is left to happen no record is still active: a request that
\* failed to enqueue, lost its client, was cancelled, or was submitted twice
\* at once never holds its place under MAX_ACTIVE_REQUESTS for good.
NoLeakedSlot == Quiet => ActiveCount = 0

\* With any endpoint, dropped handlers, crashing workers, retried jobs and racing
\* submissions of an id, a place under MAX_ACTIVE_REQUESTS is held for good in
\* three cases only.  The job never reached the broker, and the web endpoint
\* returned its error without cleaning up, or the handler was dropped before it
\* could.  Or the web endpoint refused the request, because the id has a stream,
\* after it had put a fresh record over that of the stream's request, whose end
\* had been noted before.  Or the request's last event is no terminal: a worker
\* that had lost the job published it after the end and went no further, and the
\* ended record runs again.  (bff.rs infer, submit, route_one)
KnownLeaksOnly ==
    (Quiet /\ MissedNothing) =>
        \A r \in RequestIds : IsActive(records[r]) =>
            \/ \E c \in Calls : /\ call[c].id = r /\ job[c] = "lost"
                                /\ call[c].kind = "infer" \/ pc[c] = "gone"
            \/ \E c \in Calls : /\ call[c].id = r /\ call[c].kind = "infer"
                                /\ job[c] = "none" /\ pc[c] = "failed"
            \/ topic[r] # <<>> /\ ~IsTerminalAt(r, Len(topic[r]))

\* The gauge of active streams never goes below zero and is back at zero once
\* nothing is left to happen.  (Submit only, each job processed once.)
GaugeTracksStreams == activeStreams >= 0 /\ (Quiet => activeStreams = 0)

-----------------------------------------------------------------------------
(* The workers' contract                                                   *)

Contract == INSTANCE TokenLog WITH
    log <- topic, asked <- control,
    given <- {call[c].id : c \in {d \in Calls : Delivered(d)}},
    settled <- {call[c].id : c \in {d \in Calls : job[d] = "done"}}

\* The brokers and workers of this module, with every fault, keep to the log that
\* the workers of module Worker implement, also for an id with two jobs and
\* across restarts of the gateway: no counterexample here is owed to an event no
\* worker would publish.  That they are not too kind either is what StrayEvent is
\* for, which takes any step the contract allows on the log of a job once begun.
KeepsTokenLog == Contract!Spec

-----------------------------------------------------------------------------
(* Liveness                                                                *)

\* A stream that only the router sends to ends, or its client goes away: no
\* interleaving of two registrations of an id, channel without a free slot, lost job,
\* cancellation or crash of the worker in between leaves a client waiting for ever.
\* (route_one, submit, infer; for clients that keep reading, and a consumer that was
\* assigned before there were events: TokensReachStream is what happens otherwise.)
StreamEnds ==
    \A c \in Calls : NoReplay(call[c].id) =>
        (pc[c] = "streaming" ~> pc[c] \in {"ended", "gone"})

\* Nobody will produce a job for r any more: it was lost, or submit was refused.
JobNeverComes(r) ==
    \A c \in Calls : (call[c].id = r /\ call[c].kind # "replay") =>
        job[c] = "lost" \/ (job[c] = "none" /\ pc[c] \in {"idle", "failed"})

\* So does a replay's stream, although after the last event of the request the
\* router will not unregister the id again: the replay task does.  Only a replay of
\* a request without a job waits for ever: it found a record and no events, and
\* nobody will send it any.  That may be its own doing: registered between submit's
\* insert and its register, it makes submit fail as a duplicate.
ReplayEnds ==
    \A c \in Calls : call[c].kind = "replay" =>
        (pc[c] = "streaming" ~> (pc[c] \in {"ended", "gone"} \/ JobNeverComes(call[c].id)))

-----------------------------------------------------------------------------
(* What the documents, comments and tests say and the code does not keep;   *)
(* each is refuted by a run of its own.                                     *)

\* README: "Token event delivery is at least once."  The events of a request
\* whose stream the client holds reach it.
TokensReachStream ==
    \A c \in Calls :
        (pc[c] = "streaming" /\ SoleUser(c) /\ topic[call[c].id] # <<>>)
            ~> (sent[c] # <<>> \/ pc[c] = "gone")
=============================================================================
