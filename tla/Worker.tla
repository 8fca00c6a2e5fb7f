-------------------------------- MODULE Worker --------------------------------
(***************************************************************************)
(* The Python inference workers of one model, and their Kafka consumer     *)
(* group: main's loop poll - process_job - commit, the token producer with *)
(* its local queue, and the cancellation watcher's thread.                 *)
(*                                                                         *)
(* Kafka.  A partition's jobs are an immutable sequence and an offset is a *)
(* place in it.  The group has one owner per partition; fetching starts at *)
(* the committed offset whenever a partition is assigned, also to the same *)
(* owner.  What produce() was given waits in the process's queue for the   *)
(* broker, in order, and is gone if the process dies.  A retry may repeat   *)
(* an event; that it does not overtake another is an assumption: the        *)
(* producer is not configured for it.                                       *)
(***************************************************************************)
EXTENDS Naturals, Sequences, FiniteSets

CONSTANTS
    Workers,        \* worker processes of one model
    NoWorker,       \* "nobody": not a worker
    NoMessage,      \* a worker has nothing in hand
    RequestIds,     \* one job each
    Partitions,     \* of the request topic
    Garbled,        \* ids whose message may be one from_payload rejects
    Failing,        \* ids the backend may raise an exception for
    Cancellable,    \* ids that clients cancel (bound of the model)
    MaxTokens,      \* tokens a backend yields for a job at most (bound of the model)
    MaxTroubles     \* crashes, evictions, rebalances that no death calls for,
                    \* flushes that time out and events sent twice, together
                    \* (bound of the model)

ASSUME WorkerAssumption ==
    /\ NoWorker \notin Workers
    /\ NoMessage \notin [part : Partitions, off : Nat]
    /\ Garbled \cup Failing \cup Cancellable \subseteq RequestIds
    /\ MaxTokens \in Nat /\ MaxTroubles \in Nat

VARIABLES
    jobs,           \* the request topic, one sequence of ids per partition
    unreadable,     \* ids whose message json.loads or from_payload rejects
    committed,      \* the group's committed offset in each partition
    owner,          \* the member each partition is assigned to
    fetch,          \* the owner's fetch position in each partition
    evicted,        \* workers the group has thrown out (max.poll.interval.ms)
    pc,             \* where each worker's main loop is
    hand,           \* the message it is working on
    seq,            \* process_job's sequence
    queue,          \* its producer's queue: events not yet at the broker
    topic,          \* the token topic, one log per request id
    control,        \* ids with a cancellation event in the control topic
    cancelled,      \* each worker's CancellationWatcher._cancelled
    unflushed,      \* history: ids whose flush(10) returned with events left
    troubles        \* how much has gone wrong so far

jobVars   == <<jobs, unreadable>>
groupVars == <<committed, owner, fetch, evicted>>
loopVars  == <<pc, hand, seq>>
vars == <<jobVars, groupVars, loopVars, queue, topic, control, cancelled, unflushed, troubles>>

-----------------------------------------------------------------------------
(* Views                                                                   *)

TerminalTypes == {"COMPLETED", "FAILED", "CANCELLED"}
Event == [id : RequestIds, type : {"STARTED", "TOKEN"} \cup TerminalTypes, seq : Nat]

PCs == {"polling",    \* main: about to poll
        "running",    \* process_job: in the backend's loop
        "flushing",   \* process_job: its last event is in the queue
        "committing", \* main: process_job returned
        "down"}       \* there is no process

Message == [part : Partitions, off : Nat \ {0}]

Up(w) == pc[w] # "down"
Members == {w \in Workers : Up(w) /\ w \notin evicted}

\* The id of the job w has in hand.
Job(w) == jobs[hand[w].part][hand[w].off]

Produced == UNION {{jobs[p][i] : i \in 1 .. Len(jobs[p])} : p \in Partitions}
Settled == UNION {{jobs[p][i] : i \in 1 .. committed[p]} : p \in Partitions}

Ended(r) == \E i \in 1 .. Len(topic[r]) : topic[r][i].type \in TerminalTypes

-----------------------------------------------------------------------------

Init ==
    /\ jobs = [p \in Partitions |-> <<>>]
    /\ unreadable = {}
    /\ committed = [p \in Partitions |-> 0]
    /\ owner = [p \in Partitions |-> NoWorker]
    /\ fetch = [p \in Partitions |-> 0]
    /\ evicted = {}
    /\ pc = [w \in Workers |-> "polling"]
    /\ hand = [w \in Workers |-> NoMessage]
    /\ seq = [w \in Workers |-> 0]
    /\ queue = [w \in Workers |-> <<>>]
    /\ topic = [r \in RequestIds |-> <<>>]
    /\ control = {}
    /\ cancelled = [w \in Workers |-> {}]
    /\ unflushed = {}
    /\ troubles = 0

-----------------------------------------------------------------------------
(* The gateway: jobs and cancellations, in any order                       *)

Produce(r, p) ==
    /\ r \notin Produced
    /\ jobs' = [jobs EXCEPT ![p] = Append(@, r)]
    /\ unreadable' \in {unreadable, unreadable \cup ({r} \cap Garbled)}
    /\ UNCHANGED <<groupVars, loopVars, queue, topic, control, cancelled, unflushed, troubles>>

Ask(r) ==
    /\ r \in Cancellable /\ control' = control \cup {r}
    /\ UNCHANGED <<jobVars, groupVars, loopVars, queue, topic, cancelled, unflushed, troubles>>

Trouble == troubles < MaxTroubles /\ troubles' = troubles + 1

-----------------------------------------------------------------------------
(* The consumer group                                                      *)

\* A mutated consumer that starts behind what is in the topic.
start_offset_latest(p) == Len(jobs[p])

start_offset(p) == committed[p]

\* Every assignment, of all partitions at once, starts at what is committed.
Reassign ==
    /\ owner' \in [Partitions -> Members]
    /\ fetch' = [p \in Partitions |-> start_offset(p)]
    /\ UNCHANGED <<jobVars, committed, evicted, loopVars, queue, topic, control, cancelled,
                   unflushed>>

\* The group noticed that an owner is gone, or has its first member.
Rebalance ==
    /\ \E p \in Partitions : owner[p] \notin Members
    /\ Reassign
    /\ UNCHANGED troubles

\* A member joined, or the topic's metadata changed: workers that are in the
\* middle of a job go on with it.
Reshuffle ==
    /\ Trouble
    /\ Reassign

\* A job takes longer than max.poll.interval.ms: the group gives the worker's
\* partitions to others, and the worker goes on.
Evict(w) ==
    /\ pc[w] \in {"running", "flushing"} /\ w \in Members
    /\ Trouble
    /\ evicted' = evicted \cup {w}
    /\ UNCHANGED <<jobVars, committed, owner, fetch, loopVars, queue, topic, control, cancelled,
                   unflushed>>

-----------------------------------------------------------------------------
(* Processes come and go                                                   *)

\* A process that ends takes its queue and the watcher's set with it; the
\* group notices later.
Leave(w) ==
    /\ pc' = [pc EXCEPT ![w] = "down"]
    /\ hand' = [hand EXCEPT ![w] = NoMessage]
    /\ seq' = [seq EXCEPT ![w] = 0]
    /\ queue' = [queue EXCEPT ![w] = <<>>]
    /\ cancelled' = [cancelled EXCEPT ![w] = {}]

\* Killed anywhere; or a signal set _STOP, which ends the loop at "polling".
Crash(w) ==
    /\ Up(w) /\ Trouble
    /\ Leave(w)
    /\ UNCHANGED <<jobVars, groupVars, topic, control, unflushed>>

\* The orchestrator starts it again, as a new member of the group.
Restart(w) ==
    /\ pc[w] = "down"
    /\ pc' = [pc EXCEPT ![w] = "polling"]
    /\ evicted' = evicted \ {w}
    /\ owner' = [p \in Partitions |-> IF owner[p] = w THEN NoWorker ELSE owner[p]]
    /\ UNCHANGED <<jobVars, committed, fetch, hand, seq, queue, topic, control, cancelled,
                   unflushed, troubles>>

-----------------------------------------------------------------------------
(* CancellationWatcher                                                     *)

\* The thread adds the ids of the control topic to its set, in no order a reader
\* of several partitions can rely on.  Some it never gets: its group is the
\* worker id's own, and starts at the latest offset or, if it existed, behind
\* what an earlier process had read.
Hear(w, r) ==
    /\ Up(w) /\ r \in control \ cancelled[w]
    /\ cancelled' = [cancelled EXCEPT ![w] = @ \cup {r}]
    /\ UNCHANGED <<jobVars, groupVars, loopVars, queue, topic, control, unflushed, troubles>>

-----------------------------------------------------------------------------
(* main and process_job                                                    *)

publish_token_event(w, r, type, n) ==
    queue' = [queue EXCEPT ![w] = Append(@, [id |-> r, type |-> type, seq |-> n])]

\* poll_job hands out the next message, from_payload reads it, process_job
\* publishes STARTED.
Poll(w, p) ==
    LET i == fetch[p] + 1 IN
    /\ pc[w] = "polling" /\ owner[p] = w /\ i <= Len(jobs[p])
    /\ jobs[p][i] \notin unreadable
    /\ fetch' = [fetch EXCEPT ![p] = i]
    /\ hand' = [hand EXCEPT ![w] = [part |-> p, off |-> i]]
    /\ pc' = [pc EXCEPT ![w] = "running"]
    /\ publish_token_event(w, jobs[p][i], "STARTED", 0)
    /\ UNCHANGED <<jobVars, committed, owner, evicted, seq, topic, control, cancelled, unflushed,
                   troubles>>

\* Parsing raises out of main's loop: the worker exits, nothing is committed.
PollUnreadable(w, p) ==
    LET i == fetch[p] + 1 IN
    /\ pc[w] = "polling" /\ owner[p] = w /\ i <= Len(jobs[p])
    /\ jobs[p][i] \in unreadable
    /\ Leave(w)
    /\ UNCHANGED <<jobVars, groupVars, topic, control, unflushed, troubles>>

is_cancelled(w) == Job(w) \in cancelled[w]

\* A mutated loop that asks the backend for one token too many.
tokens_left_off_by_one(w) == seq[w] <= MaxTokens

tokens_left(w) == seq[w] < MaxTokens

\* The backend yields a token, numbered from 1.
Token(w) ==
    /\ pc[w] = "running" /\ ~is_cancelled(w) /\ tokens_left(w)
    /\ seq' = [seq EXCEPT ![w] = @ + 1]
    /\ publish_token_event(w, Job(w), "TOKEN", seq[w] + 1)
    /\ UNCHANGED <<jobVars, groupVars, pc, hand, topic, control, cancelled, unflushed, troubles>>

\* One terminal event, numbered like the last token: CANCELLED wherever the
\* loop or its end sees the id cancelled, COMPLETED when the backend has no more
\* tokens, FAILED if it raises.
Finish(w) ==
    /\ pc[w] = "running"
    /\ \E type \in TerminalTypes :
          /\ type = "CANCELLED" => is_cancelled(w)
          /\ type = "COMPLETED" => ~is_cancelled(w)
          /\ type = "FAILED" => Job(w) \in Failing
          /\ publish_token_event(w, Job(w), type, seq[w])
    /\ pc' = [pc EXCEPT ![w] = "flushing"]
    /\ UNCHANGED <<jobVars, groupVars, hand, seq, topic, control, cancelled, unflushed, troubles>>

\* A mutated flush that does not wait.
flush_at_once(w) == TRUE

\* producer.flush(10) has seen every event to the broker.
flushed(w) == queue[w] = <<>>

Flush(w) ==
    /\ pc[w] = "flushing" /\ flushed(w)
    /\ pc' = [pc EXCEPT ![w] = "committing"]
    /\ UNCHANGED <<jobVars, groupVars, hand, seq, queue, topic, control, cancelled, unflushed,
                   troubles>>

\* ... or has not within ten seconds; nobody looks at what it returns.
FlushTimeout(w) ==
    /\ Trouble
    /\ pc[w] = "flushing" /\ ~flushed(w)
    /\ pc' = [pc EXCEPT ![w] = "committing"]
    /\ unflushed' = unflushed \cup {Job(w)}
    /\ UNCHANGED <<jobVars, groupVars, hand, seq, queue, topic, control, cancelled>>

\* A member's commit is taken whoever owns the partition by now.
Commit(w) ==
    /\ pc[w] = "committing" /\ w \in Members
    /\ committed' = [committed EXCEPT ![hand[w].part] = hand[w].off]
    /\ pc' = [pc EXCEPT ![w] = "polling"]
    /\ hand' = [hand EXCEPT ![w] = NoMessage]
    /\ seq' = [seq EXCEPT ![w] = 0]
    /\ UNCHANGED <<jobVars, owner, fetch, evicted, queue, topic, control, cancelled, unflushed,
                   troubles>>

\* A commit from outside the group, or across a rebalance, raises: the worker
\* exits.
CommitError(w) ==
    /\ pc[w] = "committing"
    /\ w \in evicted \/ owner[hand[w].part] # w
    /\ Leave(w)
    /\ UNCHANGED <<jobVars, groupVars, topic, control, unflushed, troubles>>

Arrive(w) ==
    /\ queue[w] # <<>>
    /\ LET e == Head(queue[w]) IN
          topic' = [topic EXCEPT ![e.id] = Append(@, [type |-> e.type, seq |-> e.seq])]

\* A mutated producer, with several requests in flight and no idempotence, whose
\* retries let a later event overtake.
Deliver_out_of_order(w) ==
    /\ queue[w] # <<>>
    /\ \E k \in 1 .. Len(queue[w]) :
          /\ queue' = [queue EXCEPT ![w] = SubSeq(@, 1, k - 1) \o SubSeq(@, k + 1, Len(@))]
          /\ LET e == queue[w][k] IN
                topic' = [topic EXCEPT ![e.id] = Append(@, [type |-> e.type, seq |-> e.seq])]
    /\ UNCHANGED <<jobVars, groupVars, loopVars, control, cancelled, unflushed, troubles>>

\* The producer's thread gets the oldest event to the broker,
Deliver(w) ==
    /\ Arrive(w)
    /\ queue' = [queue EXCEPT ![w] = Tail(@)]
    /\ UNCHANGED <<jobVars, groupVars, loopVars, control, cancelled, unflushed, troubles>>

\* and sends it again if the acknowledgement is lost: it is not idempotent.
Resend(w) ==
    /\ Arrive(w) /\ Trouble
    /\ UNCHANGED <<jobVars, groupVars, loopVars, queue, control, cancelled, unflushed>>

-----------------------------------------------------------------------------

MainLoop(w) ==
    \/ \E p \in Partitions : Poll(w, p) \/ PollUnreadable(w, p)
    \/ Token(w) \/ Finish(w) \/ Flush(w) \/ Commit(w) \/ CommitError(w)

Next ==
    \/ \E r \in RequestIds : Ask(r) \/ \E p \in Partitions : Produce(r, p)
    \/ \E w \in Workers :
          \/ MainLoop(w) \/ FlushTimeout(w) \/ Deliver(w) \/ Resend(w)
          \/ Crash(w) \/ Restart(w) \/ Evict(w)
          \/ \E r \in RequestIds : Hear(w, r)
    \/ Rebalance \/ Reshuffle

Spec == Init /\ [][Next]_vars

\* Workers run, brokers take events and commits, the group replaces owners
\* that are gone, the orchestrator restarts workers that exit.
Fairness ==
    /\ \A w \in Workers : WF_vars(MainLoop(w)) /\ WF_vars(Deliver(w)) /\ WF_vars(Restart(w))
    /\ WF_vars(Rebalance)

FairSpec == Spec /\ Fairness

-----------------------------------------------------------------------------

TypeOK ==
    /\ jobs \in [Partitions -> Seq(RequestIds)] /\ unreadable \subseteq Garbled
    /\ committed \in [Partitions -> Nat] /\ fetch \in [Partitions -> Nat]
    /\ owner \in [Partitions -> Workers \cup {NoWorker}]
    /\ evicted \subseteq Workers
    /\ pc \in [Workers -> PCs]
    /\ hand \in [Workers -> Message \cup {NoMessage}]
    /\ \A w \in Workers : hand[w] = NoMessage <=> pc[w] \in {"polling", "down"}
    /\ seq \in [Workers -> 0 .. MaxTokens]
    /\ queue \in [Workers -> Seq(Event)]
    /\ topic \in [RequestIds -> Seq([type : {"STARTED", "TOKEN"} \cup TerminalTypes, seq : Nat])]
    /\ control \subseteq RequestIds /\ unflushed \subseteq RequestIds
    /\ cancelled \in [Workers -> SUBSET control]
    /\ troubles \in 0 .. MaxTroubles

\* No job is committed, so that no worker gets it again, before the token topic
\* says how it ended - whichever worker crashed, was thrown out of the group or
\* worked on beside the new owner of its partition - unless flush gave up.
CommittedHasEnded == \A r \in Settled \ unflushed : Ended(r)

\* The workers keep the token log's contract with the gateway: TokenLog.
Contract == INSTANCE TokenLog WITH log <- topic, given <- Produced, asked <- control,
                                   settled <- Settled \ unflushed

KeepsTokenLog == Contract!Spec

\* At an unreadable message, or behind one.
Blocked(r) ==
    \E p \in Partitions : \E i \in 1 .. Len(jobs[p]) : \E j \in 1 .. i :
        jobs[p][i] = r /\ jobs[p][j] \in unreadable

\* Every job that is not behind one no worker can read ends in the token topic,
\* through any crashes, evictions and rebalances, unless flush gave up on it:
\* at-least-once processing makes progress.
JobsEnd ==
    \A r \in RequestIds :
        (r \in Produced) ~> (Ended(r) \/ Blocked(r) \/ r \in unflushed)

-----------------------------------------------------------------------------
(* What the documents say and the code does not keep; each is refuted by a  *)
(* run of its own.                                                         *)

\* README: "Request processing is at least once.  Token event delivery is at
\* least once."  Every job a worker can read ends in the token topic.
EveryJobEnds == \A r \in RequestIds : (r \in Produced) ~> (Ended(r) \/ Blocked(r))

\* README: "Clients should de-duplicate by `request_id` and `sequence_number`."
\* A client that does still learns how its request ended.
DedupKeepsTheEnd ==
    \A r \in RequestIds : Ended(r) =>
        \E i \in 1 .. Len(topic[r]) :
            /\ topic[r][i].type \in TerminalTypes
            /\ \A k \in 1 .. i - 1 : topic[r][k].seq # topic[r][i].seq
=============================================================================
