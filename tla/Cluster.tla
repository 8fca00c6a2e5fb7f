------------------------------- MODULE Cluster -------------------------------
(***************************************************************************)
(* Gateway with other workers than its own.  OpenSpec is the gateway among  *)
(* any publishers that keep TokenLog's contract, as many and as long as     *)
(* they like.  ClusterSpec is the gateway with the workers of module        *)
(* Worker: what its producer delivers is in their request topic, the        *)
(* cancellations it publishes are in their control topic, and what they     *)
(* publish is in the token topic its router polls.                         *)
(***************************************************************************)
EXTENDS Gateway

CONSTANTS Workers, NoWorker, NoMessage, Partitions, Garbled, Failing, MaxTroubles

VARIABLES
    jobs, unreadable, committed, owner, fetch, evicted,
    loop, hand, counted,    \* Worker's pc, hand and seq
    queue, cancelled, unflushed, troubles

W == INSTANCE WorkerProofs WITH pc <- loop, seq <- counted, Cancellable <- RequestIds

\* All of Gateway but the token topic, and all of Worker but the topics.
gatewayVars == <<call, pc, mapVars, chanVars, taskVars, router, cancelVars, metricVars,
                 consVars, job, seq, tries, restarts>>
fleetVars == <<jobs, unreadable, committed, owner, fetch, evicted, loop, hand, counted,
               queue, cancelled, unflushed, troubles>>

-----------------------------------------------------------------------------
(* Any workers                                                             *)

\* Somebody puts an event of r in the token topic, as the contract allows.
Published(r) ==
    /\ Contract!Start(r) \/ Contract!Token(r) \/ Contract!End(r)
    /\ UNCHANGED gatewayVars

OpenNext == Next \/ \E r \in RequestIds : Published(r)

OpenSpec == Init /\ [][OpenNext]_vars

-----------------------------------------------------------------------------
(* The workers of module Worker                                            *)

\* Handlers, replay tasks, router and clients; the producer's message may be lost,
\* and is if it is still in the queue when the gateway dies: one that had left is
\* delivered before.
ControlPlane ==
    \/ \E c \in Calls :
          \/ SubmitCheck(c) \/ InferInsert(c) \/ Handler(c) \/ DropHandler(c)
          \/ Task(c) \/ ClientRead(c) \/ StreamEnd(c) \/ Disconnect(c) \/ Lose(c)
    \/ \E r \in RequestIds : Cancel(r) \/ InferCancel(r) \/ LosePublish(r)
    \/ Router \/ Assign
    \/ GatewayRestart /\ \A c \in Calls : job[c] = "inflight" => job'[c] = "lost"

\* What one side's producer sent is in a topic the other reads.
DeliverJob(c, p) == Deliver(c) /\ W!Produce(call[c].id, p)
DeliverCancel(r) == PublishCancel(r) /\ W!Ask(r)

\* The workers, their consumer group and their producers.
Fleet == W!Next /\ UNCHANGED <<jobs, gatewayVars>>

ClusterNext ==
    \/ ControlPlane /\ UNCHANGED fleetVars
    \/ \E c \in Calls : \E p \in Partitions : DeliverJob(c, p)
    \/ \E r \in RequestIds : DeliverCancel(r)
    \/ Fleet

ClusterSpec == Init /\ W!Init /\ [][ClusterNext]_<<vars, fleetVars>>
=============================================================================
