---------------------------- MODULE GatewayStreams ----------------------------
(***************************************************************************)
(* Theorems about Gateway's streams, for every set of calls and request    *)
(* ids, every choice of endpoints and faults, and every bound: what a      *)
(* stream carries is in order, a stream that ends has told its client how   *)
(* the request ended, no stream outlives its request in the registry, and   *)
(* a replay is sent what the request's own stream was.                      *)
(***************************************************************************)
EXTENDS GatewayProofs, FiniteSetTheorems

-----------------------------------------------------------------------------
(* Where a call, its job, its stream and its replay task can be: what the   *)
(* proofs about streams and about the accounting share.                    *)

\* Where a handler is before it has put a sender in the registry.
BeforeRegister == {"idle", "admitted", "replaying", "inserted", "found", "unique"}

\* Each endpoint's handler keeps to its own path, and only replays have a task.
KindsApart ==
    \A c \in Calls :
        /\ pc[c] \in {"replaying", "found", "snapshotting"} => call[c].kind = "replay"
        /\ pc[c] \in {"admitted", "conflict", "enqueueFailed", "unregistered"}
              => call[c].kind = "submit"
        /\ pc[c] \in {"inserted", "producing"} => call[c].kind # "replay"
        /\ task[c].pc # "none" => call[c].kind = "replay"
        /\ pc[c] \in BeforeRegister \cup {"snapshotting"} => task[c] = IdleTask

\* A job is produced by the handler that registered its stream, which awaits the
\* producer's answer as long as there is none, unless it was dropped.
JobsFollow ==
    \A c \in Calls :
        /\ call[c].kind = "replay" => job[c] = "none"
        /\ pc[c] \in BeforeRegister \cup {"conflict"} => job[c] = "none"
        /\ pc[c] \in {"producing", "enqueueFailed", "unregistered"} => job[c] # "none"
        /\ pc[c] = "streaming" /\ call[c].kind # "replay" => job[c] # "none"
        /\ job[c] = "inflight" => pc[c] \in {"producing", "gone"}
        /\ job[c] = "lost" =>
              pc[c] \in {"producing", "enqueueFailed", "unregistered", "failed", "gone"}

\* A sender in use is that of a call with the id it was found under, which has
\* registered; one that is registered has not ended, nor failed if it cleans up.
SendersKnown ==
    /\ \A r \in RequestIds : registry[r] # NoCall =>
          /\ call[registry[r]].id = r
          /\ pc[registry[r]] \notin BeforeRegister \cup {"conflict", "unregistered", "ended"}
          /\ pc[registry[r]] = "failed" => call[registry[r]].kind # "submit"
    /\ router.chan # NoCall =>
          /\ router.pc = "send" /\ call[router.chan].id = router.id
          /\ pc[router.chan] \notin BeforeRegister \cup {"conflict", "ended"}
    /\ \A t \in Calls : task[t].chan # NoCall =>
          /\ task[t].pc = "sending" /\ call[task[t].chan].id = call[t].id
          /\ pc[task[t].chan] \notin BeforeRegister \cup {"conflict", "ended"}

\* The router works on the event it polled last, or on none.
RouterPlaced ==
    /\ router.pc = "poll" <=> router.id = NoRequest
    /\ router.pc # "poll" => joined /\ router.off = position[router.id]
    /\ router.pc = "send" => router.chan # NoCall
    /\ \A r \in RequestIds : position[r] <= Len(topic[r])

CallInv == TypeInv /\ KindsApart /\ JobsFollow /\ SendersKnown /\ RouterPlaced

LEMMA CallInvInitially == ASSUME GatewayAssumption, Init PROVE CallInv
<1>1. TypeInv
  BY TypeInvInitially
<1>2. KindsApart /\ JobsFollow
  BY DEF Init, KindsApart, JobsFollow, BeforeRegister, IdleTask
<1>3. SendersKnown
  BY DEF Init, SendersKnown, IdleTask, IdleRouter
<1>4. RouterPlaced
  BY DEF Init, RouterPlaced, IdleRouter
<1> QED BY <1>1, <1>2, <1>3, <1>4 DEF CallInv

\* A handler, or the client's end of its stream.
CallSteps(c) ==
    \/ SubmitCheck(c) \/ InferInsert(c) \/ Handler(c) \/ DropHandler(c)
    \/ ClientRead(c) \/ StreamEnd(c) \/ Disconnect(c)

LEMMA KindsKept ==
    ASSUME GatewayAssumption, CallInv, [Next]_vars PROVE KindsApart' /\ JobsFollow'
<1> USE DEF mapVars, chanVars, taskVars, metricVars, consVars, workerVars, cancelVars
<1>0. TypeOK /\ KindsApart /\ JobsFollow
  BY DEF CallInv, TypeInv
<1>t. /\ pc \in [Calls -> PCs] /\ job \in [Calls -> JobStates]
      /\ task \in [Calls -> TaskState]
      /\ \A c \in Calls : call[c].kind \in {"submit", "infer", "replay"}
  BY <1>0 DEF TypeOK
<1>1. ASSUME NEW c \in Calls, CallSteps(c) PROVE KindsApart' /\ JobsFollow'
  <2> USE <1>0, <1>t DEF KindsApart, JobsFollow, BeforeRegister, Goto
  <2>1. CASE SubmitCheck(c)
    BY <2>1 DEF SubmitCheck
  <2>2. CASE InferInsert(c)
    BY <2>2 DEF InferInsert, InsertRecord
  <2>3. CASE SubmitInsert(c)
    BY <2>3 DEF SubmitInsert, InsertRecord
  <2>4. CASE RegisterCheck(c)
    BY <2>4 DEF RegisterCheck
  <2>5. CASE FinishConflict(c)
    BY <2>5 DEF FinishConflict, FailAndDec
  <2>6. CASE RegisterInsert(c)
    BY <2>6 DEF RegisterInsert
  <2>7. CASE ProduceAck(c)
    BY <2>7 DEF ProduceAck, Delivered
  <2>8. CASE ProduceError(c)
    BY <2>8 DEF ProduceError, Delivered
  <2>9. CASE EnqueueUnregister(c)
    BY <2>9 DEF EnqueueUnregister
  <2>10. CASE EnqueueFinish(c)
    BY <2>10 DEF EnqueueFinish, FailAndDec
  <2>11. CASE ReplayLookup(c)
    BY <2>11 DEF ReplayLookup
  <2>12. CASE Snapshot(c)
    BY <2>12 DEF Snapshot, TaskState
  <2>13. CASE DropHandler(c)
    BY <2>13 DEF DropHandler
  <2>14. CASE ClientRead(c)
    BY <2>14 DEF ClientRead
  <2>15. CASE StreamEnd(c) \/ Disconnect(c)
    BY <2>15 DEF StreamEnd, Disconnect
  <2> QED BY <1>1, <2>1, <2>2, <2>3, <2>4, <2>5, <2>6, <2>7, <2>8, <2>9, <2>10, <2>11, <2>12,
             <2>13, <2>14, <2>15 DEF CallSteps, Handler
<1>2. ASSUME NEW c \in Calls, Task(c) PROVE KindsApart' /\ JobsFollow'
  <2>1. task[c].pc # "none" /\ UNCHANGED <<call, pc, job>>
    BY <1>2 DEF Task, TaskLookup, TaskSend, TaskFinish
  <2>2. \A d \in Calls : d # c => task'[d] = task[d]
    BY <1>2, <1>t DEF Task, TaskLookup, TaskSend, TaskFinish
  <2>3. call[c].kind = "replay" /\ pc[c] \notin BeforeRegister \cup {"snapshotting"}
    BY <1>0, <2>1 DEF KindsApart, IdleTask
  <2> QED BY <1>0, <1>t, <2>1, <2>2, <2>3 DEF KindsApart, JobsFollow
<1>3. ASSUME NEW c \in Calls,
             Deliver(c) \/ Lose(c) \/ Worker(c) \/ WorkerCrash(c) \/ StrayEvent(c)
      PROVE  KindsApart' /\ JobsFollow'
  <2>1. /\ call' = call /\ pc' = pc /\ task' = task
        /\ \/ job' = job
           \/ \E state \in {"queued", "running", "emitted", "done"} :
                 job[c] # "none" /\ job' = [job EXCEPT ![c] = state]
           \/ job[c] = "inflight" /\ job' = [job EXCEPT ![c] = "lost"]
    BY <1>3, <1>t DEF Deliver, Lose, Worker, WorkerStart, WorkerToken, WorkerFinish, WorkerCommit,
                WorkerCrash, StrayEvent
  <2> QED BY <1>0, <1>t, <2>1 DEF KindsApart, JobsFollow
<1>4. CASE GatewayRestart
  <2>1. PICK left \in SUBSET Calls :
            job' = [c \in Calls |-> IF job[c] # "inflight" THEN job[c]
                                    ELSE IF c \in left THEN "queued" ELSE "lost"]
    BY <1>4 DEF GatewayRestart
  <2>2. /\ pc' = [c \in Calls |-> IF pc[c] \in {"idle", "ended", "failed"} THEN pc[c] ELSE "gone"]
        /\ task' = [c \in Calls |-> IdleTask] /\ call' = call
    BY <1>4 DEF GatewayRestart
  <2> QED BY <1>0, <1>t, <2>1, <2>2 DEF KindsApart, JobsFollow, IdleTask, BeforeRegister
<1>5. ASSUME NEW r \in RequestIds,
             Cancel(r) \/ InferCancel(r) \/ PublishCancel(r) \/ LosePublish(r)
      PROVE  KindsApart' /\ JobsFollow'
  <2>1. call' = call /\ pc' = pc /\ task' = task /\ job' = job
    BY <1>5 DEF Cancel, InferCancel, AcceptCancel, PublishCancel, LosePublish
  <2> QED BY <1>0, <2>1 DEF KindsApart, JobsFollow
<1>6. CASE Router \/ Assign \/ UNCHANGED vars
  <2>1. call' = call /\ pc' = pc /\ task' = task /\ job' = job
    BY <1>6 DEF Router, RouterPoll, RouterUpdate, RouterLookup, RouterSend, RouterUnregister,
                Assign, vars
  <2> QED BY <1>0, <2>1 DEF KindsApart, JobsFollow
<1> QED BY <1>1, <1>2, <1>3, <1>4, <1>5, <1>6 DEF Next, CallSteps

LEMMA SendersKept ==
    ASSUME GatewayAssumption, CallInv, [Next]_vars PROVE SendersKnown'
<1> USE DEF mapVars, chanVars, taskVars, metricVars, consVars, workerVars, cancelVars
<1>0. TypeOK /\ KindsApart /\ SendersKnown /\ NoCall \notin Calls
  BY DEF CallInv, TypeInv, GatewayAssumption
<1>t. /\ pc \in [Calls -> PCs] /\ registry \in [RequestIds -> Calls \cup {NoCall}]
      /\ task \in [Calls -> TaskState] /\ router \in RouterState
      /\ \A c \in Calls : call[c].id \in RequestIds /\ task[c].chan \in Calls \cup {NoCall}
      /\ router.chan \in Calls \cup {NoCall}
  BY <1>0 DEF TypeOK, TaskState, RouterState
<1>1. ASSUME NEW c \in Calls, CallSteps(c) PROVE SendersKnown'
  <2> USE <1>0, <1>t DEF SendersKnown, BeforeRegister, Goto
  <2>1. CASE SubmitCheck(c)
    BY <2>1 DEF SubmitCheck
  <2>2. CASE InferInsert(c) \/ SubmitInsert(c)
    BY <2>2 DEF InferInsert, SubmitInsert, InsertRecord
  <2>4. CASE RegisterCheck(c)
    BY <2>4 DEF RegisterCheck
  <2>5. CASE FinishConflict(c)
    BY <2>5 DEF FinishConflict, FailAndDec
  <2>6. CASE RegisterInsert(c)
    BY <2>6 DEF RegisterInsert
  <2>7. CASE ProduceAck(c)
    BY <2>7 DEF ProduceAck
  <2>8. CASE ProduceError(c)
    BY <2>8 DEF ProduceError
  <2>9. CASE EnqueueUnregister(c)
    BY <2>9 DEF EnqueueUnregister
  <2>10. CASE EnqueueFinish(c)
    BY <2>10 DEF EnqueueFinish, FailAndDec
  <2>11. CASE ReplayLookup(c)
    BY <2>11 DEF ReplayLookup
  <2>12. CASE Snapshot(c)
    <3>1. /\ task[c] = IdleTask /\ pc[c] = "snapshotting" /\ router' = router
          /\ call' = call /\ registry' = registry /\ pc' = [pc EXCEPT ![c] = "streaming"]
          /\ task' = [task EXCEPT ![c].pc = "loop"]
      BY <2>12 DEF Snapshot, KindsApart
    <3>2. task'[c].chan = NoCall /\ \A d \in Calls : d # c => task'[d] = task[d]
      BY <3>1 DEF IdleTask, TaskState
    <3> QED BY <3>1, <3>2
  <2>13. CASE DropHandler(c)
    BY <2>13 DEF DropHandler
  <2>14. CASE ClientRead(c)
    BY <2>14 DEF ClientRead
  <2>15. CASE StreamEnd(c)
    BY <2>15 DEF StreamEnd, SenderAlive
  <2>16. CASE Disconnect(c)
    BY <2>16 DEF Disconnect
  <2> QED BY <1>1, <2>1, <2>2, <2>4, <2>5, <2>6, <2>7, <2>8, <2>9, <2>10, <2>11, <2>12,
             <2>13, <2>14, <2>15, <2>16 DEF CallSteps, Handler
<1>2. ASSUME NEW c \in Calls, Task(c) PROVE SendersKnown'
  <2>1. CASE TaskLookup(c)
    <3>1. /\ task' = [task EXCEPT ![c].pos = @ + 1]
             \/ /\ registry[call[c].id] # NoCall
                /\ task' = [task EXCEPT ![c].pc = "sending", ![c].chan = registry[call[c].id]]
          /\ task[c].pc = "loop"
          /\ call' = call /\ registry' = registry /\ pc' = pc /\ router' = router
      BY <2>1 DEF TaskLookup
    <3>2. /\ task'[c].chan # NoCall => task'[c].pc = "sending" /\ task'[c].chan = registry[call[c].id]
          /\ \A d \in Calls : d # c => task'[d] = task[d]
      BY <1>0, <1>t, <3>1 DEF SendersKnown, TaskState
    <3> QED BY <1>0, <1>t, <3>1, <3>2 DEF SendersKnown
  <2>2. CASE TaskSend(c)
    BY <1>0, <1>t, <2>2 DEF TaskSend, SendersKnown
  <2>3. CASE TaskFinish(c)
    BY <1>0, <1>t, <2>3 DEF TaskFinish, IdleTask, SendersKnown
  <2> QED BY <1>2, <2>1, <2>2, <2>3 DEF Task
<1>3. ASSUME \/ \E c \in Calls : \/ Deliver(c) \/ Lose(c) \/ Worker(c) \/ WorkerCrash(c)
                                 \/ StrayEvent(c)
             \/ \E r \in RequestIds : \/ Cancel(r) \/ InferCancel(r) \/ PublishCancel(r)
                                      \/ LosePublish(r)
             \/ Assign \/ UNCHANGED vars
      PROVE  SendersKnown'
  <2>1. UNCHANGED <<call, pc, registry, task, router>>
    BY <1>3 DEF Deliver, Lose, Worker, WorkerStart, WorkerToken, WorkerFinish, WorkerCommit,
                WorkerCrash, StrayEvent, Cancel, InferCancel, AcceptCancel, PublishCancel,
                LosePublish, Assign, vars
  <2> QED BY <1>0, <2>1 DEF SendersKnown
<1>4. CASE GatewayRestart
  BY <1>0, <1>4 DEF GatewayRestart, SendersKnown, IdleTask, IdleRouter
<1>5. CASE Router
  <2>1. /\ UNCHANGED <<call, pc, task>>
        /\ \/ registry' = registry
           \/ router' = IdleRouter /\ registry' = [registry EXCEPT ![router.id] = NoCall]
        /\ \/ router'.chan = NoCall
           \/ router' = [router EXCEPT !.pc = "lookup"] /\ router.pc = "update"
           \/ /\ registry[router.id] # NoCall /\ router.pc = "lookup"
              /\ router' = [router EXCEPT !.pc = "send", !.chan = registry[router.id]]
    <3>1. ASSUME NEW r \in RequestIds, RouterPoll(r)
          PROVE  UNCHANGED <<call, pc, task, registry>> /\ router'.chan = NoCall
      BY <3>1 DEF RouterPoll
    <3>2. CASE RouterUpdate
      BY <3>2 DEF RouterUpdate
    <3>3. AfterSend.chan = NoCall /\ IdleRouter.chan = NoCall
      BY <1>t DEF AfterSend, IdleRouter, RouterState
    <3>4. CASE RouterLookup
      BY <3>3, <3>4 DEF RouterLookup
    <3>5. CASE RouterSend
      BY <3>3, <3>5 DEF RouterSend
    <3>6. CASE RouterUnregister
      BY <3>3, <3>6 DEF RouterUnregister
    <3> QED BY <1>5, <3>1, <3>2, <3>4, <3>5, <3>6 DEF Router
  <2>2. router.pc = "lookup" => router.id \in RequestIds
    BY DEF CallInv, TypeInv, HeldOffsets
  <2>3. router' = [router EXCEPT !.pc = "lookup"] /\ router.pc = "update" => router'.chan = NoCall
    BY <1>0, <1>t DEF SendersKnown, RouterState
  <2>4. ASSUME router'.chan # NoCall
        PROVE  /\ registry[router.id] # NoCall /\ router'.pc = "send"
               /\ router'.id = router.id /\ router'.chan = registry[router.id]
               /\ router.id \in RequestIds
    BY <1>t, <2>1, <2>2, <2>3, <2>4 DEF RouterState
  <2>5. \A r \in RequestIds : registry'[r] # NoCall => registry'[r] = registry[r]
    BY <1>t, <2>1
  <2> QED BY <1>0, <1>t, <2>1, <2>4, <2>5 DEF SendersKnown
<1> QED BY <1>1, <1>2, <1>3, <1>4, <1>5 DEF Next, CallSteps

LEMMA RouterPlacedKept ==
    ASSUME GatewayAssumption, CallInv, [Next]_vars PROVE RouterPlaced'
<1> USE DEF mapVars, chanVars, taskVars, metricVars, consVars, workerVars, cancelVars
<1>0. TypeOK /\ HeldOffsets /\ RouterPlaced /\ SendersKnown /\ NoRequest \notin RequestIds
  BY DEF CallInv, TypeInv, GatewayAssumption
<1>t. /\ router \in RouterState /\ position \in [RequestIds -> Nat]
      /\ topic \in [RequestIds -> Seq(Event)]
      /\ \A r \in RequestIds : topic[r] \in Seq(Event) /\ topic'[r] \in Seq(Event)
  BY <1>0, StepTyped DEF TypeOK, CallInv
<1>g. \A r \in RequestIds : /\ Len(topic[r]) <= Len(topic'[r])
                            /\ Len(topic[r]) \in Nat /\ Len(topic'[r]) \in Nat
  BY <1>0, <1>t, TopicGrows
<1>1. CASE UNCHANGED <<router, position, joined>>
  BY <1>0, <1>t, <1>1, <1>g DEF RouterPlaced
<1>2. CASE Assign
  <2>1. ~joined /\ joined' /\ router' = router /\ topic' = topic
        /\ position' = [r \in RequestIds |-> Len(topic[r])]
    BY <1>2 DEF Assign
  <2> QED BY <1>0, <1>t, <2>1, <1>g DEF RouterPlaced
<1>3. CASE GatewayRestart
  BY <1>0, <1>t, <1>3, <1>g DEF GatewayRestart, IdleRouter, RouterPlaced
<1>4. ASSUME NEW r \in RequestIds, RouterPoll(r) PROVE RouterPlaced'
  <2>1. /\ joined /\ joined' = joined /\ position[r] + 1 <= Len(topic[r]) /\ topic' = topic
        /\ position' = [position EXCEPT ![r] = position[r] + 1]
        /\ router' = [pc |-> "update", id |-> r, off |-> position[r] + 1, chan |-> NoCall]
    BY <1>4 DEF RouterPoll
  <2> QED BY <1>0, <1>t, <2>1, <1>g DEF RouterPlaced
<1>5. CASE RouterUpdate \/ RouterLookup \/ RouterSend \/ RouterUnregister
  <2>1. UNCHANGED <<position, joined, topic>> /\ router.pc # "poll"
    BY <1>5 DEF RouterUpdate, RouterLookup, RouterSend, RouterUnregister
  <2>2. \/ router' = IdleRouter
        \/ /\ router'.id = router.id /\ router'.off = router.off /\ router'.pc # "poll"
           /\ router'.pc = "send" => router'.chan # NoCall
    BY <1>5, <1>t DEF RouterUpdate, RouterLookup, RouterSend, RouterUnregister, AfterSend, RouterState
  <2> QED BY <1>0, <1>t, <2>1, <2>2, <1>g DEF RouterPlaced, IdleRouter, HeldOffsets
<1>6. \/ UNCHANGED <<router, position, joined>> \/ Assign \/ GatewayRestart \/ Router
  <2>1. ASSUME NEW c \in Calls, CallSteps(c) \/ Task(c)
        PROVE  UNCHANGED <<router, position, joined>>
    BY <2>1 DEF CallSteps, Handler, Task, SubmitCheck, InferInsert, SubmitInsert, InsertRecord,
                RegisterCheck, FinishConflict, RegisterInsert, ProduceAck, ProduceError,
                EnqueueUnregister, EnqueueFinish, ReplayLookup, Snapshot, DropHandler, ClientRead,
                StreamEnd, Disconnect, TaskLookup, TaskSend, TaskFinish
  <2>2. ASSUME NEW c \in Calls,
               Deliver(c) \/ Lose(c) \/ Worker(c) \/ WorkerCrash(c) \/ StrayEvent(c)
        PROVE  UNCHANGED <<router, position, joined>>
    BY <2>2 DEF Deliver, Lose, Worker, WorkerStart, WorkerToken, WorkerFinish, WorkerCommit,
                WorkerCrash, StrayEvent
  <2>3. ASSUME NEW r \in RequestIds,
               Cancel(r) \/ InferCancel(r) \/ PublishCancel(r) \/ LosePublish(r)
        PROVE  UNCHANGED <<router, position, joined>>
    BY <2>3 DEF Cancel, InferCancel, AcceptCancel, PublishCancel, LosePublish
  <2>4. UNCHANGED vars => UNCHANGED <<router, position, joined>>
    BY DEF vars
  <2> QED BY <2>1, <2>2, <2>3, <2>4 DEF Next, CallSteps
<1> QED BY <1>1, <1>2, <1>3, <1>4, <1>5, <1>6 DEF Router

LEMMA CallInvKept == ASSUME GatewayAssumption, CallInv, [Next]_vars PROVE CallInv'
  BY TypeInvKept, KindsKept, SendersKept, RouterPlacedKept DEF CallInv

-----------------------------------------------------------------------------
(* Whose events a stream has                                               *)

HasReached == {"queued", "running", "emitted", "done"}

\* Only a job that reached the request topic is attempted or has a log.
LogsBegun ==
    /\ \A c \in Calls : tries[c] > 0 => job[c] \in HasReached
    /\ \A r \in RequestIds : topic[r] # <<>> =>
          \E c \in Calls : call[c].id = r /\ job[c] \in HasReached

\* As long as no event was missed, the consumer has its partitions.
Assigned == MissedNothing => joined

\* Events of r that the router is done sending.
Routed(r) ==
    IF router.id = r /\ router.pc \in {"update", "lookup", "send"}
    THEN router.off - 1 ELSE position[r]

\* The router will send c the next event of its request, or is sending it.
Linked(c) == ReceiverAlive(c) /\ (registry[call[c].id] = c \/ router.chan = c)

\* StreamContiguous is not inductive: the last event a linked stream has must be the
\* last one routed.  A stream that took the id while the router was sending to
\* the one before has none.
StreamsInOrder ==
    /\ \A c \in Calls : NoReplay(call[c].id) =>
          /\ \A i \in 1 .. Len(sent[c]) - 1 : sent[c][i + 1] = sent[c][i] + 1
          /\ pc[c] \in BeforeRegister => sent[c] = <<>>
          /\ Linked(c) /\ sent[c] # <<>> =>
                joined /\ sent[c][Len(sent[c])] = Routed(call[c].id)
    /\ (router.pc = "send" /\ NoReplay(router.id)
           /\ registry[router.id] \notin {NoCall, router.chan})
          => sent[registry[router.id]] = <<>>

\* c was told all that happened, and nothing else.
Told(c) ==
    LET n == Len(sent[c]) IN
    /\ n > 0 /\ n <= Len(topic[call[c].id])
    /\ \A i \in 1 .. n : sent[c][i] = i
    /\ \A i \in 1 .. n : IsTerminalAt(call[c].id, i) <=> i = n

Unregistering(r) == router.pc = "unregister" /\ router.id = r

\* c has been told all that was routed, and the request has not ended.
Telling(c) ==
    LET r == call[c].id IN
    /\ registry[r] = c /\ ~Unregistering(r)
    /\ Len(sent[c]) = Routed(r)
    /\ \A i \in 1 .. Len(sent[c]) : sent[c][i] = i /\ ~IsTerminalAt(r, i)

\* The stream of the only user of an id is being told, or has been told all and is
\* on its way out of the registry.
Tells(c) ==
    /\ pc[c] \in BeforeRegister => sent[c] = <<>>
    /\ pc[c] \in {"producing", "streaming"} =>
          \/ Telling(c)
          \/ /\ Told(c) /\ router.chan # c
             /\ registry[call[c].id] = c => Unregistering(call[c].id)
    /\ pc[c] = "ended" => Told(c)

StreamsTell ==
    \A c \in Calls : (SoleUser(c) /\ call[c].kind # "replay" /\ MissedNothing) => Tells(c)

StreamInv ==
    CallInv /\ LogsBegun /\ Assigned /\ StreamsInOrder /\ NoOrphanStream /\ StreamsTell

\* The cases of the proofs below: most steps leave every channel, the router and the
\* consumer alone, register nobody, and at most end a stream nobody sends to.
Unobtrusive ==
    /\ UNCHANGED <<call, sent, router, position, joined>>
    /\ \A r \in RequestIds : registry'[r] # registry[r] =>
          /\ registry'[r] = NoCall
          /\ \E c \in Calls : /\ call[c].id = r
                              /\ call[c].kind = "replay" \/ pc'[c] = "unregistered"
    /\ \A c \in Calls :
          /\ pc'[c] \in BeforeRegister => pc[c] \in BeforeRegister
          /\ pc'[c] \in ReceiverPCs => pc[c] \in ReceiverPCs
          /\ pc'[c] \in {"producing", "streaming"} /\ call[c].kind # "replay" =>
                pc[c] \in {"producing", "streaming"}
          /\ pc'[c] = "ended" /\ pc[c] # "ended" => pc[c] = "streaming" /\ ~SenderAlive(c)

LEMMA StreamSteps ==
    ASSUME GatewayAssumption, CallInv, [Next]_vars
    PROVE  /\ call' = call
           /\ \/ Unobtrusive /\ restarts' = restarts
              \/ \E c \in Calls : RegisterInsert(c) \/ TaskSend(c)
              \/ \E r \in RequestIds : RouterPoll(r)
              \/ RouterUpdate \/ RouterLookup \/ RouterSend \/ RouterUnregister
              \/ Assign \/ GatewayRestart
<1> USE DEF mapVars, chanVars, taskVars, metricVars, consVars, workerVars, cancelVars
<1>0. TypeOK /\ KindsApart
  BY DEF CallInv, TypeInv
<1>t. /\ pc \in [Calls -> PCs] /\ registry \in [RequestIds -> Calls \cup {NoCall}]
      /\ \A c \in Calls : call[c].id \in RequestIds /\ call[c].kind \in {"submit", "infer", "replay"}
  BY <1>0 DEF TypeOK
<1>1. ASSUME NEW c \in Calls, CallSteps(c), ~RegisterInsert(c)
      PROVE  Unobtrusive /\ restarts' = restarts
  <2> USE <1>0, <1>t DEF KindsApart, Unobtrusive, BeforeRegister, ReceiverPCs, Goto
  <2>1. CASE SubmitCheck(c)
    BY <2>1 DEF SubmitCheck
  <2>2. CASE InferInsert(c) \/ SubmitInsert(c)
    BY <2>2 DEF InferInsert, SubmitInsert, InsertRecord
  <2>4. CASE RegisterCheck(c)
    BY <2>4 DEF RegisterCheck
  <2>5. CASE FinishConflict(c) \/ EnqueueFinish(c)
    BY <2>5 DEF FinishConflict, EnqueueFinish, FailAndDec
  <2>7. CASE ProduceAck(c) \/ ProduceError(c)
    BY <2>7 DEF ProduceAck, ProduceError
  <2>9. CASE EnqueueUnregister(c)
    BY <2>9 DEF EnqueueUnregister
  <2>11. CASE ReplayLookup(c)
    BY <2>11 DEF ReplayLookup
  <2>12. CASE Snapshot(c)
    BY <2>12 DEF Snapshot
  <2>13. CASE DropHandler(c) \/ ClientRead(c) \/ Disconnect(c)
    BY <2>13 DEF DropHandler, ClientRead, Disconnect
  <2>15. CASE StreamEnd(c)
    BY <2>15 DEF StreamEnd
  <2> QED BY <1>1, <2>1, <2>2, <2>4, <2>5, <2>7, <2>9, <2>11, <2>12, <2>13, <2>15
             DEF CallSteps, Handler
<1>2. ASSUME NEW c \in Calls, TaskLookup(c) \/ TaskFinish(c)
      PROVE  Unobtrusive /\ restarts' = restarts
  <2>1. call[c].kind = "replay"
    BY <1>0, <1>2 DEF TaskLookup, TaskFinish, KindsApart
  <2> QED BY <1>t, <1>2, <2>1 DEF TaskLookup, TaskFinish, Unobtrusive
<1>3. ASSUME \/ \E c \in Calls : \/ Deliver(c) \/ Lose(c) \/ Worker(c) \/ WorkerCrash(c)
                                 \/ StrayEvent(c)
             \/ \E r \in RequestIds : \/ Cancel(r) \/ InferCancel(r) \/ PublishCancel(r)
                                      \/ LosePublish(r)
             \/ UNCHANGED vars
      PROVE  Unobtrusive /\ restarts' = restarts
  <2>1. UNCHANGED <<call, pc, sent, registry, router, position, joined, restarts>>
    BY <1>3 DEF Deliver, Lose, Worker, WorkerStart, WorkerToken, WorkerFinish, WorkerCommit,
                WorkerCrash, StrayEvent, Cancel, InferCancel, AcceptCancel, PublishCancel,
                LosePublish, vars
  <2> QED BY <2>1 DEF Unobtrusive
<1>4. call' = call
  BY <1>0, WorkerSteps
<1> QED BY <1>1, <1>2, <1>3, <1>4 DEF Next, CallSteps, Task, Router

\* What the router does, apart from sending.
LEMMA RouterMoves ==
    ASSUME GatewayAssumption, CallInv,
           RouterUpdate \/ RouterLookup \/ RouterUnregister \/ \E r \in RequestIds : RouterPoll(r)
    PROVE  /\ UNCHANGED <<call, pc, sent, joined, restarts, topic>>
           /\ router'.chan # NoCall =>
                 /\ RouterLookup /\ router.id \in RequestIds
                 /\ router'.chan = registry[router.id] /\ router'.id = router.id
                 /\ router'.pc = "send" /\ router'.off = router.off
           /\ \/ registry' = registry
              \/ RouterUnregister /\ registry' = [registry EXCEPT ![router.id] = NoCall]
           /\ \A r \in RequestIds :
                 Routed(r)' = Routed(r) \/ (RouterLookup /\ router.id = r /\ registry[r] = NoCall)
<1> USE DEF mapVars, chanVars, taskVars, metricVars, consVars, workerVars, cancelVars
<1>0. TypeOK /\ HeldOffsets /\ SendersKnown /\ RouterPlaced
  BY DEF CallInv, TypeInv
<1>t. /\ router \in RouterState /\ registry \in [RequestIds -> Calls \cup {NoCall}]
      /\ position \in [RequestIds -> Nat]
  BY <1>0 DEF TypeOK
<1>1. ASSUME NEW r \in RequestIds, RouterPoll(r)
      PROVE  /\ UNCHANGED <<call, pc, sent, joined, restarts, topic, registry>>
             /\ router'.chan = NoCall
             /\ \A q \in RequestIds : Routed(q)' = Routed(q)
  <2>1. /\ UNCHANGED <<call, pc, sent, joined, restarts, topic, registry>>
        /\ position' = [position EXCEPT ![r] = position[r] + 1] /\ router.pc = "poll"
        /\ router' = [pc |-> "update", id |-> r, off |-> position[r] + 1, chan |-> NoCall]
    BY <1>1 DEF RouterPoll
  <2> QED BY <1>t, <2>1 DEF Routed
<1>2. CASE RouterUpdate
  <2>1. /\ UNCHANGED <<call, pc, sent, joined, restarts, topic, registry, position>>
        /\ router.pc = "update" /\ router' = [router EXCEPT !.pc = "lookup"]
    BY <1>2 DEF RouterUpdate
  <2>2. router'.chan = NoCall
    BY <1>0, <1>t, <2>1 DEF SendersKnown, RouterState
  <2>3. \A q \in RequestIds : Routed(q)' = Routed(q)
    BY <1>t, <2>1 DEF Routed, RouterState
  <2> QED BY <1>2, <2>1, <2>2, <2>3
<1>3. CASE RouterLookup
  <2>1. /\ UNCHANGED <<call, pc, sent, joined, restarts, topic, registry, position>>
        /\ router.pc = "lookup" /\ router.id \in RequestIds
    BY <1>3, <1>0 DEF RouterLookup, HeldOffsets
  <2>2. CASE registry[router.id] = NoCall
    <3>1. router' = AfterSend
      BY <1>3, <2>2 DEF RouterLookup
    <3>2. router'.chan = NoCall
          /\ (router' = IdleRouter \/ router' = [router EXCEPT !.pc = "unregister", !.chan = NoCall])
      BY <1>t, <3>1 DEF AfterSend, IdleRouter, RouterState
    <3>3. IdleRouter.id \notin RequestIds
      BY DEF IdleRouter, GatewayAssumption
    <3>4. \A q \in RequestIds : q # router.id => Routed(q)' = Routed(q)
      BY <1>t, <2>1, <3>2, <3>3 DEF Routed, RouterState
    <3> QED BY <1>3, <2>1, <2>2, <3>2, <3>4
  <2>3. CASE registry[router.id] # NoCall
    <3>1. router' = [router EXCEPT !.pc = "send", !.chan = registry[router.id]]
      BY <1>3, <2>3 DEF RouterLookup
    <3>2. \A q \in RequestIds : Routed(q)' = Routed(q)
      BY <1>t, <2>1, <3>1 DEF Routed, RouterState
    <3> QED BY <1>3, <1>t, <2>1, <3>1, <3>2 DEF RouterState
  <2> QED BY <2>2, <2>3
<1>4. CASE RouterUnregister
  <2>1. /\ UNCHANGED <<call, pc, sent, joined, restarts, topic, position>>
        /\ router.pc = "unregister" /\ router' = IdleRouter
        /\ registry' = [registry EXCEPT ![router.id] = NoCall]
    BY <1>4 DEF RouterUnregister
  <2>2. router'.chan = NoCall /\ router'.pc = "poll"
    BY <2>1 DEF IdleRouter
  <2>3. \A q \in RequestIds : Routed(q)' = Routed(q)
    BY <2>1, <2>2 DEF Routed
  <2> QED BY <1>4, <2>1, <2>2, <2>3
<1> QED BY <1>1, <1>2, <1>3, <1>4

\* What a send, if any, appends, and where it leaves the router.
LEMMA RouterSends ==
    ASSUME GatewayAssumption, CallInv, RouterSend
    PROVE  /\ UNCHANGED <<call, pc, registry, joined, restarts, topic, position>>
           /\ router.id \in RequestIds /\ router.chan \in Calls
           /\ call[router.chan].id = router.id
           /\ router.off = position[router.id] /\ Routed(router.id) = router.off - 1
           /\ router.off \in 1 .. Len(topic[router.id])
           /\ router'.chan = NoCall
           /\ IF IsTerminalAt(router.id, router.off)
              THEN router'.pc = "unregister" /\ router'.id = router.id /\ router'.off = router.off
              ELSE router'.pc = "poll" /\ router'.id \notin RequestIds
           /\ \A q \in RequestIds : Routed(q)' = IF q = router.id THEN router.off ELSE Routed(q)
           /\ IF ReceiverAlive(router.chan)
              THEN sent' = [sent EXCEPT ![router.chan] = Append(@, router.off)]
              ELSE sent' = sent
<1> USE DEF mapVars, chanVars, taskVars, metricVars, consVars, workerVars, cancelVars
<1>0. TypeOK /\ HeldOffsets /\ SendersKnown /\ RouterPlaced
  BY DEF CallInv, TypeInv
<1>t. router \in RouterState /\ position \in [RequestIds -> Nat] /\ NoCall \notin Calls
  BY <1>0 DEF TypeOK, GatewayAssumption
<1>1. /\ UNCHANGED <<call, pc, registry, joined, restarts, topic, position>>
      /\ router.pc = "send" /\ router' = AfterSend /\ SendOn(router.chan, router.off)
  BY DEF RouterSend
<1>2. /\ router.id \in RequestIds /\ router.chan \in Calls /\ call[router.chan].id = router.id
      /\ router.off = position[router.id] /\ router.off \in 1 .. Len(topic[router.id])
  BY <1>0, <1>1, <1>t DEF HeldOffsets, SendersKnown, RouterPlaced, RouterState
<1>3. Routed(router.id) = router.off - 1
  BY <1>1 DEF Routed
<1>4. /\ router'.chan = NoCall /\ router'.pc \in {"poll", "unregister"}
      /\ IF IsTerminalAt(router.id, router.off)
         THEN router'.pc = "unregister" /\ router'.id = router.id /\ router'.off = router.off
         ELSE router'.pc = "poll" /\ router'.id \notin RequestIds
  BY <1>1, <1>t DEF AfterSend, IsTerminalAt, RoutedType, IdleRouter, RouterState, GatewayAssumption
<1>5. \A q \in RequestIds : Routed(q)' = position[q]
  BY <1>1, <1>4 DEF Routed
<1>6. \A q \in RequestIds : q # router.id => Routed(q) = position[q]
  BY DEF Routed
<1>7. IF ReceiverAlive(router.chan)
      THEN sent' = [sent EXCEPT ![router.chan] = Append(@, router.off)]
      ELSE sent' = sent
  BY <1>1 DEF SendOn
<1> QED BY <1>1, <1>2, <1>3, <1>4, <1>5, <1>6, <1>7

LEMMA AssignedKept == ASSUME GatewayAssumption, CallInv, Assigned, [Next]_vars PROVE Assigned'
<1> USE DEF consVars
<1>0. TypeOK /\ (MissedNothing => joined)
  BY DEF CallInv, TypeInv, Assigned
<1>t. restarts \in Nat
  BY <1>0 DEF TypeOK, GatewayAssumption
<1>1. CASE GatewayRestart
  BY <1>0, <1>t, <1>1 DEF GatewayRestart, Assigned, MissedNothing
<1>2. CASE Assign
  BY <1>2 DEF Assign, Assigned
<1>3. CASE joined' = joined /\ restarts' = restarts
  BY <1>0, <1>3 DEF Assigned, MissedNothing
<1>4. ASSUME NEW c \in Calls, RegisterInsert(c) \/ TaskSend(c)
      PROVE  joined' = joined /\ restarts' = restarts
  BY <1>4 DEF RegisterInsert, TaskSend
<1>5. CASE RouterSend
  BY <1>3, <1>5, RouterSends
<1>6. ASSUME RouterUpdate \/ RouterLookup \/ RouterUnregister \/ \E r \in RequestIds : RouterPoll(r)
      PROVE  joined' = joined /\ restarts' = restarts
  BY <1>6, RouterMoves
<1>7. Unobtrusive => joined' = joined
  BY DEF Unobtrusive
<1> QED BY <1>1, <1>2, <1>3, <1>4, <1>5, <1>6, <1>7, StreamSteps

\* A job that reached the request topic stays there, and a committed one committed.
LEMMA JobsStay ==
    ASSUME GatewayAssumption, CallInv, [Next]_vars
    PROVE  \A c \in Calls : /\ job[c] \in HasReached => job'[c] \in HasReached
                            /\ job[c] = "done" => job'[c] = "done"
<1> USE DEF mapVars, chanVars, taskVars, metricVars, consVars, workerVars, cancelVars
<1> DEFINE Stay == \A d \in Calls : /\ job[d] \in HasReached => job'[d] \in HasReached
                                    /\ job[d] = "done" => job'[d] = "done"
<1>0. TypeOK /\ JobsFollow
  BY DEF CallInv, TypeInv
<1>t. job \in [Calls -> JobStates]
  BY <1>0 DEF TypeOK
<1>1. ASSUME NEW c \in Calls, Deliver(c) \/ Lose(c) \/ WorkerStart(c) \/ WorkerFinish(c)
                              \/ WorkerCommit(c) \/ WorkerCrash(c)
      PROVE  Stay
  BY <1>t, <1>1 DEF Deliver, Lose, WorkerStart, WorkerFinish, WorkerCommit, WorkerCrash,
                    HasReached
<1>2. ASSUME NEW c \in Calls, RegisterInsert(c)
      PROVE  Stay
  BY <1>0, <1>t, <1>2 DEF RegisterInsert, JobsFollow, BeforeRegister, HasReached
<1>3. ASSUME GatewayRestart PROVE Stay
  BY <1>t, <1>3 DEF GatewayRestart, HasReached
<1>4. ASSUME NEW c \in Calls, WorkerToken(c) \/ StrayEvent(c) PROVE Stay
  BY <1>4 DEF WorkerToken, StrayEvent
<1>5. ASSUME NEW c \in Calls, CallSteps(c) \/ Task(c), ~RegisterInsert(c) PROVE Stay
  BY <1>5 DEF CallSteps, Handler, Task, SubmitCheck, InferInsert, SubmitInsert, InsertRecord,
              RegisterCheck, FinishConflict, ProduceAck, ProduceError, EnqueueUnregister,
              EnqueueFinish, ReplayLookup, Snapshot, DropHandler, ClientRead, StreamEnd,
              Disconnect, TaskLookup, TaskSend, TaskFinish
<1>6. ASSUME Router \/ Assign \/ UNCHANGED vars PROVE Stay
  BY <1>6 DEF Router, RouterPoll, RouterUpdate, RouterLookup, RouterSend, RouterUnregister,
              Assign, vars
<1>7. ASSUME NEW r \in RequestIds,
             Cancel(r) \/ InferCancel(r) \/ PublishCancel(r) \/ LosePublish(r)
      PROVE  Stay
  BY <1>7 DEF Cancel, InferCancel, AcceptCancel, PublishCancel, LosePublish
<1> HIDE DEF Stay
<1>8. Stay
  BY <1>1, <1>2, <1>3, <1>4, <1>5, <1>6, <1>7 DEF Next, CallSteps, Worker
<1> QED BY <1>8 DEF Stay

LEMMA LogsBegunKept == ASSUME GatewayAssumption, CallInv, LogsBegun, [Next]_vars PROVE LogsBegun'
<1> USE DEF mapVars, chanVars, taskVars, metricVars, consVars, workerVars, cancelVars
<1>0. TypeOK /\ JobsFollow /\ call' = call
  BY WorkerSteps DEF CallInv, TypeInv
<1>t. /\ job \in [Calls -> JobStates] /\ tries \in [Calls -> 0 .. MaxAttempts]
      /\ topic \in [RequestIds -> Seq(Event)]
      /\ \A c \in Calls : call[c].id \in RequestIds
  BY <1>0 DEF TypeOK
<1>j. \A c \in Calls : job[c] \in HasReached => job'[c] \in HasReached
  BY JobsStay
<1>w. \/ topic' = topic /\ tries' = tries
      \/ \E c \in Calls : \/ WorkerStart(c) \/ WorkerToken(c) \/ WorkerFinish(c) \/ StrayEvent(c)
  <2>1. ASSUME NEW c \in Calls, CallSteps(c) \/ Task(c) PROVE topic' = topic /\ tries' = tries
    BY <2>1 DEF CallSteps, Handler, Task, SubmitCheck, InferInsert, SubmitInsert, InsertRecord,
                RegisterCheck, FinishConflict, RegisterInsert, ProduceAck, ProduceError,
                EnqueueUnregister, EnqueueFinish, ReplayLookup, Snapshot, DropHandler, ClientRead,
                StreamEnd, Disconnect, TaskLookup, TaskSend, TaskFinish
  <2>2. ASSUME NEW c \in Calls, Deliver(c) \/ Lose(c) \/ WorkerCommit(c) \/ WorkerCrash(c)
        PROVE  topic' = topic /\ tries' = tries
    BY <2>2 DEF Deliver, Lose, WorkerCommit, WorkerCrash
  <2>3. CASE Router \/ Assign \/ GatewayRestart \/ UNCHANGED vars
    BY <2>3 DEF Router, RouterPoll, RouterUpdate, RouterLookup, RouterSend, RouterUnregister,
                Assign, GatewayRestart, vars
  <2>4. ASSUME NEW r \in RequestIds,
               Cancel(r) \/ InferCancel(r) \/ PublishCancel(r) \/ LosePublish(r)
        PROVE  topic' = topic /\ tries' = tries
    BY <2>4 DEF Cancel, InferCancel, AcceptCancel, PublishCancel, LosePublish
  <2> QED BY <2>1, <2>2, <2>3, <2>4 DEF Next, CallSteps, Worker
<1>1. CASE topic' = topic /\ tries' = tries
  BY <1>0, <1>j, <1>1 DEF LogsBegun
<1>2. ASSUME NEW c \in Calls, WorkerStart(c) \/ WorkerToken(c) \/ WorkerFinish(c) \/ StrayEvent(c)
      PROVE  LogsBegun'
  <2>1. /\ \E type, n : Publish(c, type, n)
        /\ tries' = tries \/ tries' = [tries EXCEPT ![c] = tries[c] + 1]
        /\ job[c] \in {"queued", "running"} \/ tries[c] > 0
    BY <1>2, <1>t DEF WorkerStart, WorkerToken, WorkerFinish, StrayEvent
  <2>2. job'[c] \in HasReached
    BY <1>j, <2>1 DEF LogsBegun, HasReached
  <2>3. \A r \in RequestIds : r # call[c].id => topic'[r] = topic[r]
    BY <1>t, <2>1 DEF Publish
  <2>4. \A d \in Calls : d # c => tries'[d] = tries[d]
    BY <1>t, <2>1
  <2> QED BY <1>0, <1>j, <2>2, <2>3, <2>4 DEF LogsBegun
<1> QED BY <1>1, <1>2, <1>w

\* The event after the last one, or any event if there is none, goes on in order.
LEMMA AppendNext ==
    ASSUME NEW s \in Seq(Nat), NEW n \in Nat, s # <<>> => s[Len(s)] = n - 1,
           \A i \in 1 .. Len(s) - 1 : s[i + 1] = s[i] + 1
    PROVE  /\ \A i \in 1 .. Len(Append(s, n)) - 1 : Append(s, n)[i + 1] = Append(s, n)[i] + 1
           /\ Append(s, n)[Len(Append(s, n))] = n
<1> DEFINE t == Append(s, n)
<1>1. /\ Len(t) = Len(s) + 1 /\ t[Len(s) + 1] = n /\ Len(s) \in Nat
      /\ \A i \in 1 .. Len(s) : t[i] = s[i] /\ s[i] \in Nat
  OBVIOUS
<1> HIDE DEF t
<1>2. ASSUME NEW i \in 1 .. Len(t) - 1 PROVE t[i + 1] = t[i] + 1
  <2>1. CASE i = Len(s)
    BY <1>1, <1>2, <2>1
  <2>2. CASE i # Len(s)
    <3>1. i \in 1 .. Len(s) - 1 /\ i + 1 \in 1 .. Len(s)
      BY <1>1, <1>2, <2>2
    <3> QED BY <1>1, <3>1
  <2> QED BY <2>1, <2>2
<1>3. t[Len(t)] = n
  BY <1>1
<1> QED BY <1>2, <1>3 DEF t

LEMMA InOrderKept ==
    ASSUME GatewayAssumption, CallInv, StreamsInOrder, [Next]_vars PROVE StreamsInOrder'
<1>0. TypeOK /\ CallInv' /\ call' = call /\ SendersKnown /\ RouterPlaced
  BY CallInvKept, StreamSteps DEF CallInv, TypeInv
<1>t. /\ sent \in [Calls -> Seq(Nat)] /\ \A c \in Calls : call[c].id \in RequestIds
      /\ registry \in [RequestIds -> Calls \cup {NoCall}]
      /\ pc \in [Calls -> PCs] /\ position \in [RequestIds -> Nat]
      /\ router.chan \in Calls \cup {NoCall}
      /\ NoCall \notin Calls /\ NoRequest \notin RequestIds /\ router \in RouterState
  BY <1>0 DEF TypeOK, GatewayAssumption, RouterState
<1>n. \A r : NoReplay(r)' <=> NoReplay(r)
  BY <1>0 DEF NoReplay
\* A step that leaves the channels and the routed events alone, and adds no link.
<1>q. ASSUME sent' = sent, joined' = joined, \A r \in RequestIds : Routed(r)' = Routed(r),
             \A c \in Calls : /\ pc'[c] \in BeforeRegister => pc[c] \in BeforeRegister
                              /\ Linked(c)' => Linked(c),
             router'.pc = "send" /\ registry'[router'.id] \notin {NoCall, router'.chan} =>
                 /\ router.pc = "send" /\ router'.id = router.id
                 /\ registry'[router.id] = registry[router.id] /\ router'.chan = router.chan
      PROVE  StreamsInOrder'
  <2>1. ASSUME NEW c \in Calls, NoReplay(call[c].id)
        PROVE  /\ \A i \in 1 .. Len(sent'[c]) - 1 : sent'[c][i + 1] = sent'[c][i] + 1
               /\ pc'[c] \in BeforeRegister => sent'[c] = <<>>
               /\ Linked(c)' /\ sent'[c] # <<>> =>
                     joined' /\ sent'[c][Len(sent'[c])] = Routed(call[c].id)'
    <3>1. Routed(call[c].id)' = Routed(call[c].id)
      BY <1>0, <1>q, <1>t
    <3> QED BY <1>q, <2>1, <3>1 DEF StreamsInOrder
  <2>2. router'.pc = "send" /\ NoReplay(router'.id)
           /\ registry'[router'.id] \notin {NoCall, router'.chan}
          => sent'[registry'[router'.id]] = <<>>
    BY <1>q DEF StreamsInOrder
  <2> QED BY <1>0, <1>n, <2>1, <2>2 DEF StreamsInOrder
<1>1. CASE Unobtrusive
  <2>1. /\ UNCHANGED <<call, sent, router, position, joined>>
        /\ \A r \in RequestIds : registry'[r] = registry[r] \/ registry'[r] = NoCall
        /\ \A c \in Calls : /\ pc'[c] \in BeforeRegister => pc[c] \in BeforeRegister
                            /\ pc'[c] \in ReceiverPCs => pc[c] \in ReceiverPCs
    BY <1>1 DEF Unobtrusive
  <2>2. \A r \in RequestIds : Routed(r)' = Routed(r)
    BY <2>1 DEF Routed
  <2>3. \A c \in Calls : Linked(c)' => Linked(c)
    BY <1>t, <2>1 DEF Linked, ReceiverAlive
  <2>4. router.pc = "send" => router.id \in RequestIds
    BY DEF CallInv, TypeInv, HeldOffsets
  <2> QED BY <1>q, <2>1, <2>2, <2>3, <2>4
<1>2. CASE \/ RouterUpdate \/ RouterUnregister \/ \E r \in RequestIds : RouterPoll(r)
           \/ RouterLookup
  <2>1. /\ UNCHANGED <<call, pc, sent, joined>>
        /\ router'.chan # NoCall =>
              /\ RouterLookup /\ router.id \in RequestIds
              /\ router'.chan = registry[router.id] /\ router'.id = router.id
              /\ router'.pc = "send"
        /\ registry' = registry
           \/ (RouterUnregister /\ registry' = [registry EXCEPT ![router.id] = NoCall])
        /\ \A r \in RequestIds :
              Routed(r)' = Routed(r) \/ (RouterLookup /\ router.id = r /\ registry[r] = NoCall)
    BY <1>2, RouterMoves
  <2>2. router'.pc = "send" => router'.chan # NoCall
    BY <1>0 DEF CallInv, RouterPlaced
  <2>3. RouterLookup => router.chan = NoCall /\ registry' = registry
    BY <1>0, <1>t, <2>1 DEF RouterLookup, SendersKnown, mapVars
  <2>4. \A c \in Calls : Linked(c)' => Linked(c)
    <3> SUFFICES ASSUME NEW c \in Calls, Linked(c)' PROVE Linked(c)
      OBVIOUS
    <3>1. ReceiverAlive(c) /\ (registry'[call[c].id] = c \/ router'.chan = c)
      BY <1>0, <2>1 DEF Linked, ReceiverAlive
    <3>2. CASE registry'[call[c].id] = c
      BY <1>t, <2>1, <3>1, <3>2 DEF Linked
    <3>3. CASE router'.chan = c
      <4>1. registry[router.id] = c /\ router.id \in RequestIds
        BY <1>t, <2>1, <3>3
      <4>2. call[c].id = router.id
        BY <1>0, <1>t, <4>1 DEF SendersKnown
      <4> QED BY <3>1, <4>1, <4>2 DEF Linked
    <3> QED BY <3>1, <3>2, <3>3
  <2>5. router'.pc = "send" => registry'[router'.id] = router'.chan
    BY <2>1, <2>2, <2>3
  <2>6. CASE \A r \in RequestIds : Routed(r)' = Routed(r)
    BY <1>q, <2>1, <2>4, <2>5, <2>6
  <2>7. ASSUME RouterLookup, registry[router.id] = NoCall PROVE StreamsInOrder'
    <3>1. router'.chan = NoCall /\ router'.pc # "send" /\ registry' = registry
      BY <1>t, <2>1, <2>2, <2>3, <2>7
    <3>2. ASSUME NEW c \in Calls, NoReplay(call[c].id), Linked(c)'
          PROVE  Linked(c) /\ Routed(call[c].id)' = Routed(call[c].id)
      <4>1. registry[call[c].id] = c
        BY <1>0, <1>t, <3>1, <3>2 DEF Linked
      <4> QED BY <1>t, <2>1, <2>4, <2>7, <3>2, <4>1
    <3>3. \A c \in Calls : NoReplay(call[c].id) =>
              /\ \A i \in 1 .. Len(sent'[c]) - 1 : sent'[c][i + 1] = sent'[c][i] + 1
              /\ pc'[c] \in BeforeRegister => sent'[c] = <<>>
              /\ Linked(c)' /\ sent'[c] # <<>> =>
                    joined' /\ sent'[c][Len(sent'[c])] = Routed(call[c].id)'
      BY <2>1, <3>2 DEF StreamsInOrder
    <3> QED BY <1>0, <1>n, <3>1, <3>3 DEF StreamsInOrder
  <2> QED BY <2>1, <2>6, <2>7
<1>3. CASE RouterSend
  <2>0. PICK d \in Calls, off \in Nat : d = router.chan /\ off = router.off
    BY <1>3, <1>t, RouterSends DEF RouterState
  <2>1. /\ UNCHANGED <<call, pc, registry, joined>>
        /\ router.id \in RequestIds /\ call[d].id = router.id
        /\ router.off = position[router.id] /\ Routed(router.id) = off - 1
        /\ router'.chan = NoCall /\ router'.pc # "send"
        /\ \A q \in RequestIds : Routed(q)' = IF q = router.id THEN off ELSE Routed(q)
        /\ IF ReceiverAlive(d) THEN sent' = [sent EXCEPT ![d] = Append(@, off)] ELSE sent' = sent
    BY <1>3, <2>0, RouterSends
  <2>2. sent[d] \in Seq(Nat) /\ router.pc = "send" /\ joined
    BY <1>0, <1>3, <1>t, <2>1 DEF RouterSend, RouterPlaced
  <2>3. ASSUME NEW c \in Calls, NoReplay(call[c].id), c # d \/ ~ReceiverAlive(d)
        PROVE  /\ \A i \in 1 .. Len(sent'[c]) - 1 : sent'[c][i + 1] = sent'[c][i] + 1
               /\ pc'[c] \in BeforeRegister => sent'[c] = <<>>
               /\ Linked(c)' /\ sent'[c] # <<>> =>
                     joined' /\ sent'[c][Len(sent'[c])] = Routed(call[c].id)'
    <3>1. sent'[c] = sent[c]
      BY <1>t, <2>1, <2>3
    <3>2. ASSUME Linked(c)', sent[c] # <<>> PROVE Linked(c) /\ call[c].id # router.id
      <4>1. ReceiverAlive(c) /\ registry[call[c].id] = c
        BY <1>0, <1>t, <2>1, <3>2 DEF Linked, ReceiverAlive
      <4>2. c # d
        BY <2>3, <4>1
      <4>3. ASSUME call[c].id = router.id PROVE FALSE
        <5>1. registry[router.id] = c /\ NoReplay(router.id)
          BY <2>3, <4>1, <4>3
        <5>2. registry[router.id] \notin {NoCall, router.chan}
          BY <1>t, <2>0, <4>2, <5>1
        <5> QED BY <2>2, <3>2, <5>1, <5>2 DEF StreamsInOrder
      <4> QED BY <4>1, <4>3 DEF Linked
    <3> QED BY <1>t, <2>1, <2>3, <3>1, <3>2 DEF StreamsInOrder
  <2>4. ASSUME NoReplay(call[d].id), ReceiverAlive(d)
        PROVE  /\ \A i \in 1 .. Len(sent'[d]) - 1 : sent'[d][i + 1] = sent'[d][i] + 1
               /\ pc'[d] \in BeforeRegister => sent'[d] = <<>>
               /\ sent'[d][Len(sent'[d])] = Routed(call[d].id)'
    <3>1. sent'[d] = Append(sent[d], off)
      BY <1>t, <2>1, <2>4
    <3>2. sent[d] # <<>> => sent[d][Len(sent[d])] = off - 1
      BY <2>0, <2>1, <2>4 DEF StreamsInOrder, Linked
    <3>3. \A i \in 1 .. Len(sent[d]) - 1 : sent[d][i + 1] = sent[d][i] + 1
      BY <2>1, <2>4 DEF StreamsInOrder
    <3>4. pc'[d] \notin BeforeRegister
      BY <2>1, <2>4 DEF ReceiverAlive, ReceiverPCs, BeforeRegister
    <3>5. /\ \A i \in 1 .. Len(sent'[d]) - 1 : sent'[d][i + 1] = sent'[d][i] + 1
          /\ sent'[d][Len(sent'[d])] = off
      <4>1. /\ \A i \in 1 .. Len(Append(sent[d], off)) - 1 :
                  Append(sent[d], off)[i + 1] = Append(sent[d], off)[i] + 1
            /\ Append(sent[d], off)[Len(Append(sent[d], off))] = off
        BY <2>2, <3>2, <3>3, AppendNext
      <4> QED BY <3>1, <4>1
    <3>6. Routed(call[d].id)' = off
      BY <1>t, <2>1
    <3> QED BY <3>4, <3>5, <3>6
  <2> QED BY <1>0, <1>n, <2>1, <2>2, <2>3, <2>4 DEF StreamsInOrder
<1>4. ASSUME NEW t \in Calls, TaskSend(t) PROVE StreamsInOrder'
  <2>1. /\ UNCHANGED <<call, pc, registry, router, position, joined>>
        /\ task[t].pc = "sending" /\ SendOn(task[t].chan, snap[t][task[t].pos + 1])
    BY <1>4 DEF TaskSend, mapVars, consVars
  <2>2. ~NoReplay(call[t].id)
    BY <2>1 DEF CallInv, KindsApart, NoReplay
  <2>3. ASSUME NEW c \in Calls, NoReplay(call[c].id) PROVE c # task[t].chan
    <3> SUFFICES ASSUME c = task[t].chan PROVE FALSE
      OBVIOUS
    <3>1. call[c].id = call[t].id
      BY <1>0, <1>t DEF SendersKnown
    <3> QED BY <2>2, <2>3, <3>1
  <2>4. \A c \in Calls : NoReplay(call[c].id) => sent'[c] = sent[c]
    BY <1>t, <2>1, <2>3 DEF SendOn
  <2>5. \A r : Routed(r)' = Routed(r)
    BY <2>1 DEF Routed
  <2>6. \A c \in Calls : Linked(c)' <=> Linked(c)
    BY <2>1 DEF Linked, ReceiverAlive
  <2>7. router.pc = "send" /\ NoReplay(router.id) /\ registry[router.id] \notin {NoCall, router.chan}
          => /\ sent[registry[router.id]] = <<>>
             /\ registry[router.id] \in Calls /\ call[registry[router.id]].id = router.id
    BY <1>0, <1>t DEF StreamsInOrder, SendersKnown, CallInv, TypeInv, HeldOffsets
  <2>8. /\ \A c \in Calls : NoReplay(call[c].id) =>
              /\ \A i \in 1 .. Len(sent'[c]) - 1 : sent'[c][i + 1] = sent'[c][i] + 1
              /\ pc'[c] \in BeforeRegister => sent'[c] = <<>>
              /\ Linked(c)' /\ sent'[c] # <<>> =>
                    joined' /\ sent'[c][Len(sent'[c])] = Routed(call[c].id)'
    BY <2>1, <2>4, <2>5, <2>6 DEF StreamsInOrder
  <2> QED BY <1>0, <1>n, <2>1, <2>4, <2>7, <2>8 DEF StreamsInOrder
<1>5. ASSUME NEW d \in Calls, RegisterInsert(d) PROVE StreamsInOrder'
  <2>1. /\ UNCHANGED <<call, sent, router, position, joined>> /\ pc[d] = "unique"
        /\ registry' = [registry EXCEPT ![call[d].id] = d]
        /\ \E next \in {"snapshotting", "producing"} : pc' = [pc EXCEPT ![d] = next]
    BY <1>5 DEF RegisterInsert, chanVars, consVars, Goto
  <2>2. \A r : Routed(r)' = Routed(r)
    BY <2>1 DEF Routed
  <2>3. NoReplay(call[d].id) => sent[d] = <<>>
    BY <2>1 DEF StreamsInOrder, BeforeRegister
  <2>4. \A c \in Calls : /\ c # d /\ Linked(c)' => Linked(c)
                         /\ pc'[c] \in BeforeRegister => pc[c] \in BeforeRegister
    BY <1>t, <2>1 DEF Linked, ReceiverAlive, BeforeRegister
  <2>5. router.pc = "send" => router.id \in RequestIds
    BY DEF CallInv, TypeInv, HeldOffsets
  <2>6. router.pc = "send" /\ NoReplay(router.id) /\ registry'[router.id] \notin {NoCall, router.chan}
          => sent[registry'[router.id]] = <<>>
    BY <1>t, <2>1, <2>3, <2>5 DEF StreamsInOrder
  <2>7. \A c \in Calls : NoReplay(call[c].id) =>
              /\ \A i \in 1 .. Len(sent[c]) - 1 : sent[c][i + 1] = sent[c][i] + 1
              /\ pc'[c] \in BeforeRegister => sent[c] = <<>>
              /\ Linked(c)' /\ sent[c] # <<>> =>
                    joined /\ sent[c][Len(sent[c])] = Routed(call[c].id)
    BY <2>3, <2>4 DEF StreamsInOrder
  <2> QED BY <1>0, <1>n, <2>1, <2>2, <2>6, <2>7 DEF StreamsInOrder
<1>6. CASE Assign
  <2>1. /\ UNCHANGED <<call, pc, sent, registry, router>> /\ ~joined
    BY <1>6 DEF Assign, chanVars, mapVars
  <2>2. \A c \in Calls : NoReplay(call[c].id) /\ Linked(c)' => sent[c] = <<>>
    BY <2>1 DEF StreamsInOrder, Linked, ReceiverAlive
  <2> QED BY <1>0, <1>n, <2>1, <2>2 DEF StreamsInOrder
<1>7. CASE GatewayRestart
  <2>1. /\ call' = call /\ sent' = sent /\ router' = IdleRouter
        /\ pc' = [c \in Calls |-> IF pc[c] \in {"idle", "ended", "failed"} THEN pc[c] ELSE "gone"]
    BY <1>7 DEF GatewayRestart, chanVars
  <2>2. \A c \in Calls : /\ ~ReceiverAlive(c)'
                         /\ pc'[c] \in BeforeRegister => pc[c] \in BeforeRegister
    BY <2>1 DEF ReceiverAlive, ReceiverPCs, BeforeRegister
  <2> QED BY <1>0, <1>n, <2>1, <2>2 DEF StreamsInOrder, Linked, IdleRouter
<1> QED BY <1>1, <1>2, <1>3, <1>4, <1>5, <1>6, <1>7, StreamSteps

\* A registered stream of an id's only job: its request had no event before it.
LEMMA FreshLog ==
    ASSUME CallInv, LogsBegun, NEW c \in Calls, SoleJob(c), pc[c] \in BeforeRegister
    PROVE  topic[call[c].id] = <<>> /\ position[call[c].id] = 0
<1>1. TypeOK /\ JobsFollow /\ RouterPlaced /\ call[c].id \in RequestIds
  BY DEF CallInv, TypeInv, TypeOK
<1>2. \A d \in Calls : call[d].id = call[c].id => job[d] = "none"
  BY <1>1 DEF JobsFollow, SoleJob
<1>3. topic[call[c].id] = <<>>
  BY <1>1, <1>2 DEF LogsBegun, HasReached
<1> QED BY <1>1, <1>3 DEF RouterPlaced, TypeOK

\* What is in the log before a step is still there after it.
LEMMA LogKept ==
    ASSUME GatewayAssumption, TypeInv, [Next]_vars, NEW r \in RequestIds
    PROVE  /\ Len(topic[r]) \in Nat /\ Len(topic'[r]) \in Nat /\ Len(topic[r]) <= Len(topic'[r])
           /\ \A i \in 1 .. Len(topic[r]) : IsTerminalAt(r, i)' <=> IsTerminalAt(r, i)
<1>1. /\ Len(topic[r]) <= Len(topic'[r])
      /\ \A i \in 1 .. Len(topic[r]) : topic'[r][i] = topic[r][i]
  BY TopicGrows DEF TypeInv
<1>2. topic[r] \in Seq(Event) /\ topic'[r] \in Seq(Event)
  BY StepTyped DEF TypeInv, TypeOK
<1> QED BY <1>1, <1>2 DEF IsTerminalAt, EventAt

LEMMA NoOrphanKept ==
    ASSUME GatewayAssumption, CallInv, LogsBegun, Assigned, NoOrphanStream, [Next]_vars
    PROVE  NoOrphanStream'
<1> USE DEF mapVars, chanVars, taskVars, metricVars, consVars, workerVars, cancelVars
<1>0. /\ TypeOK /\ CallInv' /\ call' = call /\ HeldOffsets /\ SendersKnown /\ SendersKnown'
      /\ RouterPlaced
  BY CallInvKept, StreamSteps DEF CallInv, TypeInv
<1>t. /\ \A c \in Calls : call[c].id \in RequestIds
      /\ registry \in [RequestIds -> Calls \cup {NoCall}]
      /\ position \in [RequestIds -> Nat] /\ restarts \in Nat
      /\ NoCall \notin Calls /\ NoRequest \notin RequestIds /\ router \in RouterState
  BY <1>0 DEF TypeOK, GatewayAssumption
<1>s. \A c \in Calls : SoleJob(c)' <=> SoleJob(c)
  BY <1>0 DEF SoleJob
\* What is to show, with the first conjunct already known of every state.
<1>g. SUFFICES ASSUME NEW r \in RequestIds, NEW c \in Calls, registry'[r] = c,
                      call[c].kind = "submit", SoleJob(c), MissedNothing',
                      NEW off \in 1 .. position'[r], IsTerminalAt(r, off)'
               PROVE  router'.id = r /\ router'.off <= off
  <2>1. ASSUME NEW r \in RequestIds, NEW c \in Calls, registry'[r] = c, call[c].kind = "submit"
        PROVE  pc'[c] \notin {"failed", "ended"}
    BY <1>0, <1>t, <2>1 DEF SendersKnown
  <2> QED BY <1>0, <1>s, <1>g, <2>1 DEF NoOrphanStream
<1>p. \A q \in RequestIds : position[q] <= Len(topic[q])
  BY <1>0 DEF RouterPlaced
\* A step that leaves the registration and the consumer alone.
<1>q. ASSUME registry[r] = c, position'[r] = position[r], MissedNothing,
             router.id = r => \/ router'.id = r /\ router'.off = router.off
                              \/ ~IsTerminalAt(r, router.off)
      PROVE  router'.id = r /\ router'.off <= off
  <2>1. IsTerminalAt(r, off) /\ off \in 1 .. position[r]
    BY <1>0, <1>g, <1>p, <1>q, <1>t, LogKept DEF CallInv
  <2>2. router.id = r /\ router.off <= off
    BY <1>g, <1>q, <2>1 DEF NoOrphanStream
  <2>3. router.off = position[r]
    BY <1>0, <1>g, <1>t, <2>2 DEF RouterPlaced
  <2>4. router.off = off
    BY <1>t, <2>1, <2>2, <2>3
  <2> QED BY <1>q, <2>1, <2>2, <2>4
<1>1. ASSUME Unobtrusive, restarts' = restarts PROVE router'.id = r /\ router'.off <= off
  <2>1. registry[r] = c /\ position' = position /\ router' = router /\ MissedNothing
    BY <1>1, <1>g, <1>t DEF Unobtrusive, MissedNothing
  <2> QED BY <1>q, <2>1
<1>2. ASSUME NEW d \in Calls, RegisterInsert(d) PROVE router'.id = r /\ router'.off <= off
  <2>1. /\ UNCHANGED <<call, router, position, restarts>> /\ pc[d] = "unique"
        /\ registry' = [registry EXCEPT ![call[d].id] = d]
    BY <1>2 DEF RegisterInsert
  <2>2. CASE d = c
    <3>1. call[c].id = r
      BY <1>0, <1>g, <1>t DEF SendersKnown
    <3>2. position[r] = 0
      BY <1>g, <2>1, <2>2, <3>1, FreshLog DEF BeforeRegister
    <3> QED BY <1>g, <2>1, <3>2
  <2>3. CASE d # c
    <3>1. registry[r] = c /\ MissedNothing
      BY <1>g, <1>t, <2>1, <2>3 DEF MissedNothing
    <3> QED BY <1>q, <2>1, <3>1
  <2> QED BY <2>2, <2>3
<1>3. ASSUME NEW d \in Calls, TaskSend(d) PROVE router'.id = r /\ router'.off <= off
  <2>1. UNCHANGED <<registry, router, position, restarts>>
    BY <1>3 DEF TaskSend
  <2> QED BY <1>g, <1>q, <2>1 DEF MissedNothing
<1>4. ASSUME NEW q \in RequestIds, RouterPoll(q) PROVE router'.id = r /\ router'.off <= off
  <2>1. /\ registry' = registry /\ restarts' = restarts /\ router.pc = "poll" /\ topic' = topic
        /\ position' = [position EXCEPT ![q] = position[q] + 1]
        /\ router' = [pc |-> "update", id |-> q, off |-> position[q] + 1, chan |-> NoCall]
    BY <1>4 DEF RouterPoll
  <2>2. router.id # r /\ MissedNothing
    BY <1>0, <1>g, <1>t, <2>1 DEF RouterPlaced, MissedNothing
  <2>3. off \notin 1 .. position[r]
    <3> SUFFICES ASSUME off \in 1 .. position[r] PROVE FALSE
      OBVIOUS
    <3>1. IsTerminalAt(r, off)
      BY <1>g, <2>1 DEF IsTerminalAt, EventAt
    <3> QED BY <1>g, <2>1, <2>2, <3>1 DEF NoOrphanStream
  <2> QED BY <1>g, <1>t, <2>1, <2>3
<1>5. CASE RouterUpdate \/ RouterLookup \/ RouterUnregister \/ RouterSend
  <2>1. /\ position' = position /\ restarts' = restarts /\ router.pc # "poll"
    BY <1>5 DEF RouterUpdate, RouterLookup, RouterUnregister, RouterSend
  <2>2. router.id # r \/ ~RouterUnregister
    BY <1>g, <1>t DEF RouterUnregister
  <2>3. registry[r] = c
    BY <1>5, <1>g, <1>t, <2>2 DEF RouterUpdate, RouterLookup, RouterUnregister, RouterSend
  <2>4. ~RouterUnregister => \/ router'.id = router.id /\ router'.off = router.off
                             \/ ~IsTerminalAt(router.id, router.off)
    BY <1>5, <1>t DEF RouterUpdate, RouterLookup, RouterSend, AfterSend, RoutedType, IsTerminalAt,
                      RouterState
  <2> QED BY <1>g, <1>q, <2>1, <2>2, <2>3, <2>4 DEF MissedNothing
<1>6. CASE Assign
  BY <1>6, <1>g DEF Assign, Assigned, MissedNothing
<1>7. CASE GatewayRestart
  BY <1>7, <1>g, <1>t DEF GatewayRestart, MissedNothing
<1> QED BY <1>1, <1>2, <1>3, <1>4, <1>5, <1>6, <1>7, StreamSteps

\* What was told stays told: the log only grows.
LEMMA ToldKept ==
    ASSUME GatewayAssumption, TypeInv, [Next]_vars, NEW c \in Calls, call' = call,
           sent'[c] = sent[c], Told(c)
    PROVE  Told(c)'
<1>1. call[c].id \in RequestIds /\ Len(sent[c]) \in Nat
  BY DEF TypeInv, TypeOK
<1>2. /\ Len(topic[call[c].id]) \in Nat /\ Len(topic'[call[c].id]) \in Nat
      /\ Len(topic[call[c].id]) <= Len(topic'[call[c].id])
      /\ \A i \in 1 .. Len(topic[call[c].id]) :
            IsTerminalAt(call[c].id, i)' <=> IsTerminalAt(call[c].id, i)
  <2>1. \A r \in RequestIds :
            /\ Len(topic[r]) \in Nat /\ Len(topic'[r]) \in Nat /\ Len(topic[r]) <= Len(topic'[r])
            /\ \A i \in 1 .. Len(topic[r]) : topic'[r][i] = topic[r][i]
    BY LogKept, TopicGrows DEF TypeInv
  <2> QED BY <1>1, <2>1 DEF IsTerminalAt, EventAt
<1>3. \A i \in 1 .. Len(sent[c]) : i \in 1 .. Len(topic[call[c].id])
  BY <1>1, <1>2 DEF Told
<1> QED BY <1>1, <1>2, <1>3 DEF Told

\* So does what is being told, as long as neither it nor the request's place with the
\* router changes.
LEMMA TellingKept ==
    ASSUME GatewayAssumption, CallInv, [Next]_vars, NEW c \in Calls, call' = call,
           sent'[c] = sent[c], Telling(c), registry'[call[c].id] = c,
           Routed(call[c].id)' = Routed(call[c].id), ~Unregistering(call[c].id)'
    PROVE  Telling(c)'
<1>1. /\ call[c].id \in RequestIds /\ Len(sent[c]) \in Nat /\ Routed(call[c].id) \in Nat
      /\ Routed(call[c].id) <= Len(topic[call[c].id])
  <2>1. /\ TypeOK /\ HeldOffsets /\ RouterPlaced
    BY DEF CallInv, TypeInv
  <2>2. /\ \A r \in RequestIds : position[r] \in Nat /\ Len(topic[r]) \in Nat
                                  /\ position[r] <= Len(topic[r])
        /\ call[c].id \in RequestIds /\ Len(sent[c]) \in Nat
    BY <2>1 DEF TypeOK, RouterPlaced
  <2>3. router.pc # "poll" /\ router.id \in RequestIds => router.off \in 1 .. Len(topic[router.id])
    BY <2>1 DEF HeldOffsets
  <2> QED BY <2>2, <2>3 DEF Routed
<1>2. \A i \in 1 .. Len(topic[call[c].id]) :
            IsTerminalAt(call[c].id, i)' <=> IsTerminalAt(call[c].id, i)
  <2>1. \A r \in RequestIds : \A i \in 1 .. Len(topic[r]) : topic'[r][i] = topic[r][i]
    BY TopicGrows DEF CallInv, TypeInv
  <2> QED BY <1>1, <2>1 DEF IsTerminalAt, EventAt
<1>3. \A i \in 1 .. Len(sent[c]) : i \in 1 .. Len(topic[call[c].id])
  <2>1. Len(topic[call[c].id]) \in Nat
    BY <1>1 DEF CallInv, TypeInv, TypeOK
  <2> QED BY <1>1, <2>1 DEF Telling
<1> QED BY <1>2, <1>3 DEF Telling

LEMMA TellKept ==
    ASSUME GatewayAssumption, CallInv, LogsBegun, Assigned, StreamsTell, [Next]_vars
    PROVE  StreamsTell'
<1> USE DEF mapVars, chanVars, taskVars, metricVars, consVars, workerVars, cancelVars
<1>0. /\ TypeOK /\ TypeInv /\ CallInv' /\ call' = call /\ HeldOffsets /\ SendersKnown /\ SendersKnown'
      /\ RouterPlaced
  BY CallInvKept, StreamSteps DEF CallInv, TypeInv
<1>t. /\ \A c \in Calls : call[c].id \in RequestIds
      /\ registry \in [RequestIds -> Calls \cup {NoCall}]
      /\ sent \in [Calls -> Seq(Nat)] /\ pc \in [Calls -> PCs]
      /\ position \in [RequestIds -> Nat] /\ restarts \in Nat
      /\ NoCall \notin Calls /\ NoRequest \notin RequestIds /\ router \in RouterState
  BY <1>0 DEF TypeOK, GatewayAssumption
<1>ch. router.chan \in Calls \cup {NoCall}
  BY <1>t DEF RouterState
<1>s. \A c \in Calls : SoleUser(c)' <=> SoleUser(c)
  BY <1>0 DEF SoleUser
<1>g. SUFFICES ASSUME NEW c \in Calls, SoleUser(c), call[c].kind # "replay", MissedNothing'
               PROVE  Tells(c)'
  BY <1>0, <1>s DEF StreamsTell
<1>r. PICK r \in RequestIds : r = call[c].id
  BY <1>t
\* Nobody else's sender is ever found under the id.
<1>o. /\ registry[r] \in {c, NoCall} /\ registry'[r] \in {c, NoCall}
      /\ router.id = r => router.chan \in {c, NoCall}
      /\ router.chan = c => router.id = r /\ router.pc = "send"
  <2>1. \A d \in Calls : call[d].id = r => d = c
    BY <1>g, <1>r DEF SoleUser
  <2>2. registry' \in [RequestIds -> Calls \cup {NoCall}]
    BY <1>0 DEF CallInv, TypeInv, TypeOK
  <2>3. \A q : registry[q] \in Calls /\ call[registry[q]].id = r => registry[q] = c
    BY <2>1
  <2>4. registry[r] \in {c, NoCall}
    <3>1. registry[r] # NoCall => call[registry[r]].id = r
      BY <1>0 DEF SendersKnown
    <3> QED BY <1>t, <2>3, <3>1
  <2>5. registry'[r] \in {c, NoCall}
    <3>1. registry'[r] # NoCall => call[registry'[r]].id = r
      BY <1>0 DEF SendersKnown
    <3>2. registry'[r] \in Calls \cup {NoCall}
      BY <2>2
    <3> QED BY <2>1, <3>1, <3>2
  <2>6. router.chan # NoCall => router.pc = "send" /\ call[router.chan].id = router.id
    BY <1>0 DEF SendersKnown
  <2> QED BY <1>ch, <1>r, <1>t, <2>1, <2>4, <2>5, <2>6
<1>m. GatewayRestart \/ MissedNothing
  <2>1. GatewayRestart \/ restarts' = restarts
    <3>1. ASSUME NEW d \in Calls, RegisterInsert(d) \/ TaskSend(d) PROVE restarts' = restarts
      BY <3>1 DEF RegisterInsert, TaskSend
    <3>2. CASE Assign \/ RouterSend \/ RouterUpdate \/ RouterLookup \/ RouterUnregister
               \/ \E q \in RequestIds : RouterPoll(q)
      BY <3>2 DEF Assign, RouterPoll, RouterUpdate, RouterLookup, RouterSend, RouterUnregister
    <3> QED BY <3>1, <3>2, StreamSteps
  <2> QED BY <1>g, <2>1 DEF MissedNothing
<1>i. MissedNothing =>
        /\ pc[c] \in BeforeRegister => sent[c] = <<>>
        /\ pc[c] \in {"producing", "streaming"} =>
              \/ Telling(c)
              \/ /\ Told(c) /\ router.chan # c
                 /\ registry[r] = c => Unregistering(r)
        /\ pc[c] = "ended" => Told(c)
  BY <1>g, <1>r DEF StreamsTell, Tells
<1> DEFINE Goal == /\ pc'[c] \in BeforeRegister => sent'[c] = <<>>
                   /\ pc'[c] \in {"producing", "streaming"} =>
                         \/ Telling(c)'
                         \/ /\ Told(c)' /\ router'.chan # c
                            /\ registry'[r] = c => Unregistering(r)'
                   /\ pc'[c] = "ended" => Told(c)'
<1> SUFFICES Goal
  <2>1. Unregistering(r)' <=> Unregistering(call[c].id)'
    BY <1>0, <1>r DEF Unregistering
  <2> QED BY <1>0, <1>r, <2>1 DEF Tells
\* A step that leaves c's handler, registration and place with the router alone.
<1>q. ASSUME pc'[c] = pc[c], sent'[c] = sent[c], registry'[r] = registry[r], MissedNothing,
             Routed(r)' = Routed(r),
             Unregistering(r)' <=> Unregistering(r), router'.chan = c => router.chan = c
      PROVE  Goal
  <2>1. Told(c) => Told(c)'
    BY <1>0, <1>q, ToldKept
  <2>2. Telling(c) => Telling(c)'
    <3>1. Telling(c) => registry[r] = c /\ ~Unregistering(r)
      BY <1>r DEF Telling
    <3> QED BY <1>0, <1>q, <1>r, <3>1, TellingKept
  <2> QED BY <1>i, <1>q, <2>1, <2>2
<1>1. ASSUME Unobtrusive, MissedNothing PROVE Goal
  <2>1. /\ UNCHANGED <<call, sent, router, position, joined>>
        /\ pc'[c] \in BeforeRegister => pc[c] \in BeforeRegister
        /\ pc'[c] \in {"producing", "streaming"} => pc[c] \in {"producing", "streaming"}
        /\ pc'[c] = "ended" /\ pc[c] # "ended" => pc[c] = "streaming" /\ ~SenderAlive(c)
    BY <1>1, <1>g DEF Unobtrusive
  <2>2. pc'[c] \in {"producing", "streaming"} => registry'[r] = registry[r]
    BY <1>1, <1>g, <1>r DEF Unobtrusive, SoleUser
  <2>3. /\ Routed(r)' = Routed(r) /\ (Unregistering(r)' <=> Unregistering(r))
        /\ Told(c) => Told(c)'
    BY <1>0, <2>1, ToldKept DEF Routed, Unregistering
  <2>4. pc'[c] \in {"producing", "streaming"} /\ Telling(c) => Telling(c)'
    <3>1. Telling(c) => registry[r] = c /\ ~Unregistering(r)
      BY <1>r DEF Telling
    <3> QED BY <1>r, <2>1, <2>2, <2>3, <3>1, TellingKept
  <2>5. pc'[c] = "ended" => Told(c)
    BY <1>1, <1>i, <1>r, <2>1 DEF SenderAlive, Telling
  <2> QED BY <1>1, <1>i, <2>1, <2>2, <2>3, <2>4, <2>5
<1>2. ASSUME NEW d \in Calls, RegisterInsert(d), MissedNothing PROVE Goal
  <2>1. /\ UNCHANGED <<call, sent, router, position>> /\ pc[d] = "unique"
        /\ registry' = [registry EXCEPT ![call[d].id] = d]
        /\ \/ call[d].kind = "replay"
           \/ pc' = [pc EXCEPT ![d] = "producing"]
        /\ \E next \in {"snapshotting", "producing"} : pc' = [pc EXCEPT ![d] = next]
    BY <1>2 DEF RegisterInsert, Goto
  <2>2. /\ Routed(r)' = Routed(r) /\ (Unregistering(r)' <=> Unregistering(r))
    BY <2>1 DEF Routed, Unregistering
  <2>3. CASE d # c
    <3>1. call[d].id # r
      BY <1>g, <1>r, <2>3 DEF SoleUser
    <3> QED BY <1>2, <1>q, <1>t, <2>1, <2>2, <2>3, <3>1
  <2>4. CASE d = c
    <3>1. registry'[r] = c /\ pc'[c] = "producing"
      BY <1>g, <1>r, <1>t, <2>1, <2>4
    <3>2. topic[r] = <<>> /\ position[r] = 0
      <4>1. SoleJob(c)
        BY <1>g DEF SoleJob, SoleUser
      <4> QED BY <1>r, <2>1, <2>4, <4>1, FreshLog DEF BeforeRegister
    <3>3. router.pc = "poll" \/ router.id # r
      BY <1>0, <1>t, <3>2 DEF HeldOffsets
    <3>4. sent[c] = <<>>
      BY <1>2, <1>i, <2>1, <2>4 DEF BeforeRegister
    <3>5. Telling(c)'
      <4>1. Routed(r)' = 0 /\ ~Unregistering(r)'
        BY <2>2, <3>2, <3>3 DEF Routed, Unregistering
      <4>2. Len(sent'[c]) = 0
        BY <2>1, <3>4
      <4> QED BY <1>r, <2>1, <3>1, <4>1, <4>2 DEF Telling
    <3> QED BY <3>1, <3>5 DEF BeforeRegister
  <2> QED BY <2>3, <2>4
<1>3. ASSUME NEW t \in Calls, TaskSend(t), MissedNothing PROVE Goal
  <2>1. /\ UNCHANGED <<call, pc, registry, router, position>>
        /\ task[t].pc = "sending" /\ SendOn(task[t].chan, snap[t][task[t].pos + 1])
    BY <1>3 DEF TaskSend
  <2>2. call[t].id # r
    <3>1. call[t].kind = "replay"
      BY <2>1 DEF CallInv, KindsApart
    <3> QED BY <1>g, <1>r, <3>1 DEF SoleUser
  <2>3. task[t].chan # c
    BY <1>0, <1>r, <1>t, <2>2 DEF SendersKnown
  <2>4. sent'[c] = sent[c]
    BY <1>t, <2>1, <2>3 DEF SendOn
  <2> QED BY <1>3, <1>q, <2>1, <2>4 DEF Routed, Unregistering
<1>4. ASSUME RouterUpdate \/ \E q \in RequestIds : RouterPoll(q), MissedNothing PROVE Goal
  <2>1. /\ UNCHANGED <<pc, sent, registry>> /\ router'.chan = NoCall
        /\ router.pc # "unregister" /\ router'.pc # "unregister"
    BY <1>4, <1>0, <1>t DEF RouterUpdate, RouterPoll, SendersKnown, RouterState
  <2>2. Routed(r)' = Routed(r)
    <3>1. \/ Routed(r)' = Routed(r)
          \/ (RouterLookup /\ router.id = r /\ registry[r] = NoCall)
      BY <1>4, RouterMoves
    <3>2. ~RouterLookup
      BY <1>4 DEF RouterUpdate, RouterPoll, RouterLookup
    <3> QED BY <3>1, <3>2
  <2> QED BY <1>4, <1>q, <1>t, <2>1, <2>2 DEF Unregistering
<1>5. ASSUME RouterLookup, MissedNothing PROVE Goal
  <2>1. /\ UNCHANGED <<call, pc, sent, registry>> /\ router.pc = "lookup"
        /\ registry[router.id] = NoCall => router' = AfterSend
        /\ registry[router.id] # NoCall =>
              router' = [router EXCEPT !.pc = "send", !.chan = registry[router.id]]
    BY <1>5 DEF RouterLookup
  <2>2. /\ router'.id = router.id \/ (router' = IdleRouter)
        /\ registry[router.id] # NoCall => /\ router'.pc = "send" /\ router'.id = router.id
                                           /\ router'.chan = registry[router.id]
        /\ registry[router.id] = NoCall => router'.chan = NoCall
    <3>1. /\ [router EXCEPT !.pc = "unregister", !.chan = NoCall].chan = NoCall
          /\ [router EXCEPT !.pc = "unregister", !.chan = NoCall].id = router.id
          /\ IdleRouter.chan = NoCall
      BY <1>t DEF IdleRouter, RouterState
    <3>2. AfterSend.chan = NoCall /\ (AfterSend.id = router.id \/ AfterSend = IdleRouter)
      BY <3>1 DEF AfterSend
    <3>3. CASE registry[router.id] = NoCall
      BY <2>1, <3>2, <3>3
    <3>4. CASE registry[router.id] # NoCall
      <4>1. router' = [router EXCEPT !.pc = "send", !.chan = registry[router.id]]
        BY <2>1, <3>4
      <4> QED BY <1>t, <3>4, <4>1 DEF RouterState
    <3> QED BY <3>3, <3>4
  <2>r. Routed(r)' = Routed(r) \/ (router.id = r /\ registry[r] = NoCall)
    BY <1>5, RouterMoves
  <2>3. Told(c) => Told(c)'
    BY <1>0, <2>1, ToldKept
  <2>4. Telling(c) => Telling(c)'
    <3> SUFFICES ASSUME Telling(c) PROVE Telling(c)'
      OBVIOUS
    <3>1. registry[r] = c
      BY <1>r DEF Telling
    <3>2. ~Unregistering(r)'
      <4>1. CASE router.id = r
        BY <1>t, <2>2, <3>1, <4>1 DEF Unregistering
      <4>2. CASE router.id # r
        <5>1. IdleRouter.id # r
          BY <1>t DEF IdleRouter
        <5> QED BY <2>2, <4>2, <5>1 DEF Unregistering
      <4> QED BY <4>1, <4>2
    <3> QED BY <1>0, <1>r, <1>t, <2>1, <2>r, <3>1, <3>2, TellingKept
  <2>5. ~Unregistering(r)
    BY <2>1 DEF Unregistering
  <2>6. registry[r] = NoCall => router'.chan # c
    <3>1. router'.chan = c => router'.id = r
      BY <1>0, <1>r, <1>t DEF SendersKnown
    <3> QED BY <1>t, <2>2, <3>1
  <2> QED BY <1>5, <1>i, <1>o, <1>t, <2>1, <2>3, <2>4, <2>5, <2>6
<1>6. ASSUME RouterSend, MissedNothing PROVE Goal
  <2>0. PICK off \in Nat : off = router.off
    BY <1>t DEF RouterState
  <2>1. /\ UNCHANGED <<call, pc, registry, topic>> /\ router.pc = "send"
        /\ router.id \in RequestIds /\ router.chan \in Calls /\ call[router.chan].id = router.id
        /\ Routed(router.id) = off - 1 /\ off \in 1 .. Len(topic[router.id])
        /\ router'.chan = NoCall
        /\ IF IsTerminalAt(router.id, off)
           THEN router'.pc = "unregister" /\ router'.id = router.id
           ELSE router'.pc = "poll" /\ router'.id \notin RequestIds
        /\ \A q \in RequestIds : Routed(q)' = IF q = router.id THEN off ELSE Routed(q)
        /\ IF ReceiverAlive(router.chan)
           THEN sent' = [sent EXCEPT ![router.chan] = Append(@, off)]
           ELSE sent' = sent
    BY <1>6, <2>0, RouterSends DEF RouterSend
  <2>2. CASE router.id # r
    <3>1. sent'[c] = sent[c]
      BY <1>r, <1>t, <2>1, <2>2
    <3>2. ~Unregistering(r) /\ ~Unregistering(r)'
      BY <2>1, <2>2 DEF Unregistering
    <3> QED BY <1>6, <1>q, <1>t, <2>1, <2>2, <3>1, <3>2
  <2>3. ASSUME router.id = r, pc[c] \notin {"producing", "streaming"} PROVE Goal
    <3>1. router.chan = c
      BY <1>o, <1>t, <2>1, <2>3
    <3>2. pc[c] \notin BeforeRegister \cup {"ended"}
      BY <1>0, <1>t, <3>1 DEF SendersKnown
    <3> QED BY <2>1, <2>3, <3>2
  <2>4. ASSUME router.id = r, pc[c] \in {"producing", "streaming"} PROVE Goal
    <3>1. router.chan = c
      BY <1>o, <1>t, <2>1, <2>4
    <3>2. Telling(c) /\ ReceiverAlive(c)
      BY <1>6, <1>i, <2>4, <3>1 DEF ReceiverAlive, ReceiverPCs
    <3>3. sent'[c] = Append(sent[c], off) /\ Len(sent[c]) = off - 1 /\ registry[r] = c
      BY <1>r, <1>t, <2>1, <2>4, <3>1, <3>2 DEF Telling
    <3>4. /\ Len(sent'[c]) = off /\ sent'[c][off] = off
          /\ \A i \in 1 .. off - 1 : sent'[c][i] = i /\ ~IsTerminalAt(r, i)
      <4>1. \A i \in 1 .. Len(sent[c]) : sent[c][i] = i /\ ~IsTerminalAt(r, i)
        BY <1>r, <3>2 DEF Telling
      <4> QED BY <1>t, <3>3, <4>1
    <3>5. \A i \in 1 .. off : IsTerminalAt(r, i)' <=> IsTerminalAt(r, i)
      BY <2>1 DEF IsTerminalAt, EventAt
    <3>6. \A i \in 1 .. off : i # off => i \in 1 .. off - 1
      BY <2>0
    <3>7. CASE IsTerminalAt(r, off)
      <4>1. Told(c)'
        BY <1>r, <2>1, <2>4, <3>4, <3>5, <3>6, <3>7 DEF Told
      <4> QED BY <1>t, <2>1, <2>4, <3>7, <4>1 DEF Unregistering, BeforeRegister
    <3>8. CASE ~IsTerminalAt(r, off)
      <4>1. Telling(c)'
        BY <1>r, <2>1, <2>4, <3>3, <3>4, <3>5, <3>6, <3>8 DEF Telling, Unregistering
      <4> QED BY <2>1, <2>4, <4>1 DEF BeforeRegister
    <3> QED BY <3>7, <3>8
  <2> QED BY <2>2, <2>3, <2>4
<1>7. ASSUME RouterUnregister, MissedNothing PROVE Goal
  <2>1. /\ UNCHANGED <<call, pc, sent>> /\ router.pc = "unregister" /\ router' = IdleRouter
        /\ registry' = [registry EXCEPT ![router.id] = NoCall] /\ router'.chan = NoCall
        /\ Routed(r)' = Routed(r) /\ router'.pc = "poll" /\ ~Unregistering(r)'
    BY <1>7 DEF RouterUnregister, IdleRouter, Routed, Unregistering
  <2>2. CASE router.id = r
    <3>1. registry'[r] = NoCall /\ ~Telling(c)
      BY <1>r, <1>t, <2>1, <2>2 DEF Telling, Unregistering
    <3>2. Told(c) => Told(c)'
      BY <1>0, <2>1, ToldKept
    <3> QED BY <1>7, <1>i, <1>t, <2>1, <3>1, <3>2
  <2>3. CASE router.id # r
    BY <1>7, <1>q, <1>t, <2>1, <2>3 DEF Unregistering
  <2> QED BY <2>2, <2>3
<1>8. CASE Assign
  BY <1>8, <1>g DEF Assign, Assigned, MissedNothing
<1>9. CASE GatewayRestart
  BY <1>9, <1>g, <1>t DEF GatewayRestart, MissedNothing
<1> QED
  <2>1. ~Assign /\ ~GatewayRestart => MissedNothing
    BY <1>m
  <2> QED BY <1>1, <1>2, <1>3, <1>4, <1>5, <1>6, <1>7, <1>8, <1>9, <2>1, StreamSteps

LEMMA StreamInvInitially == ASSUME GatewayAssumption, Init PROVE StreamInv
<1>1. CallInv
  BY CallInvInitially
<1>2. LogsBegun /\ Assigned
  <2>1. tries = [c \in Calls |-> 0] /\ topic = [r \in RequestIds |-> <<>>]
        /\ joined = ("late_assignment" \notin Faults)
    BY DEF Init
  <2>2. LogsBegun
    BY <2>1 DEF LogsBegun
  <2>3. Assigned
    BY <2>1, Zenon DEF Assigned, MissedNothing
  <2> QED BY <2>2, <2>3
<1>3. StreamsInOrder /\ NoOrphanStream
  <2>1. /\ sent = [c \in Calls |-> <<>>] /\ router.pc = "poll"
        /\ \A r \in RequestIds : registry[r] \notin Calls
    BY DEF Init, IdleRouter, GatewayAssumption
  <2> QED BY <2>1 DEF StreamsInOrder, NoOrphanStream
<1>4. StreamsTell
  BY DEF Init, StreamsTell, Tells
<1> QED BY <1>1, <1>2, <1>3, <1>4 DEF StreamInv

LEMMA StreamInvKept == ASSUME GatewayAssumption, StreamInv, [Next]_vars PROVE StreamInv'
  BY CallInvKept, LogsBegunKept, AssignedKept, InOrderKept, NoOrphanKept, TellKept DEF StreamInv

\* A live stream carries consecutive events of its request, unless the id is replayed:
\* none skipped, none twice, none out of order, whatever registrations race, jobs are
\* retried, gateways restart or clients lag.
THEOREM StreamsAreContiguous == Spec => []StreamContiguous
<1>1. Init => StreamInv
  BY GatewayAssumption, StreamInvInitially
<1>2. StreamInv /\ [Next]_vars => StreamInv'
  BY GatewayAssumption, StreamInvKept
<1>3. StreamInv => StreamContiguous
  BY DEF StreamInv, StreamsInOrder, StreamContiguous
<1> QED BY <1>1, <1>2, <1>3, PTL DEF Spec

\* Submit's own streams leave the registry with their request: no failed handler, and no
\* terminal event the router is past, leaves one that would make the id unusable.
THEOREM NoStreamIsOrphaned == Spec => []NoOrphanStream
<1>1. Init => StreamInv
  BY GatewayAssumption, StreamInvInitially
<1>2. StreamInv /\ [Next]_vars => StreamInv'
  BY GatewayAssumption, StreamInvKept
<1>3. StreamInv => NoOrphanStream
  BY DEF StreamInv
<1> QED BY <1>1, <1>2, <1>3, PTL DEF Spec

\* A stream that ended by itself has carried its request's log from the start to the
\* first terminal event, if nobody else uses the id and no event was missed.
THEOREM EndedStreamsTold == Spec => []EndedToldWhy
<1>1. Init => StreamInv
  BY GatewayAssumption, StreamInvInitially
<1>2. StreamInv /\ [Next]_vars => StreamInv'
  BY GatewayAssumption, StreamInvKept
<1>3. StreamInv => EndedToldWhy
  BY DEF StreamInv, StreamsTell, Tells, Told, EndedToldWhy
<1> QED BY <1>1, <1>2, <1>3, PTL DEF Spec

-----------------------------------------------------------------------------
(* Steps of a call and of the records                                      *)

\* Where a call's handler and its job can go in a step, the gateway's restart apart.
Moves(c) ==
    \/ pc'[c] = pc[c] /\ job'[c] = job[c]
    \/ /\ job'[c] = job[c]
       /\ \/ SubmitCheck(c) \/ InferInsert(c) \/ SubmitInsert(c) \/ RegisterCheck(c)
          \/ FinishConflict(c) \/ EnqueueFinish(c) \/ ProduceAck(c) \/ ProduceError(c)
          \/ EnqueueUnregister(c) \/ ReplayLookup(c) \/ Snapshot(c) \/ DropHandler(c)
          \/ StreamEnd(c) \/ Disconnect(c)
    \/ RegisterInsert(c)
    \/ /\ pc'[c] = pc[c]
       /\ \/ Deliver(c) \/ Lose(c) \/ WorkerStart(c) \/ WorkerFinish(c) \/ WorkerCommit(c)
          \/ WorkerCrash(c)

LEMMA CallMoves ==
    ASSUME TypeOK, [Next]_vars, ~GatewayRestart, NEW c \in Calls PROVE Moves(c)
<1> USE DEF mapVars, chanVars, taskVars, metricVars, consVars, workerVars, cancelVars
<1>t. pc \in [Calls -> PCs] /\ job \in [Calls -> JobStates]
  BY DEF TypeOK
<1>1. ASSUME NEW d \in Calls, CallSteps(d) PROVE Moves(c)
  <2>1. CASE d = c
    BY SMTT(30), <1>1, <2>1 DEF CallSteps, Handler, Moves, SubmitCheck, InferInsert, SubmitInsert,
            InsertRecord, RegisterCheck, FinishConflict, EnqueueFinish, ProduceAck, ProduceError,
            EnqueueUnregister, ReplayLookup, Snapshot, DropHandler, ClientRead, StreamEnd,
            Disconnect
  <2>2. CASE d # c
    <3>1. \/ pc' = pc
          \/ \E next : Goto(d, next)
      BY <1>1 DEF CallSteps, Handler, SubmitCheck, InferInsert, SubmitInsert, InsertRecord,
            RegisterCheck, FinishConflict, EnqueueFinish, FailAndDec, RegisterInsert, ProduceAck,
            ProduceError, EnqueueUnregister, ReplayLookup, Snapshot, DropHandler, ClientRead,
            StreamEnd, Disconnect
    <3>2. job' = job \/ job' = [job EXCEPT ![d] = "inflight"]
      BY <1>1 DEF CallSteps, Handler, SubmitCheck, InferInsert, SubmitInsert, InsertRecord,
            RegisterCheck, FinishConflict, EnqueueFinish, RegisterInsert, ProduceAck,
            ProduceError, EnqueueUnregister, ReplayLookup, Snapshot, DropHandler, ClientRead,
            StreamEnd, Disconnect
    <3> QED BY <1>t, <2>2, <3>1, <3>2 DEF Moves, Goto
  <2> QED BY <2>1, <2>2
<1>2. ASSUME NEW d \in Calls,
             Deliver(d) \/ Lose(d) \/ Worker(d) \/ WorkerCrash(d) \/ StrayEvent(d)
      PROVE  Moves(c)
  <2>1. pc' = pc /\ (job' = job \/ \E state : job' = [job EXCEPT ![d] = state])
    BY <1>2 DEF Deliver, Lose, Worker, WorkerStart, WorkerToken, WorkerFinish, WorkerCommit,
                WorkerCrash, StrayEvent
  <2>2. CASE d = c
    <3>1. ASSUME WorkerToken(d) \/ StrayEvent(d) PROVE job' = job
      BY <3>1 DEF WorkerToken, StrayEvent
    <3> QED BY <1>2, <2>1, <2>2, <3>1 DEF Worker, Moves
  <2>3. CASE d # c
    BY <1>t, <2>1, <2>3 DEF Moves
  <2> QED BY <2>2, <2>3
<1>3. ASSUME \/ \E d \in Calls : Task(d)
             \/ \E r \in RequestIds :
                   Cancel(r) \/ InferCancel(r) \/ PublishCancel(r) \/ LosePublish(r)
             \/ Router \/ Assign \/ UNCHANGED vars
      PROVE  Moves(c)
  <2>1. pc' = pc /\ job' = job
    BY <1>3 DEF Task, TaskLookup, TaskSend, TaskFinish, Cancel, InferCancel, AcceptCancel,
                PublishCancel, LosePublish, Router, RouterPoll, RouterUpdate, RouterLookup,
                RouterSend, RouterUnregister, Assign, vars
  <2> QED BY <2>1 DEF Moves
<1> QED BY <1>1, <1>2, <1>3 DEF Next, CallSteps

\* The steps that touch the records or the gauge.
LEMMA RecordMoves ==
    ASSUME TypeOK, [Next]_vars, ~GatewayRestart
    PROVE  \/ records' = records /\ activeStreams' = activeStreams
           \/ \E c \in Calls : SubmitInsert(c) \/ InferInsert(c) \/ FinishConflict(c) \/ EnqueueFinish(c)
           \/ \E r \in RequestIds : Cancel(r) \/ InferCancel(r)
           \/ RouterUpdate
<1> USE DEF mapVars, metricVars
<1>1. ASSUME NEW c \in Calls,
             \/ SubmitCheck(c) \/ DropHandler(c) \/ ClientRead(c) \/ StreamEnd(c)
             \/ Disconnect(c) \/ Task(c)
      PROVE  records' = records /\ activeStreams' = activeStreams
  BY <1>1 DEF SubmitCheck, DropHandler, ClientRead, StreamEnd, Disconnect, Task, TaskLookup,
              TaskSend, TaskFinish
<1>2. ASSUME NEW c \in Calls, Handler(c)
      PROVE  \/ records' = records /\ activeStreams' = activeStreams
             \/ SubmitInsert(c) \/ FinishConflict(c) \/ EnqueueFinish(c)
  BY <1>2 DEF Handler, RegisterCheck, RegisterInsert, ProduceAck, ProduceError,
              EnqueueUnregister, ReplayLookup, Snapshot
<1>3. ASSUME NEW c \in Calls, Deliver(c) \/ Lose(c) \/ Worker(c) \/ WorkerCrash(c) \/ StrayEvent(c)
      PROVE  records' = records /\ activeStreams' = activeStreams
  BY <1>3 DEF Deliver, Lose, Worker, WorkerStart, WorkerToken, WorkerFinish, WorkerCommit,
              WorkerCrash, StrayEvent
<1>4. ASSUME NEW r \in RequestIds,
             Cancel(r) \/ InferCancel(r) \/ PublishCancel(r) \/ LosePublish(r)
      PROVE  (records' = records /\ activeStreams' = activeStreams) \/ Cancel(r) \/ InferCancel(r)
  BY <1>4 DEF PublishCancel, LosePublish
<1>5. CASE Router \/ Assign \/ UNCHANGED vars
  BY <1>5 DEF Router, RouterPoll, RouterLookup, RouterSend, RouterUnregister, Assign, vars
<1> QED BY <1>1, <1>2, <1>3, <1>4, <1>5 DEF Next

-----------------------------------------------------------------------------
(* Replays: what a client is sent of a request whose stream has ended.     *)

\* Where a replay whose request is being streamed is, or will never be.
Waiting == BeforeRegister \cup {"failed"}

\* The sequence of a request's first n events.
Upto(n) == [i \in 1 .. n |-> i]

\* The cache has every event the router polled, in order.
CacheExact == \A r \in RequestIds : events[r] = Upto(position[r])

\* The router unregisters an id only after a terminal event.
EndsUnregister == router.pc = "unregister" => IsTerminalAt(router.id, router.off)

\* What c has of the first n events, which are all there will be.
Copied(c, n) ==
    /\ pc[c] = "snapshotting" => registry[call[c].id] = c /\ sent[c] = <<>>
    /\ pc[c] = "streaming" /\ task[c].pc = "none" => sent[c] = Upto(n)
    /\ pc[c] = "streaming" /\ task[c].pc # "none" =>
          /\ registry[call[c].id] = c /\ snap[c] = Upto(n)
          /\ task[c].pos \in 0 .. n /\ sent[c] = Upto(task[c].pos)
          /\ task[c].pc = "sending" => task[c].chan = c
    /\ pc[c] = "ended" => sent[c] = Upto(n)

\* d's stream carried the events up to a terminal one; if that is the last, the
\* router is through with the request, and c has the same.
Served(c, d) ==
    LET r == call[d].id
        n == Len(sent[d])
    IN  /\ registry[r] # d /\ router.chan # d /\ task[c].chan # d
        /\ n \in 1 .. position[r] /\ IsTerminalAt(r, n)
        /\ Len(topic[r]) = n => router.id # r /\ Copied(c, n)

\* d's stream is being sent what is routed.
Serving(c, d) ==
    LET r == call[d].id IN
    /\ registry[r] = d /\ Len(sent[d]) = Routed(r)
    /\ router.id = r => router.chan \in {NoCall, d}
    /\ pc[c] \in Waiting

\* Where the replay c of the id that d submits can be, and what either was sent.
Follows(c, d) ==
    /\ pc[c] \in BeforeRegister => sent[c] = <<>>
    /\ pc[c] = "failed" => task[c] = IdleTask
    /\ pc[d] \in BeforeRegister =>
          /\ sent[d] = <<>> /\ snap[c] = <<>>
          /\ pc[c] \in Waiting \/ registry[call[d].id] = c
    /\ pc[d] \in {"producing", "streaming", "ended"} => sent[d] = Upto(Len(sent[d]))
    /\ pc[d] \in {"producing", "streaming"} => Serving(c, d) \/ Served(c, d)
    /\ pc[d] = "ended" => Served(c, d)

Followed ==
    \A c, d \in Calls : Replays(c, d) /\ call[d].id \notin displaced => Follows(c, d)

\* ReplayAgrees is not inductive: it speaks of two streams that ended.  Follows says
\* what holds of them on the way there, above all that a replay which registered first
\* keeps submit from registering, and one that comes later gets to register only after
\* the request's stream left the registry, when the router, which took it out, is
\* through with the request unless more events come.
AgreeInv ==
    /\ CallInv /\ LogsBegun /\ Assigned
    /\ MissedNothing => CacheExact /\ EndsUnregister /\ Followed

\* What the proofs use of Upto.
LEMMA UptoFacts ==
    ASSUME NEW n \in Nat
    PROVE  /\ Upto(n) \in Seq(Nat) /\ Len(Upto(n)) = n
           /\ \A i \in 1 .. n : Upto(n)[i] = i
           /\ Append(Upto(n), n + 1) = Upto(n + 1)
<1>1. Upto(n) \in Seq(Nat) /\ Len(Upto(n)) = n /\ \A i \in 1 .. n : Upto(n)[i] = i
  BY DEF Upto
<1>2. Append(Upto(n), n + 1) = Upto(n + 1)
  BY DEF Upto
<1> QED BY <1>1, <1>2

LEMMA UptoZero == Upto(0) = <<>>
  BY DEF Upto

\* As long as nothing was missed, the consumer has its partitions.
LEMMA NothingMissed ==
    ASSUME AgreeInv, MissedNothing
    PROVE  joined /\ ~Assign /\ CacheExact /\ EndsUnregister /\ Followed
BY DEF AgreeInv, Assigned, Assign

\* What was missed stays missed, and the ids whose sender was dropped stay known.
LEMMA HistoryKept ==
    ASSUME GatewayAssumption, TypeOK, [Next]_vars, MissedNothing'
    PROVE  MissedNothing /\ ~GatewayRestart /\ displaced \subseteq displaced'
<1> USE DEF chanVars
<1>1. ASSUME GatewayRestart PROVE FALSE
  BY <1>1 DEF GatewayRestart, MissedNothing, TypeOK
<1>2. ASSUME NEW c \in Calls, CallSteps(c)
      PROVE  restarts' = restarts /\ displaced \subseteq displaced'
  BY <1>2 DEF CallSteps, Handler, SubmitCheck, InferInsert, SubmitInsert, InsertRecord,
         RegisterCheck, FinishConflict, EnqueueFinish, RegisterInsert, ProduceAck, ProduceError,
         EnqueueUnregister, ReplayLookup, Snapshot, DropHandler, ClientRead, StreamEnd, Disconnect
<1>3. ASSUME NEW c \in Calls,
             Task(c) \/ Deliver(c) \/ Lose(c) \/ Worker(c) \/ WorkerCrash(c) \/ StrayEvent(c)
      PROVE  restarts' = restarts /\ displaced' = displaced
  BY <1>3 DEF Task, TaskLookup, TaskSend, TaskFinish, Deliver, Lose, Worker, WorkerStart,
         WorkerToken, WorkerFinish, WorkerCommit, WorkerCrash, StrayEvent
<1>4. ASSUME \/ \E r \in RequestIds :
                   Cancel(r) \/ InferCancel(r) \/ PublishCancel(r) \/ LosePublish(r)
             \/ Router \/ Assign \/ UNCHANGED vars
      PROVE  restarts' = restarts /\ displaced' = displaced
  BY <1>4 DEF Cancel, InferCancel, AcceptCancel, PublishCancel, LosePublish, Router, RouterPoll,
         RouterUpdate, RouterLookup, RouterSend, RouterUnregister, Assign, vars
<1>5. restarts' = restarts /\ displaced \subseteq displaced'
  BY <1>1, <1>2, <1>3, <1>4 DEF Next, CallSteps
<1> QED BY <1>1, <1>5 DEF MissedNothing

\* What the handlers, the replay tasks and the router do not do leaves the streams and
\* the cache alone.
LEMMA AgreeSteps ==
    ASSUME GatewayAssumption, AgreeInv, MissedNothing, ~GatewayRestart, [Next]_vars
    PROVE  /\ call' = call
           /\ \/ UNCHANGED <<pc, events, registry, sent, task, snap, router, position>>
              \/ \E c \in Calls : CallSteps(c) \/ Task(c)
              \/ Router
<1> USE DEF mapVars, chanVars, taskVars, consVars
<1>0. TypeOK /\ ~Assign
  BY NothingMissed DEF AgreeInv, CallInv, TypeInv
<1>1. ASSUME NEW c \in Calls,
             Deliver(c) \/ Lose(c) \/ Worker(c) \/ WorkerCrash(c) \/ StrayEvent(c)
      PROVE  UNCHANGED <<pc, events, registry, sent, task, snap, router, position>>
  BY <1>1 DEF Deliver, Lose, Worker, WorkerStart, WorkerToken, WorkerFinish, WorkerCommit,
              WorkerCrash, StrayEvent
<1>2. ASSUME NEW r \in RequestIds,
             Cancel(r) \/ InferCancel(r) \/ PublishCancel(r) \/ LosePublish(r)
      PROVE  UNCHANGED <<pc, events, registry, sent, task, snap, router, position>>
  BY <1>2 DEF Cancel, InferCancel, AcceptCancel, PublishCancel, LosePublish
<1>3. UNCHANGED vars => UNCHANGED <<pc, events, registry, sent, task, snap, router, position>>
  BY DEF vars
<1>4. call' = call
  BY <1>0, WorkerSteps
<1> QED BY <1>0, <1>1, <1>2, <1>3, <1>4 DEF Next, CallSteps

\* A handler's step moves that handler, and with it at most its id's sender and its task.
LEMMA CallStep ==
    ASSUME TypeOK, NEW c \in Calls, CallSteps(c)
    PROVE  /\ UNCHANGED <<events, sent, router, position, topic>>
           /\ pc' = pc \/ \E next \in PCs : Goto(c, next)
           /\ \A d \in Calls : d # c => pc'[d] = pc[d] /\ task'[d] = task[d] /\ snap'[d] = snap[d]
           /\ \A r \in RequestIds : r # call[c].id => registry'[r] = registry[r]
<1> USE DEF mapVars, chanVars, taskVars, consVars, workerVars
<1>t. /\ pc \in [Calls -> PCs] /\ registry \in [RequestIds -> Calls \cup {NoCall}]
      /\ task \in [Calls -> TaskState] /\ snap \in [Calls -> Seq(Nat)]
  BY DEF TypeOK
<1>1. UNCHANGED <<events, sent, router, position, topic>>
  BY DEF CallSteps, Handler, SubmitCheck, InferInsert, SubmitInsert, InsertRecord, RegisterCheck,
         FinishConflict, EnqueueFinish, RegisterInsert, ProduceAck, ProduceError,
         EnqueueUnregister, ReplayLookup, Snapshot, DropHandler, ClientRead, StreamEnd, Disconnect
<1>2. pc' = pc \/ \E next \in PCs : Goto(c, next)
  BY DEF CallSteps, Handler, SubmitCheck, InferInsert, SubmitInsert, InsertRecord, RegisterCheck,
         FinishConflict, EnqueueFinish, FailAndDec, RegisterInsert, ProduceAck, ProduceError,
         EnqueueUnregister, ReplayLookup, Snapshot, DropHandler, ClientRead, StreamEnd,
         Disconnect, PCs
<1>3. /\ task' = task \/ task' = [task EXCEPT ![c].pc = "loop"]
      /\ snap' = snap \/ snap' = [snap EXCEPT ![c] = events[call[c].id]]
      /\ registry' = registry \/ \E s : registry' = [registry EXCEPT ![call[c].id] = s]
  BY DEF CallSteps, Handler, SubmitCheck, InferInsert, SubmitInsert, InsertRecord, RegisterCheck,
         FinishConflict, EnqueueFinish, RegisterInsert, ProduceAck, ProduceError,
         EnqueueUnregister, ReplayLookup, Snapshot, DropHandler, ClientRead, StreamEnd, Disconnect
<1>4. \A d \in Calls : d # c => task'[d] = task[d] /\ snap'[d] = snap[d]
  BY <1>t, <1>3
<1>5. \A d \in Calls : d # c => pc'[d] = pc[d]
  BY <1>t, <1>2 DEF Goto
<1> QED BY <1>t, <1>1, <1>2, <1>3, <1>4, <1>5

\* The router's poll appends to the cache what it takes from the log.
LEMMA CacheExactKept ==
    ASSUME GatewayAssumption, AgreeInv, MissedNothing, ~GatewayRestart, [Next]_vars PROVE CacheExact'
<1> USE DEF mapVars, consVars
<1>0. TypeOK /\ CacheExact /\ ~Assign
  BY NothingMissed DEF AgreeInv, CallInv, TypeInv
<1>t. position \in [RequestIds -> Nat]
  BY <1>0 DEF TypeOK
<1>1. ASSUME NEW r \in RequestIds, RouterPoll(r) PROVE CacheExact'
  <2>1. position' = [position EXCEPT ![r] = position[r] + 1]
    BY <1>1 DEF RouterPoll
  <2>2. events'[r] = Append(Upto(position[r]), position[r] + 1)
        /\ \A q \in RequestIds \ {r} : events'[q] = events[q]
    BY <1>0, <1>1, PollCaches DEF CacheExact
  <2>3. events'[r] = Upto(position'[r])
    BY <1>t, <2>1, <2>2, UptoFacts
  <2> QED BY <1>0, <1>t, <2>1, <2>2, <2>3 DEF CacheExact
<1>2. ASSUME ~ \E r \in RequestIds : RouterPoll(r) PROVE events' = events /\ position' = position
  <2>1. RouterUpdate \/ RouterLookup \/ RouterSend \/ RouterUnregister =>
            events' = events /\ position' = position
    BY DEF RouterUpdate, RouterLookup, RouterSend, RouterUnregister
  <2>2. ASSUME NEW c \in Calls, Task(c) PROVE events' = events /\ position' = position
    BY <2>2 DEF Task, TaskLookup, TaskSend, TaskFinish
  <2> QED BY <1>0, <1>2, <2>1, <2>2, AgreeSteps, CallStep DEF Router
<1> QED BY <1>0, <1>1, <1>2 DEF CacheExact

\* The router unregisters an id after a terminal event of it.
LEMMA EndsUnregisterKept ==
    ASSUME GatewayAssumption, AgreeInv, MissedNothing, ~GatewayRestart, [Next]_vars PROVE EndsUnregister'
<1> USE DEF chanVars, workerVars
<1>0. /\ TypeOK /\ HeldOffsets /\ EndsUnregister /\ TypeInv
      /\ router \in RouterState
  BY NothingMissed DEF AgreeInv, CallInv, TypeInv, TypeOK
<1>1. CASE router' = router
  <2>1. router.pc = "unregister" => IsTerminalAt(router.id, router.off)'
    BY <1>0, <1>1, LogKept DEF EndsUnregister, HeldOffsets
  <2> QED BY <1>1, <2>1 DEF EndsUnregister
<1>2. ASSUME NEW r \in RequestIds, RouterPoll(r) PROVE EndsUnregister'
  BY <1>2 DEF RouterPoll, EndsUnregister
<1>3. CASE RouterUpdate
  BY <1>0, <1>3 DEF RouterUpdate, EndsUnregister, RouterState
<1>4. CASE RouterLookup \/ RouterSend
  <2>1. topic' = topic
    BY <1>4 DEF RouterLookup, RouterSend
  <2>2. router' = AfterSend \/ router'.pc = "send"
    BY <1>0, <1>4 DEF RouterLookup, RouterSend, RouterState
  <2>3. AfterSend.pc = "unregister" => /\ AfterSend.id = router.id /\ AfterSend.off = router.off
                                       /\ IsTerminalAt(router.id, router.off)
    BY <1>0 DEF AfterSend, RoutedType, IsTerminalAt, IdleRouter, RouterState
  <2> QED BY <2>1, <2>2, <2>3 DEF EndsUnregister, IsTerminalAt, EventAt
<1>5. CASE RouterUnregister
  BY <1>5 DEF RouterUnregister, IdleRouter, EndsUnregister
<1> QED BY <1>0, <1>1, <1>2, <1>3, <1>4, <1>5, RouterSteps

\* A submission and a replay of one id are the id's only calls.
LEMMA PairAlone ==
    ASSUME AgreeInv, NEW c \in Calls, NEW d \in Calls, Replays(c, d)
    PROVE  /\ c # d /\ call[d].id \in RequestIds /\ SoleJob(d)
           /\ \A e \in Calls : call[e].id = call[d].id => e \in {c, d}
           /\ task[d].pc = "none" /\ task[d].chan = NoCall
<1>1. TypeOK /\ KindsApart /\ SendersKnown /\ task \in [Calls -> TaskState]
  BY DEF AgreeInv, CallInv, TypeInv, TypeOK
<1>2. task[d].pc = "none" /\ task[d].chan = NoCall
  BY <1>1 DEF KindsApart, SendersKnown, Replays
<1>3. \A e \in Calls : call[e].id = call[d].id => e \in {c, d}
  BY DEF Replays
<1>4. c # d /\ call[d].id \in RequestIds
  BY <1>1 DEF Replays, TypeOK
<1> QED BY <1>2, <1>3, <1>4 DEF SoleJob, Replays

\* What a request's stream carried stays its log as long as no event comes after; what
\* c has of it is asked for only then.
LEMMA ServedStays ==
    ASSUME GatewayAssumption, AgreeInv, [Next]_vars, NEW c \in Calls, NEW d \in Calls,
           Served(c, d), call' = call, sent'[d] = sent[d],
           position'[call[d].id] \in Nat, position[call[d].id] <= position'[call[d].id],
           registry'[call[d].id] # d, router'.chan # d, task'[c].chan # d,
           /\ Len(topic[call[d].id]) = Len(sent[d]) /\ Len(topic'[call[d].id]) = Len(sent[d])
           /\ router.id # call[d].id /\ Copied(c, Len(sent[d]))
           => router'.id # call[d].id /\ Copied(c, Len(sent[d]))'
    PROVE  Served(c, d)'
<1> DEFINE r == call[d].id
           n == Len(sent[d])
           now == Len(topic[r])
           next == Len(topic'[r])
<1>1. /\ TypeInv /\ RouterPlaced /\ r \in RequestIds /\ position[r] \in Nat
      /\ sent[d] \in Seq(Nat)
  BY DEF AgreeInv, CallInv, TypeInv, TypeOK
<1>2. n \in 1 .. position[r] /\ IsTerminalAt(r, n) /\ n \in Nat
  BY <1>1 DEF Served
<1>3. /\ position[r] <= now /\ now <= next /\ now \in Nat /\ next \in Nat
      /\ \A i \in 1 .. now : IsTerminalAt(r, i)' <=> IsTerminalAt(r, i)
  BY <1>1, LogKept DEF RouterPlaced
<1> HIDE DEF n, now, next
<1>4. n \in 1 .. now /\ n \in 1 .. position'[r] /\ (next = n => now = n)
  BY <1>1, <1>2, <1>3
<1>5. n' = n /\ r' = r
  BY DEF n
<1>6. IsTerminalAt(r, n)'
  BY <1>2, <1>3, <1>4, <1>5
<1> QED BY <1>4, <1>5, <1>6 DEF Served, n, now, next

\* A step that touches neither call, nor their id's sender and place in the log.
LEMMA Undisturbed ==
    ASSUME GatewayAssumption, AgreeInv, CallInv', [Next]_vars, NEW c \in Calls, NEW d \in Calls,
           Replays(c, d), Follows(c, d), call' = call,
           pc'[c] = pc[c], pc'[d] = pc[d], sent'[c] = sent[c], sent'[d] = sent[d],
           task'[c] = task[c], snap'[c] = snap[c],
           registry'[call[d].id] = registry[call[d].id],
           position'[call[d].id] = position[call[d].id],
           router' = router \/ (router.id # call[d].id /\ router'.id # call[d].id)
    PROVE  Follows(c, d)'
<1>1. /\ TypeOK /\ SendersKnown' /\ call[d].id \in RequestIds /\ call[c].id = call[d].id
      /\ position[call[d].id] \in Nat /\ d # NoCall
  BY DEF AgreeInv, CallInv, TypeInv, TypeOK, Replays, GatewayAssumption
<1>2. Routed(call[d].id)' = Routed(call[d].id)
  BY <1>1 DEF Routed
<1>3. Serving(c, d) => Serving(c, d)'
  BY <1>1, <1>2 DEF Serving
<1>4. ASSUME Served(c, d) PROVE Served(c, d)'
  <2>1. router'.chan # d
    BY <1>1, <1>4 DEF SendersKnown, Served
  <2>2. Copied(c, Len(sent[d])) => Copied(c, Len(sent[d]))'
    BY <1>1 DEF Copied
  <2>3. registry'[call[d].id] # d /\ task'[c].chan # d
    BY <1>4 DEF Served
  <2> QED BY <1>1, <1>4, <2>1, <2>2, <2>3, ServedStays
<1> QED BY <1>3, <1>4 DEF Follows

\* The submission's own steps.
LEMMA SubmitFollows ==
    ASSUME GatewayAssumption, AgreeInv, MissedNothing, ~GatewayRestart, [Next]_vars, NEW c \in Calls, NEW d \in Calls,
           Replays(c, d), Follows(c, d), call[d].id \notin displaced', CallSteps(d)
    PROVE  Follows(c, d)'
<1> USE DEF mapVars, chanVars, taskVars, consVars
<1>0. /\ TypeOK /\ call' = call /\ c # d /\ KindsApart /\ RouterPlaced /\ HeldOffsets
      /\ call[d].kind = "submit" /\ call[c].id = call[d].id
  BY AgreeSteps, PairAlone DEF AgreeInv, CallInv, TypeInv, Replays
<1>t. /\ pc \in [Calls -> PCs] /\ registry \in [RequestIds -> Calls \cup {NoCall}]
      /\ call[d].id \in RequestIds /\ position[call[d].id] \in Nat /\ d # NoCall
  BY <1>0 DEF TypeOK, GatewayAssumption
<1>1. /\ UNCHANGED <<sent, router, position, topic>>
      /\ pc'[c] = pc[c] /\ task'[c] = task[c] /\ snap'[c] = snap[c]
  BY <1>0, CallStep
<1>2. Routed(call[d].id)' = Routed(call[d].id)
  BY <1>0, <1>1 DEF Routed
<1>3. ASSUME RegisterInsert(d) PROVE Follows(c, d)'
  <2>1. pc[d] = "unique" /\ pc'[d] = "producing" /\ registry'[call[d].id] = d
    BY <1>0, <1>t, <1>3 DEF RegisterInsert, Goto
  <2>2. sent[d] = <<>> /\ pc[c] \in Waiting
    <3>1. registry[call[d].id] = NoCall
      BY <1>3 DEF RegisterInsert
    <3>2. c # NoCall
      BY DEF GatewayAssumption
    <3> QED BY <2>1, <3>1, <3>2 DEF Follows, BeforeRegister
  <2>3. topic[call[d].id] = <<>> /\ position[call[d].id] = 0
    BY <2>1, FreshLog, PairAlone DEF AgreeInv, BeforeRegister
  <2>4. router.id # call[d].id
    BY <1>0, <1>t, <2>3 DEF HeldOffsets, RouterPlaced, GatewayAssumption
  <2>5. Len(sent[d]) = Routed(call[d].id) /\ sent[d] = Upto(Len(sent[d]))
    BY <2>2, <2>3, <2>4, UptoZero DEF Routed
  <2>6. Serving(c, d)'
    BY <1>0, <1>1, <1>2, <2>1, <2>2, <2>4, <2>5 DEF Serving
  <2> QED BY <1>0, <1>1, <2>1, <2>5, <2>6 DEF Follows, BeforeRegister
<1>4. ASSUME ~RegisterInsert(d)
      PROVE  /\ pc'[d] \in BeforeRegister =>
                   pc[d] \in BeforeRegister /\ registry' = registry
             /\ pc'[d] \in {"producing", "streaming"} =>
                   pc[d] \in {"producing", "streaming"} /\ registry' = registry
             /\ pc'[d] = "ended" => /\ registry' = registry
                                    /\ \/ pc[d] = "ended"
                                       \/ pc[d] = "streaming" /\ ~SenderAlive(d)
  BY <1>0, <1>t, <1>4 DEF CallSteps, Handler, SubmitCheck, InferInsert, SubmitInsert,
         InsertRecord, RegisterCheck, FinishConflict, EnqueueFinish, FailAndDec,
         ProduceAck, ProduceError, EnqueueUnregister, ReplayLookup, Snapshot, DropHandler,
         ClientRead, StreamEnd, Disconnect, Goto, BeforeRegister, KindsApart
<1>5. ASSUME registry' = registry, Served(c, d) PROVE Served(c, d)'
  <2>1. Copied(c, Len(sent[d])) => Copied(c, Len(sent[d]))'
    BY <1>0, <1>1, <1>5 DEF Copied
  <2> QED BY SMTT(30), <1>0, <1>t, <1>1, <1>5, <2>1, ServedStays DEF Served
<1>6. ASSUME registry' = registry, Serving(c, d) PROVE Serving(c, d)'
  BY <1>0, <1>1, <1>2, <1>6 DEF Serving
<1>7. Serving(c, d) => SenderAlive(d)
  BY <1>t DEF Serving, SenderAlive
<1> QED BY <1>0, <1>1, <1>3, <1>4, <1>5, <1>6, <1>7 DEF Follows

\* The replay's own steps: it registers only when the request's stream is served.
LEMMA ReplayFollows ==
    ASSUME GatewayAssumption, AgreeInv, MissedNothing, ~GatewayRestart, [Next]_vars, NEW c \in Calls, NEW d \in Calls,
           Replays(c, d), Follows(c, d), call[d].id \notin displaced', CallSteps(c)
    PROVE  Follows(c, d)'
<1> USE DEF mapVars, chanVars, taskVars, consVars
<1>0. /\ TypeOK /\ call' = call /\ c # d /\ KindsApart /\ SendersKnown
      /\ CacheExact /\ RouterPlaced
      /\ call[d].kind = "submit" /\ call[c].kind = "replay" /\ call[c].id = call[d].id
  BY AgreeSteps, PairAlone DEF AgreeInv, CallInv, TypeInv, Replays
<1>t. /\ pc \in [Calls -> PCs] /\ registry \in [RequestIds -> Calls \cup {NoCall}]
      /\ task \in [Calls -> TaskState] /\ snap \in [Calls -> Seq(Nat)]
      /\ call[d].id \in RequestIds /\ position[call[d].id] \in Nat /\ d # NoCall /\ c # NoCall
  BY <1>0 DEF TypeOK, GatewayAssumption
<1>1. UNCHANGED <<sent, router, position, topic>> /\ pc'[d] = pc[d]
  BY <1>0, CallStep
<1>2. Routed(call[d].id)' = Routed(call[d].id)
  BY <1>0, <1>1 DEF Routed
<1>3. /\ pc'[c] \in BeforeRegister => pc[c] \in BeforeRegister
      /\ Snapshot(c) \/ (task' = task /\ snap' = snap)
      /\ RegisterInsert(c) \/ registry' = registry
      /\ pc'[c] = "failed" /\ pc[c] # "failed" =>
            task' = task /\ pc[c] \in BeforeRegister
  BY <1>0, <1>t DEF CallSteps, Handler, SubmitCheck, InferInsert, SubmitInsert, InsertRecord,
         RegisterCheck, FinishConflict, EnqueueFinish, FailAndDec, RegisterInsert, ProduceAck,
         ProduceError, EnqueueUnregister, ReplayLookup, Snapshot, DropHandler, ClientRead,
         StreamEnd, Disconnect, Goto, BeforeRegister, KindsApart
<1>4. pc'[c] = "failed" => task'[c] = IdleTask
  <2>1. CASE pc[c] = "failed"
    <3>1. ~Snapshot(c)
      BY <2>1 DEF Snapshot
    <3> QED BY <1>3, <2>1, <3>1 DEF Follows
  <2> QED BY <1>0, <1>3, <2>1 DEF KindsApart
<1>5. ASSUME pc[d] \in BeforeRegister
      PROVE  snap'[c] = <<>> /\ (pc'[c] \in Waiting \/ registry'[call[d].id] = c)
  <2>1. snap[c] = <<>> /\ (pc[c] \in Waiting \/ registry[call[d].id] = c)
    BY <1>5 DEF Follows
  <2>2. snap'[c] = <<>>
    <3>1. events[call[d].id] = <<>>
      <4>1. position[call[d].id] = 0
        BY <1>5, FreshLog, PairAlone DEF AgreeInv
      <4> QED BY <1>0, <1>t, <4>1, UptoZero DEF CacheExact
    <3> QED BY <1>0, <1>t, <1>3, <2>1, <3>1 DEF Snapshot
  <2>3. CASE RegisterInsert(c)
    BY <1>0, <1>t, <2>2, <2>3 DEF RegisterInsert
  <2>4. CASE ~RegisterInsert(c) /\ pc[c] \in Waiting
    <3>1. pc'[c] \in Waiting
      BY <1>0, <1>t, <2>4 DEF Waiting, BeforeRegister, KindsApart, CallSteps, Handler, SubmitCheck,
         InferInsert, SubmitInsert, InsertRecord, RegisterCheck, FinishConflict, EnqueueFinish,
         ProduceAck, ProduceError, EnqueueUnregister, ReplayLookup, Snapshot, DropHandler,
         ClientRead, StreamEnd, Disconnect, Goto
    <3> QED BY <2>2, <3>1
  <2> QED BY <1>3, <2>1, <2>2, <2>3, <2>4
<1>6. ASSUME Serving(c, d) PROVE Serving(c, d)'
  <2>1. ~RegisterInsert(c)
    BY <1>0, <1>t, <1>6 DEF RegisterInsert, Serving
  <2>2. pc'[c] \in Waiting
    BY <1>0, <1>t, <1>6, <2>1 DEF Serving, Waiting, BeforeRegister, KindsApart, CallSteps, Handler, SubmitCheck, InferInsert,
         SubmitInsert, InsertRecord, RegisterCheck, FinishConflict, EnqueueFinish, ProduceAck,
         ProduceError, EnqueueUnregister, ReplayLookup, Snapshot, DropHandler, ClientRead,
         StreamEnd, Disconnect, Goto
  <2> QED BY <1>0, <1>1, <1>2, <1>3, <1>6, <2>1, <2>2 DEF Serving
<1>7. ASSUME Served(c, d), Len(topic[call[d].id]) = Len(sent[d]), Copied(c, Len(sent[d]))
      PROVE  Copied(c, Len(sent[d]))'
  <2> DEFINE n == Len(sent[d])
  <2>1. CASE RegisterInsert(c)
    <3>1. pc[c] = "unique" /\ pc'[c] = "snapshotting" /\ registry'[call[c].id] = c
      BY <1>0, <1>t, <2>1 DEF RegisterInsert, Goto
    <3>2. sent[c] = <<>>
      BY <3>1 DEF Follows, BeforeRegister
    <3> QED BY <1>0, <1>1, <3>1, <3>2 DEF Copied
  <2>2. CASE Snapshot(c)
    <3>1. /\ pc[c] = "snapshotting" /\ pc'[c] = "streaming" /\ registry' = registry
          /\ snap'[c] = events[call[c].id] /\ task' = [task EXCEPT ![c].pc = "loop"]
      BY <1>t, <2>2 DEF Snapshot, Goto
    <3>2. task[c] = IdleTask /\ registry[call[c].id] = c /\ sent[c] = <<>>
      BY <1>0, <1>7, <3>1 DEF KindsApart, Copied
    <3>3. task'[c].pc = "loop" /\ task'[c].pos = 0
      BY <1>t, <3>1, <3>2 DEF IdleTask, TaskState
    <3>p. n \in 1 .. position[call[d].id] /\ position[call[d].id] <= n
      BY <1>0, <1>t, <1>7 DEF Served, RouterPlaced
    <3> HIDE DEF n
    <3>4. position[call[d].id] = n /\ n \in Nat /\ 0 \in 0 .. n
      BY <1>t, <3>p
    <3>5. snap'[c] = Upto(n)
      <4>1. events[call[d].id] = Upto(position[call[d].id])
        BY <1>0, <1>t DEF CacheExact
      <4> QED BY <1>0, <3>1, <3>4, <4>1
    <3>6. sent'[c] = Upto(0) /\ n' = n
      BY <1>1, <3>2, UptoZero DEF n
    <3>7. Copied(c, n)'
      BY <1>0, <1>1, <3>1, <3>2, <3>3, <3>4, <3>5, <3>6 DEF Copied
    <3> QED BY <3>7 DEF n
  <2>3. CASE StreamEnd(c)
    <3>1. pc[c] = "streaming" /\ pc'[c] = "ended" /\ ~SenderAlive(c)
      BY <1>t, <2>3 DEF StreamEnd, Goto
    <3>2. task[c].pc = "none"
      BY <1>0, <1>t, <1>7, <3>1 DEF Copied, SenderAlive
    <3> QED BY <1>0, <1>1, <1>7, <3>1, <3>2 DEF Copied
  <2>4. ASSUME ~RegisterInsert(c), ~Snapshot(c), ~StreamEnd(c)
        PROVE  pc'[c] = pc[c] \/ pc'[c] \notin {"snapshotting", "streaming", "ended"}
    BY <1>0, <1>t, <2>4 DEF CallSteps, Handler, SubmitCheck, InferInsert, SubmitInsert,
         InsertRecord, RegisterCheck, FinishConflict, EnqueueFinish, FailAndDec, ProduceAck,
         ProduceError, EnqueueUnregister, ReplayLookup, DropHandler, ClientRead, Disconnect,
         Goto, KindsApart
  <2> QED BY <1>0, <1>1, <1>3, <1>7, <2>1, <2>2, <2>3, <2>4 DEF Copied
<1>8. ASSUME Served(c, d) PROVE Served(c, d)'
  <2>1. task'[c].chan = task[c].chan
    <3>1. task' = [task EXCEPT ![c].pc = "loop"] \/ task' = task
      BY <1>3 DEF Snapshot
    <3> QED BY <1>t, <3>1 DEF TaskState
  <2>2. registry'[call[d].id] # d
    BY <1>0, <1>t, <1>3, <1>8 DEF RegisterInsert, Served
  <2>3. Len(topic[call[d].id]) = Len(sent[d]) /\ Copied(c, Len(sent[d])) =>
            Copied(c, Len(sent[d]))'
    BY <1>7, <1>8
  <2>4. task'[c].chan # d /\ router'.chan # d
    BY <1>1, <1>8, <2>1 DEF Served
  <2>5. /\ sent'[d] = sent[d] /\ position' = position
        /\ router' = router /\ topic' = topic
    BY <1>1
  <2> QED BY <1>0, <1>t, <1>8, <2>2, <2>3, <2>4, <2>5, ServedStays
<1> QED BY <1>0, <1>1, <1>3, <1>4, <1>5, <1>6, <1>8 DEF Follows

\* The replay task's steps.
LEMMA TaskFollows ==
    ASSUME GatewayAssumption, AgreeInv, MissedNothing, ~GatewayRestart, [Next]_vars, NEW c \in Calls, NEW d \in Calls,
           Replays(c, d), Follows(c, d), Task(c)
    PROVE  Follows(c, d)'
<1> USE DEF mapVars, chanVars, consVars
<1> DEFINE r == call[d].id
           n == Len(sent[d])
           pos == task[c].pos
<1>0. /\ TypeOK /\ call' = call /\ c # d /\ KindsApart /\ SendersKnown /\ HeldOffsets
      /\ call[c].id = r /\ (\A e \in Calls : call[e].id = r => e \in {c, d})
  BY AgreeSteps, PairAlone DEF AgreeInv, CallInv, TypeInv, Replays
<1>t. /\ registry \in [RequestIds -> Calls \cup {NoCall}] /\ sent \in [Calls -> Seq(Nat)]
      /\ task \in [Calls -> TaskState] /\ task[c] \in TaskState /\ snap[c] \in Seq(Nat)
      /\ r \in RequestIds /\ position[r] \in Nat /\ d # NoCall /\ n \in Nat
  BY <1>0 DEF TypeOK, GatewayAssumption
<1>1. /\ UNCHANGED <<pc, router, position, topic, snap>> /\ task[c].pc # "none"
      /\ pc[c] \notin BeforeRegister \cup {"failed", "snapshotting"}
  BY <1>0 DEF Task, TaskLookup, TaskSend, TaskFinish, KindsApart, Follows, IdleTask, workerVars
<1>2. ~Serving(c, d)
  BY <1>1 DEF Serving, Waiting
<1>b. ASSUME pc[d] \in BeforeRegister
      PROVE  sent' = sent /\ registry' = registry
  <2>1. snap[c] = <<>>
    BY <1>b DEF Follows
  <2>2. ~TaskSend(c) /\ ~TaskLookup(c) /\ ~SnapIsTerminal(c)
    BY <1>0, <1>t, <2>1 DEF TaskSend, TaskLookup, HeldOffsets, TaskState, SnapIsTerminal
  <2> QED BY <2>2 DEF Task, TaskFinish
<1>3. ASSUME Served(c, d) PROVE Served(c, d)' /\ sent'[d] = sent[d]
  <2>d. registry[r] # d /\ router.chan # d /\ task[c].chan # d /\ n >= 1 /\ IsTerminalAt(r, n)
    BY <1>3, <1>t DEF Served
  <2>1. CASE TaskLookup(c)
    <3>1. /\ sent' = sent /\ registry' = registry
          /\ \/ task' = [task EXCEPT ![c].pos = pos + 1] /\ registry[r] = NoCall
             \/ task' = [task EXCEPT ![c].pc = "sending", ![c].chan = registry[r]]
      BY <1>0, <2>1 DEF TaskLookup
    <3>2. /\ task'[c].chan # d
          /\ registry[r] = c /\ c # NoCall =>
                task'[c].pc # "none" /\ task'[c].chan = c /\ task'[c].pos = pos
      BY <1>t, <3>1, <2>d DEF TaskState
    <3>3. Copied(c, n) => Copied(c, n)'
      BY <1>0, <1>1, <3>1, <3>2 DEF Copied, GatewayAssumption
    <3> QED BY SMTT(30), <1>0, <1>t, <1>1, <1>3, <3>1, <3>2, <3>3, <2>d, ServedStays
  <2>2. CASE TaskSend(c)
    <3>1. /\ registry' = registry /\ task[c].pc = "sending"
          /\ SendOn(task[c].chan, snap[c][pos + 1])
          /\ task' = [task EXCEPT ![c] = [pc |-> "loop", pos |-> pos + 1, chan |-> NoCall]]
      BY <2>2 DEF TaskSend
    <3>2. /\ task'[c] = [pc |-> "loop", pos |-> pos + 1, chan |-> NoCall]
          /\ pos < Len(snap[c]) /\ pos \in Nat
      BY <1>0, <1>t, <3>1 DEF HeldOffsets, TaskState
    <3>3. sent'[d] = sent[d]
      BY <1>t, <3>1, <2>d DEF SendOn
    <3>4. ASSUME Copied(c, n) PROVE Copied(c, n)'
      <4>1. CASE pc[c] = "streaming"
        <5>1. /\ registry[r] = c /\ snap[c] = Upto(n) /\ sent[c] = Upto(pos) /\ task[c].chan = c
          BY <1>0, <1>1, <3>1, <3>4, <4>1 DEF Copied
        <5> HIDE DEF n, pos
        <5>p. pos < n
          BY <1>t, <3>2, <5>1, UptoFacts
        <5>2. pos + 1 \in 1 .. n /\ pos + 1 \in 0 .. n
          BY <1>t, <3>2, <5>p
        <5>3. snap[c][pos + 1] = pos + 1
          BY <1>t, <5>1, <5>2, UptoFacts
        <5>4. sent'[c] = Append(Upto(pos), pos + 1)
          BY <1>t, <3>1, <4>1, <5>1, <5>3 DEF SendOn, ReceiverAlive, ReceiverPCs
        <5>5. sent'[c] = Upto(pos + 1) /\ n' = n
          BY <3>2, <3>3, <5>4, UptoFacts DEF n
        <5>6. Copied(c, n)'
          BY <1>0, <1>1, <3>1, <3>2, <4>1, <5>1, <5>2, <5>5 DEF Copied
        <5> QED BY <5>6
      <4>2. CASE pc[c] # "streaming"
        <5>1. pc[c] = "ended" => sent'[c] = sent[c]
          BY <1>0, <1>t, <3>1 DEF SendOn, SendersKnown
        <5> QED BY <1>1, <3>3, <3>4, <4>2, <5>1 DEF Copied
      <4> QED BY <4>1, <4>2
    <3>5. task'[c].chan # d
      BY <1>t, <3>2
    <3> QED BY <1>0, <1>t, <1>1, <1>3, <3>1, <3>3, <3>4, <3>5, <2>d, ServedStays
  <2>3. CASE TaskFinish(c)
    <3>1. /\ sent' = sent /\ task[c].pc = "loop" /\ pos = Len(snap[c])
          /\ \/ SnapIsTerminal(c) /\ registry' = [registry EXCEPT ![r] = NoCall]
             \/ ~SnapIsTerminal(c) /\ registry' = registry
          /\ task' = [task EXCEPT ![c] = IdleTask]
      BY <1>0, <2>3 DEF TaskFinish
    <3>2. task'[c] = IdleTask /\ registry'[r] # d
      BY <1>t, <3>1, <2>d
    <3>3. ASSUME Copied(c, n) PROVE Copied(c, n)'
      <4>1. CASE pc[c] = "streaming"
        <5>1. snap[c] = Upto(n) /\ sent[c] = Upto(pos)
          BY <1>1, <3>3, <4>1 DEF Copied
        <5>2. Len(Upto(n)) = n
          BY <1>t, UptoFacts
        <5>3. sent'[c] = Upto(n)
          BY <3>1, <5>1, <5>2
        <5> QED BY <1>1, <3>1, <3>2, <4>1, <5>3 DEF Copied, IdleTask
      <4>2. CASE pc[c] # "streaming"
        BY <1>1, <3>1, <3>3, <4>2 DEF Copied
      <4> QED BY <4>1, <4>2
    <3>4. task'[c].chan # d
      BY <1>t, <3>2 DEF IdleTask
    <3> QED BY <1>0, <1>t, <1>1, <1>3, <3>1, <3>2, <3>3, <3>4, <2>d, ServedStays
  <2> QED BY <2>1, <2>2, <2>3 DEF Task
<1>c. pc[d] \in BeforeRegister => registry[r] = c
  BY <1>1 DEF Follows, Waiting
<1> HIDE DEF n, pos
<1> QED BY <1>0, <1>1, <1>2, <1>3, <1>b, <1>c DEF Follows, BeforeRegister

\* The steps of other ids' calls.
LEMMA OthersFollow ==
    ASSUME GatewayAssumption, AgreeInv, MissedNothing, ~GatewayRestart, CallInv', [Next]_vars,
           NEW c \in Calls, NEW d \in Calls, Replays(c, d), Follows(c, d),
           NEW e \in Calls \ {c, d}, CallSteps(e) \/ Task(e)
    PROVE  Follows(c, d)'
<1> USE DEF mapVars, chanVars, consVars
<1>0. /\ TypeOK /\ call' = call /\ SendersKnown /\ call[e].id # call[d].id
      /\ call[c].id = call[d].id /\ call[d].id \in RequestIds
  BY AgreeSteps, PairAlone DEF AgreeInv, CallInv, TypeInv, Replays
<1>1. CASE CallSteps(e)
  <2>1. /\ UNCHANGED <<sent, router, position>>
        /\ pc'[c] = pc[c] /\ pc'[d] = pc[d] /\ task'[c] = task[c] /\ snap'[c] = snap[c]
        /\ registry'[call[d].id] = registry[call[d].id]
    BY <1>0, <1>1, CallStep
  <2> QED BY <1>0, <2>1, Undisturbed
<1>2. CASE Task(e)
  <2>1. /\ UNCHANGED <<pc, router, position, snap>>
        /\ \E t : task' = [task EXCEPT ![e] = t]
        /\ registry' = registry \/ registry' = [registry EXCEPT ![call[e].id] = NoCall]
        /\ sent' = sent \/ (task[e].pc = "sending" /\ SendOn(task[e].chan, snap[e][task[e].pos + 1]))
    BY <1>2 DEF Task, TaskLookup, TaskSend, TaskFinish
  <2>2. task'[c] = task[c] /\ registry'[call[d].id] = registry[call[d].id]
    BY <1>0, <2>1 DEF TypeOK
  <2>3. task[e].chan \notin {c, d}
    BY <1>0 DEF SendersKnown, GatewayAssumption
  <2>4. sent'[c] = sent[c] /\ sent'[d] = sent[d]
    BY <1>0, <2>1, <2>3 DEF SendOn, TypeOK
  <2> QED BY <1>0, <2>1, <2>2, <2>4, Undisturbed
<1> QED BY <1>1, <1>2

\* The router's steps: the submission's stream gets what it has not got yet, the
\* replay's must wait for that, and both are safe from a late unregister.
LEMMA RouterFollows ==
    ASSUME GatewayAssumption, AgreeInv, MissedNothing, ~GatewayRestart, CallInv', [Next]_vars,
           NEW c \in Calls, NEW d \in Calls, Replays(c, d), Follows(c, d), Router
    PROVE  Follows(c, d)'
<1> USE DEF mapVars, chanVars, taskVars, consVars, workerVars
<1> DEFINE r == call[d].id
           n == Len(sent[d])
<1>0. /\ TypeOK /\ call' = call /\ c # d /\ KindsApart /\ SendersKnown /\ SendersKnown'
      /\ HeldOffsets /\ RouterPlaced /\ EndsUnregister /\ call[c].id = r
      /\ NoRequest \notin RequestIds
      /\ (\A e \in Calls : call[e].id = r => e \in {c, d})
  BY AgreeSteps, PairAlone DEF AgreeInv, CallInv, TypeInv, Replays, GatewayAssumption
<1>t. /\ registry \in [RequestIds -> Calls \cup {NoCall}] /\ sent \in [Calls -> Seq(Nat)]
      /\ router \in RouterState /\ position \in [RequestIds -> Nat]
      /\ sent[d] \in Seq(Nat) /\ r \in RequestIds /\ d # NoCall /\ n \in Nat
  BY <1>0 DEF TypeOK, GatewayAssumption
<1>1. UNCHANGED <<pc, task, snap, topic>>
  BY DEF Router, RouterPoll, RouterUpdate, RouterLookup, RouterSend, RouterUnregister
<1>2. \A e \in Calls : pc[e] \in BeforeRegister \cup {"ended"} => sent'[e] = sent[e]
  <2>1. CASE sent' = sent
    BY <2>1
  <2>2. CASE \E q : sent' = [sent EXCEPT ![router.chan] = q]
    <3>1. ASSUME NEW e \in Calls, pc[e] \in BeforeRegister \cup {"ended"}
          PROVE  e # router.chan
      BY <1>0, <1>t, <3>1 DEF SendersKnown
    <3> QED BY <1>t, <2>2, <3>1
  <2>3. (\E q \in RequestIds : RouterPoll(q)) \/ RouterUpdate \/ RouterLookup \/ RouterUnregister
            => sent' = sent
    BY DEF RouterPoll, RouterUpdate, RouterLookup, RouterUnregister
  <2>4. RouterSend => sent' = sent \/ \E q : sent' = [sent EXCEPT ![router.chan] = q]
    BY DEF RouterSend, SendOn
  <2> QED BY <2>1, <2>2, <2>3, <2>4 DEF Router
<1>b. pc[d] \in BeforeRegister => registry'[r] = registry[r]
  <2>1. pc[d] \in BeforeRegister => topic[r] = <<>>
    BY FreshLog, PairAlone DEF AgreeInv
  <2>2. router.pc = "unregister" /\ topic[r] = <<>> => router.id # r
    BY <1>0 DEF HeldOffsets
  <2>3. \/ registry' = registry
        \/ router.pc = "unregister" /\ registry' = [registry EXCEPT ![router.id] = NoCall]
    BY DEF Router, RouterPoll, RouterUpdate, RouterLookup, RouterSend, RouterUnregister
  <2> QED BY <1>t, <2>1, <2>2, <2>3
\* It is enough that one that is served stays so, and one being served is or has been.
<1>3. SUFFICES ASSUME pc[d] \in {"producing", "streaming", "ended"}
               PROVE  /\ Served(c, d) => Served(c, d)' /\ sent'[d] = sent[d]
                      /\ Serving(c, d) /\ pc[d] # "ended" =>
                            /\ Serving(c, d)' \/ Served(c, d)'
                            /\ sent[d] = Upto(n) => sent'[d] = Upto(Len(sent'[d]))
  <2> HIDE DEF r, n
  <2> QED BY <1>0, <1>1, <1>2, <1>b, <1>3 DEF Follows, BeforeRegister, n, r
<1>4. ASSUME NEW q \in RequestIds, RouterPoll(q)
      PROVE  /\ position[q] + 1 <= Len(topic[q]) /\ position' = [position EXCEPT ![q] = @ + 1]
             /\ router'.id = q
  BY <1>4 DEF RouterPoll
<1>5. ASSUME RouterUpdate \/ RouterLookup \/ RouterSend \/ RouterUnregister
      PROVE  /\ router.id \in RequestIds /\ router'.id \in {router.id, NoRequest}
             /\ position' = position
  <2>1. /\ position' = position /\ router.pc # "poll"
        /\ router' \in {IdleRouter, AfterSend} \/ \E s, h : router' = [router EXCEPT !.pc = s, !.chan = h]
    <3>1. RouterUpdate => router' = [router EXCEPT !.pc = "lookup", !.chan = router.chan]
      BY <1>t DEF RouterUpdate, RouterState
    <3> QED BY <1>5, <3>1 DEF RouterUpdate, RouterLookup, RouterSend, RouterUnregister
  <2>2. \A s, h : [router EXCEPT !.pc = s, !.chan = h].id = router.id
    BY <1>t DEF RouterState
  <2>3. IdleRouter.id = NoRequest /\ AfterSend.id \in {router.id, NoRequest}
    BY <1>t DEF IdleRouter, AfterSend, RouterState
  <2>4. router'.id \in {router.id, NoRequest}
    BY <2>1, <2>2, <2>3
  <2> QED BY <1>0, <2>1, <2>4 DEF HeldOffsets
<1>6. /\ sent' = sent \/ RouterSend
      /\ registry' = registry
            \/ (RouterUnregister /\ registry' = [registry EXCEPT ![router.id] = NoCall])
      /\ router'.chan # NoCall =>
            RouterLookup /\ router'.chan = registry[router.id] /\ router'.id = router.id
  BY <1>0, RouterMoves, RouterSends DEF Router, AgreeInv
<1>7. ASSUME RouterSend
      PROVE  /\ router.chan \in Calls /\ call[router.chan].id = router.id
             /\ \A e \in Calls : e # router.chan => sent'[e] = sent[e]
  BY <1>t, <1>7, RouterSends DEF AgreeInv
<1>8. ASSUME Served(c, d) PROVE Served(c, d)' /\ sent'[d] = sent[d]
  <2>1. /\ registry[r] # d /\ router.chan # d /\ task[c].chan # d
        /\ n \in 1 .. position[r]
    BY <1>8 DEF Served
  <2>2. sent'[d] = sent[d]
    BY <1>6, <1>7, <2>1
  <2>3. registry'[r] # d
    BY <1>t, <1>6, <2>1
  <2>4. router'.chan # d
    <3>1. SUFFICES ASSUME router'.chan = d PROVE FALSE
      OBVIOUS
    <3>2. d = registry[router.id] /\ RouterLookup
      BY <1>t, <1>6, <3>1
    <3>3. router.id = r
      BY <1>0, <1>t, <1>5, <3>2 DEF SendersKnown
    <3> QED BY <2>1, <3>2, <3>3
  <2>5. position'[r] \in Nat /\ position[r] <= position'[r]
    <3>1. ASSUME NEW q \in RequestIds, RouterPoll(q)
          PROVE  position'[r] = position[r] \/ position'[r] = position[r] + 1
      BY <1>t, <1>4, <3>1
    <3>2. position[r] \in Nat
      BY <1>t
    <3>3. position'[r] = position[r] \/ position'[r] = position[r] + 1
      BY <1>5, <3>1 DEF Router
    <3> HIDE DEF r
    <3> QED BY <3>2, <3>3
  <2>6. ASSUME Len(topic[r]) = n, router.id # r, Copied(c, n)
        PROVE  router'.id # r /\ Copied(c, n)'
    <3>1. router'.id # r
      <4>1. ASSUME NEW q \in RequestIds, RouterPoll(q) PROVE q # r
        BY <1>t, <1>4, <2>1, <2>6, <4>1
      <4> QED BY <1>0, <1>t, <1>4, <1>5, <2>6, <4>1 DEF Router
    <3>2. sent'[c] = sent[c] /\ registry'[r] = registry[r]
      BY <1>0, <1>t, <1>5, <1>6, <1>7, <2>6
    <3> QED BY <1>0, <1>1, <2>2, <2>6, <3>1, <3>2 DEF Copied
  <2>7. task'[c].chan # d
    BY <1>1, <2>1
  <2> QED BY <1>0, <1>8, <2>2, <2>3, <2>4, <2>5, <2>6, <2>7, ServedStays
<1>9. ASSUME Serving(c, d), pc[d] # "ended", RouterSend, router.id = r
      PROVE  Serving(c, d)' /\ (sent[d] = Upto(n) => sent'[d] = Upto(Len(sent'[d])))
  <2>1. /\ registry[r] = d /\ n = Routed(r) /\ pc[c] \in Waiting
        /\ router.chan = d
    BY <1>7, <1>9 DEF Serving, GatewayAssumption
  <2>2. /\ registry' = registry /\ router'.chan = NoCall /\ Routed(r)' = router.off
        /\ n = router.off - 1 /\ sent' = [sent EXCEPT ![d] = Append(@, router.off)]
    <3>1. ReceiverAlive(d)
      BY <1>3, <1>9 DEF ReceiverAlive, ReceiverPCs
    <3> QED BY <1>9, <2>1, <3>1, <1>t, RouterSends DEF AgreeInv
  <2>3. router.off = n + 1
    BY <1>t, <2>2 DEF RouterState
  <2>4. sent'[d] = Append(sent[d], n + 1) /\ Len(sent'[d]) = n + 1
    BY <1>t, <2>2, <2>3
  <2> HIDE DEF n
  <2>5. sent[d] = Upto(n) => sent'[d] = Upto(n + 1)
    BY <1>t, <2>4, UptoFacts
  <2>6. Serving(c, d)'
    BY <1>0, <1>1, <2>1, <2>2, <2>3, <2>4 DEF Serving
  <2> QED BY <2>4, <2>5, <2>6
<1>10. ASSUME Serving(c, d), pc[d] # "ended", RouterUnregister, router.id = r
       PROVE  Served(c, d)' /\ sent' = sent
  <2>1. /\ registry[r] = d /\ n = Routed(r) /\ pc[c] \in Waiting
    BY <1>10 DEF Serving
  <2>2. /\ router.pc = "unregister" /\ router' = IdleRouter /\ sent' = sent
        /\ position' = position /\ registry' = [registry EXCEPT ![r] = NoCall]
    BY <1>10 DEF RouterUnregister
  <2>3. n = position[r] /\ n = router.off /\ n \in 1 .. position[r] /\ IsTerminalAt(r, n)
    BY <1>0, <1>t, <1>10, <2>1, <2>2 DEF Routed, RouterPlaced, HeldOffsets, EndsUnregister
  <2>4. task[c] = IdleTask
    BY <1>0, <2>1 DEF Waiting, Follows, KindsApart, BeforeRegister
  <2>5. Copied(c, n)'
    BY <1>1, <2>1 DEF Copied, Waiting, BeforeRegister
  <2>6. registry'[r] # d /\ router'.chan # d /\ router'.id # r /\ task'[c].chan # d
    BY <1>0, <1>t, <1>1, <2>2, <2>4 DEF IdleRouter, IdleTask
  <2>7. IsTerminalAt(r, n)' /\ n' = n
    BY <1>0, <1>1, <2>2, <2>3 DEF IsTerminalAt, EventAt
  <2> QED BY <1>0, <1>1, <2>2, <2>3, <2>5, <2>6, <2>7 DEF Served
<1>11. ASSUME Serving(c, d), pc[d] # "ended", ~(RouterSend /\ router.id = r),
              ~(RouterUnregister /\ router.id = r)
       PROVE  Serving(c, d)' /\ sent'[d] = sent[d]
  <2>1. /\ registry[r] = d /\ n = Routed(r) /\ pc[c] \in Waiting
    BY <1>11 DEF Serving
  <2>2. sent'[d] = sent[d]
    BY <1>6, <1>7, <1>11
  <2>3. registry'[r] = registry[r]
    BY <1>t, <1>5, <1>6, <1>11
  <2>4. Routed(r)' = Routed(r)
    BY <1>0, <1>t, <1>11, <2>1, RouterMoves, RouterSends DEF Router, AgreeInv
  <2>5. router'.id = r => router'.chan \in {NoCall, d}
    BY <1>6, <2>1
  <2> QED BY <1>0, <1>1, <2>1, <2>2, <2>3, <2>4, <2>5 DEF Serving
<1> HIDE DEF r
<1> QED BY <1>8, <1>9, <1>10, <1>11

\* Every step keeps every pair of a submission and a replay going.
LEMMA FollowedKept ==
    ASSUME GatewayAssumption, AgreeInv, MissedNothing, MissedNothing', [Next]_vars PROVE Followed'
<1>0. /\ CallInv' /\ call' = call /\ Followed /\ TypeOK
      /\ ~GatewayRestart /\ displaced \subseteq displaced'
  BY CallInvKept, AgreeSteps, HistoryKept DEF AgreeInv, CallInv, TypeInv
<1> SUFFICES ASSUME NEW c \in Calls, NEW d \in Calls, Replays(c, d), call[d].id \notin displaced'
             PROVE  Follows(c, d)'
  BY <1>0 DEF Followed, Replays
<1>1. Follows(c, d) /\ task[d].pc = "none"
  BY <1>0, PairAlone DEF Followed
<1>2. CASE UNCHANGED <<pc, events, registry, sent, task, snap, router, position>>
  BY <1>0, <1>1, <1>2, Undisturbed
<1>3. ASSUME NEW e \in Calls, CallSteps(e) \/ Task(e) PROVE Follows(c, d)'
  <2>1. ~Task(d)
    BY <1>1 DEF Task, TaskLookup, TaskSend, TaskFinish
  <2> QED BY <1>0, <1>1, <1>3, <2>1, SubmitFollows, ReplayFollows, TaskFollows, OthersFollow
<1>4. CASE Router
  BY <1>0, <1>1, <1>4, RouterFollows
<1> QED BY <1>0, <1>2, <1>3, <1>4, AgreeSteps

LEMMA AgreeInvInitially ==
    ASSUME GatewayAssumption, Init PROVE AgreeInv
<1>1. CallInv
  BY CallInvInitially
<1>2. LogsBegun /\ Assigned
  BY StreamInvInitially DEF StreamInv
<1>3. CacheExact
  BY UptoZero DEF Init, CacheExact
<1>4. EndsUnregister
  BY DEF Init, EndsUnregister, IdleRouter
<1>5. Followed
  BY DEF Init, Followed, Follows, Waiting, BeforeRegister
<1> QED BY <1>1, <1>2, <1>3, <1>4, <1>5 DEF AgreeInv

LEMMA AgreeInvKept ==
    ASSUME GatewayAssumption, AgreeInv, [Next]_vars PROVE AgreeInv'
<1>1. CallInv' /\ LogsBegun' /\ Assigned'
  BY CallInvKept, LogsBegunKept, AssignedKept DEF AgreeInv
<1>2. ASSUME MissedNothing' PROVE CacheExact' /\ EndsUnregister' /\ Followed'
  <2>1. MissedNothing /\ ~GatewayRestart
    BY <1>2, HistoryKept DEF AgreeInv, CallInv, TypeInv
  <2> QED BY <1>2, <2>1, CacheExactKept, EndsUnregisterKept, FollowedKept
<1> QED BY <1>1, <1>2 DEF AgreeInv

\* The replay of an ended stream has been served all there is.
LEMMA AgreeingReplays == AgreeInv => ReplayAgrees
<1> SUFFICES ASSUME AgreeInv, NEW c \in Calls, NEW d \in Calls, Replays(c, d),
                    call[d].id \notin displaced, MissedNothing,
                    pc[c] = "ended", pc[d] = "ended",
                    sent[d] = Upto(Len(topic[call[d].id]))
             PROVE  sent[c] = sent[d]
  BY DEF ReplayAgrees, Upto
<1>1. topic[call[d].id] \in Seq(Event)
  BY DEF AgreeInv, CallInv, TypeInv, TypeOK
<1>2. Len(sent[d]) = Len(topic[call[d].id])
  <2>1. Len(topic[call[d].id]) \in Nat
    BY <1>1
  <2>2. Len(Upto(Len(topic[call[d].id]))) = Len(topic[call[d].id])
    BY <2>1, UptoFacts
  <2> QED BY <2>2
<1>3. Served(c, d)
  BY DEF AgreeInv, Followed, Follows
<1>4. sent[c] = Upto(Len(sent[d]))
  BY <1>2, <1>3 DEF Served, Copied
<1> QED BY <1>2, <1>4

\* A replay that ends after its request's own stream carried the whole log carried the
\* same: on any number of runtime threads, for every number of requests and every
\* endpoint and fault, unless the two handlers both passed contains_key and one dropped
\* the other's sender, or the consumer missed events.
THEOREM ReplaysAgree == Spec => []ReplayAgrees
<1>1. Init => AgreeInv
  BY GatewayAssumption, AgreeInvInitially
<1>2. AgreeInv /\ [Next]_vars => AgreeInv'
  BY GatewayAssumption, AgreeInvKept
<1>3. AgreeInv => ReplayAgrees
  BY AgreeingReplays
<1> QED BY <1>1, <1>2, <1>3, PTL DEF Spec
=============================================================================
