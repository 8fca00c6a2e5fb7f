---------------------------- MODULE GatewayProofs ----------------------------
(***************************************************************************)
(* Theorems about Gateway, for every set of calls and request ids, every    *)
(* choice of endpoints and faults, and every bound.                        *)
(***************************************************************************)
EXTENDS Gateway, TLAPS

-----------------------------------------------------------------------------
(* Typing                                                                  *)

\* Updating one entry keeps a map's type.
LEMMA ExceptTyped ==
    ASSUME NEW S, NEW T, NEW f \in [S -> T], NEW x, NEW v \in T
    PROVE  [f EXCEPT ![x] = v] \in [S -> T]
OBVIOUS

\* The record `insert` stores.
LEMMA QueuedTyped == queued \in Slot
  BY DEF queued, Slot, RequestRecord, RequestStatusInternal

\* finish_failed and cancel leave a slot's content behind.
LEMMA FinishTyped ==
    ASSUME NEW rec \in Slot
    PROVE  /\ update(rec, finish_failed(rec)) \in Slot
           /\ accepts_cancel(rec) => cancel(rec) \in Slot
<1>1. CASE rec = NoRecord
  BY <1>1 DEF update, Present, NoRecord, Slot, accepts_cancel, IsActive
<1>2. CASE rec \in RequestRecord
  BY <1>2 DEF update, Slot, finish_failed, cancel, RequestRecord, RequestStatusInternal
<1> QED BY <1>1, <1>2 DEF Slot

\* So does what route_one does to the record, whatever the event.
LEMMA ApplyEventTyped ==
    ASSUME NEW rec \in Slot, NEW ev \in Event
    PROVE  ApplyEvent(rec, ev) \in Slot
<1>1. CASE rec = NoRecord
  BY <1>1 DEF ApplyEvent, update, Present, NoRecord, Slot
<1>2. CASE rec \in RequestRecord
  <2>1. /\ mark_running(rec) \in RequestRecord
        /\ finish_failed(rec) \in RequestRecord
        /\ finish_cancelled(rec) \in RequestRecord
    BY <1>2 DEF mark_running, finish_failed, finish_cancelled,
                RequestRecord, RequestStatusInternal
  <2>2. /\ note_token(rec, ev.seq) \in RequestRecord
        /\ finish_completed(rec, ev.seq) \in RequestRecord
    BY <1>2 DEF note_token, finish_completed, MaxOf, RequestRecord,
                RequestStatusInternal, Event
  <2> QED
    BY <1>2, <2>1, <2>2 DEF ApplyEvent, update, Slot, Event, EventTypes, TerminalTypes
<1> QED BY <1>1, <1>2 DEF Slot

\* SendOn appends an offset to one channel or leaves all of them alone.
LEMMA SendOnTyped ==
    ASSUME TypeOK, NEW c, NEW off \in Nat, SendOn(c, off)
    PROVE  sent' \in [Calls -> Seq(Nat)]
<1>1. sent \in [Calls -> Seq(Nat)]
  BY DEF TypeOK
<1>2. sent' = sent \/ sent' = [sent EXCEPT ![c] = Append(sent[c], off)]
  BY DEF SendOn
<1>3. CASE c \in Calls
  <2>1. Append(sent[c], off) \in Seq(Nat)
    BY <1>1, <1>3
  <2> QED BY <1>1, <1>2, <2>1
<1>4. CASE c \notin Calls
  BY <1>1, <1>2, <1>4
<1> QED BY <1>3, <1>4

\* TypeOK is not inductive alone: what the replay task and the router are about
\* to send must be there.  Both hold indices they bounded before an await, and
\* the sequences they index only grow, or are replaced together with them.
HeldOffsets ==
    /\ \A c \in Calls : task[c].pc = "sending" => task[c].pos < Len(snap[c])
    /\ router.pc # "poll" =>
          router.id \in RequestIds /\ router.off \in 1 .. Len(topic[router.id])

TypeInv == TypeOK /\ HeldOffsets

\* The initial state is well typed.
LEMMA InitTyped == ASSUME GatewayAssumption, Init PROVE TypeOK
<1>1. IdleTask \in TaskState /\ IdleRouter \in RouterState
  BY DEF IdleTask, IdleRouter, TaskState, RouterState
<1> QED
  BY <1>1 DEF Init, TypeOK, PCs, JobStates, Slot, GatewayAssumption

-----------------------------------------------------------------------------
(* Every step keeps TypeOK.  One lemma per part of the system, one step per *)
(* action; an action that does more than move a program counter first has   *)
(* the new value of each variable it changes typed.                         *)

\* The handlers of submit, infer and replay, and the client's own steps.
LEMMA HandlerTyped ==
    ASSUME GatewayAssumption, TypeOK, NEW c \in Calls,
           \/ SubmitCheck(c) \/ InferInsert(c) \/ Handler(c) \/ DropHandler(c)
           \/ ClientRead(c) \/ StreamEnd(c) \/ Disconnect(c)
    PROVE  TypeOK'
<1> USE DEF mapVars, chanVars, taskVars, metricVars, consVars, workerVars, cancelVars
<1>id. call[c].id \in RequestIds
  BY DEF TypeOK
<1>1. CASE SubmitCheck(c)
  BY <1>1 DEF SubmitCheck, TypeOK, PCs, Goto
<1>2. CASE RegisterCheck(c)
  BY <1>2 DEF RegisterCheck, TypeOK, PCs, Goto
<1>3. CASE ProduceAck(c)
  BY <1>3 DEF ProduceAck, TypeOK, PCs, Goto
<1>4. CASE ProduceError(c)
  BY <1>4 DEF ProduceError, TypeOK, PCs, Goto
<1>5. CASE EnqueueUnregister(c)
  BY <1>5 DEF EnqueueUnregister, TypeOK, PCs, Goto
<1>6. CASE DropHandler(c)
  BY <1>6 DEF DropHandler, TypeOK, PCs, Goto
<1>7. CASE StreamEnd(c)
  BY <1>7 DEF StreamEnd, TypeOK, PCs, Goto
<1>8. CASE Disconnect(c)
  BY <1>8 DEF Disconnect, TypeOK, PCs, Goto
<1>9. CASE ReplayLookup(c)
  BY <1>9 DEF ReplayLookup, TypeOK, PCs, Goto
<1>10. CASE InferInsert(c) \/ SubmitInsert(c)
  <2>1. InsertRecord(c)
    BY <1>10 DEF InferInsert, SubmitInsert
  <2>2. records' \in [RequestIds -> Slot]
    BY <2>1, QueuedTyped, ExceptTyped DEF TypeOK, InsertRecord
  <2>3. activeStreams' \in Int /\ pc' \in [Calls -> PCs]
    BY <2>1 DEF TypeOK, InsertRecord, Goto, PCs
  <2> QED BY <2>1, <2>2, <2>3 DEF TypeOK, InsertRecord
<1>11. CASE FinishConflict(c) \/ EnqueueFinish(c)
  <2>1. FailAndDec(c)
    BY <1>11 DEF FinishConflict, EnqueueFinish
  <2>2. records[call[c].id] \in Slot /\ records \in [RequestIds -> Slot]
    BY <1>id DEF TypeOK
  <2>3. records' \in [RequestIds -> Slot]
    <3>1. update(records[call[c].id], finish_failed(records[call[c].id])) \in Slot
      BY <2>2, FinishTyped
    <3> QED BY <2>1, <2>2, <3>1, ExceptTyped DEF FailAndDec
  <2>4. activeStreams' \in Int /\ pc' \in [Calls -> PCs]
    BY <2>1 DEF TypeOK, FailAndDec, Goto, PCs
  <2> QED BY <1>11, <2>3, <2>4 DEF TypeOK, FinishConflict, EnqueueFinish
<1>12. CASE RegisterInsert(c)
  <2>1. registry' \in [RequestIds -> Calls \cup {NoCall}]
    BY <1>12 DEF TypeOK, RegisterInsert
  <2>2. pc' \in [Calls -> PCs] /\ job' \in [Calls -> JobStates]
    BY <1>12 DEF TypeOK, RegisterInsert, Goto, PCs, JobStates
  <2>3. displaced' \subseteq RequestIds
    BY <1>12, <1>id DEF TypeOK, RegisterInsert
  <2> QED BY <1>12, <2>1, <2>2, <2>3 DEF TypeOK, RegisterInsert
<1>13. CASE Snapshot(c)
  <2>1. snap' \in [Calls -> Seq(Nat)]
    BY <1>13, <1>id DEF TypeOK, Snapshot
  <2>2. task' \in [Calls -> TaskState]
    <3>1. task[c] \in TaskState
      BY DEF TypeOK
    <3>2. [task[c] EXCEPT !.pc = "loop"] \in TaskState
      BY <3>1 DEF TaskState
    <3> QED BY <1>13, <3>2, ExceptTyped DEF TypeOK, Snapshot
  <2>3. pc' \in [Calls -> PCs]
    BY <1>13 DEF TypeOK, Snapshot, Goto, PCs
  <2> QED BY <1>13, <2>1, <2>2, <2>3 DEF TypeOK, Snapshot
<1>14. CASE ClientRead(c)
  <2>1. read[c] + 1 \in Nat
    BY DEF TypeOK
  <2>2. read' = [read EXCEPT ![c] = read[c] + 1]
    BY <1>14 DEF ClientRead
  <2>3. read' \in [Calls -> Nat]
    BY <2>1, <2>2, ExceptTyped DEF TypeOK
  <2> QED BY <1>14, <2>3 DEF TypeOK, ClientRead
<1> QED
  BY <1>1, <1>2, <1>3, <1>4, <1>5, <1>6, <1>7, <1>8, <1>9, <1>10, <1>11, <1>12, <1>13, <1>14 DEF Handler

\* The replay task.
LEMMA TaskTyped ==
    ASSUME GatewayAssumption, TypeInv, NEW c \in Calls, Task(c)
    PROVE  TypeOK'
<1> USE DEF mapVars, chanVars, taskVars, metricVars, consVars, workerVars, cancelVars
<1>ty. TypeOK /\ HeldOffsets
  BY DEF TypeInv
<1>t. /\ task[c] \in TaskState /\ call[c].id \in RequestIds
      /\ registry[call[c].id] \in Calls \cup {NoCall}
      /\ task[c].pos + 1 \in Nat
  BY <1>ty DEF TypeOK, TaskState
<1>1. CASE TaskLookup(c)
  <2>1. /\ [task[c] EXCEPT !.pos = task[c].pos + 1] \in TaskState
        /\ [task[c] EXCEPT !.pc = "sending", !.chan = registry[call[c].id]] \in TaskState
    BY <1>t DEF TaskState
  <2>2. \/ task' = [task EXCEPT ![c] = [task[c] EXCEPT !.pos = task[c].pos + 1]]
        \/ task' = [task EXCEPT ![c] = [task[c] EXCEPT !.pc = "sending",
                                                     !.chan = registry[call[c].id]]]
    BY <1>1, <1>t, <1>ty DEF TaskLookup, TypeOK, TaskState
  <2>3. task' \in [Calls -> TaskState]
    BY <2>1, <2>2, <1>ty, ExceptTyped DEF TypeOK
  <2> QED BY <1>ty, <1>1, <2>3 DEF TypeOK, TaskLookup
<1>2. CASE TaskSend(c)
  <2>1. sent' \in [Calls -> Seq(Nat)]
    <3>a. snap[c] \in Seq(Nat)
      BY <1>ty DEF TypeOK
    <3>b. task[c].pos < Len(snap[c])
      BY <1>2, <1>ty DEF TaskSend, HeldOffsets
    <3>c. task[c].pos \in Nat /\ Len(snap[c]) \in Nat
      BY <1>t, <3>a DEF TaskState
    <3>1. snap[c] \in Seq(Nat) /\ task[c].pos + 1 \in 1 .. Len(snap[c])
      BY <3>a, <3>b, <3>c
    <3>2. snap[c][task[c].pos + 1] \in Nat
      BY <3>1
    <3> QED BY <1>2, <1>ty, <3>2, SendOnTyped DEF TaskSend
  <2>2. [pc |-> "loop", pos |-> task[c].pos + 1, chan |-> NoCall] \in TaskState
    BY <1>t DEF TaskState
  <2>3. task' \in [Calls -> TaskState]
    BY <1>2, <2>2, <1>ty, ExceptTyped DEF TypeOK, TaskSend
  <2> QED BY <1>ty, <1>2, <2>1, <2>3 DEF TypeOK, TaskSend
<1>3. CASE TaskFinish(c)
  <2>1. registry' \in [RequestIds -> Calls \cup {NoCall}]
    BY <1>3, <1>ty DEF TypeOK, TaskFinish
  <2>2. IdleTask \in TaskState
    BY DEF IdleTask, TaskState
  <2>3. task' \in [Calls -> TaskState]
    BY <1>3, <2>2, <1>ty, ExceptTyped DEF TypeOK, TaskFinish
  <2> QED BY <1>ty, <1>3, <2>1, <2>3 DEF TypeOK, TaskFinish
<1> QED BY <1>1, <1>2, <1>3 DEF Task

\* Cancellation.
LEMMA CancelTyped ==
    ASSUME GatewayAssumption, TypeOK, NEW r \in RequestIds,
           \/ Cancel(r) \/ InferCancel(r) \/ PublishCancel(r) \/ LosePublish(r)
    PROVE  TypeOK'
<1> USE DEF mapVars, chanVars, taskVars, metricVars, consVars, workerVars, cancelVars
<1>1. CASE Cancel(r) \/ InferCancel(r)
  <2>1. AcceptCancel(r)
    BY <1>1 DEF Cancel, InferCancel
  <2>2. cancel(records[r]) \in Slot
    BY <2>1, FinishTyped DEF TypeOK, AcceptCancel
  <2>3. records' \in [RequestIds -> Slot]
    BY <2>1, <2>2, ExceptTyped DEF TypeOK, AcceptCancel
  <2>4. cancelling' \subseteq RequestIds /\ cancelledRequests' \in Nat
    BY <1>1, <2>1 DEF TypeOK, AcceptCancel, Cancel, InferCancel
  <2> QED BY <2>1, <2>3, <2>4 DEF TypeOK, AcceptCancel
<1>2. CASE PublishCancel(r) \/ LosePublish(r)
  BY <1>2 DEF PublishCancel, LosePublish, TypeOK
<1> QED BY <1>1, <1>2

\* The router.
LEMMA RouterTyped ==
    ASSUME GatewayAssumption, TypeInv, Router \/ Assign
    PROVE  TypeOK'
<1> USE DEF mapVars, chanVars, taskVars, metricVars, consVars, workerVars, cancelVars
<1>ty. TypeOK /\ HeldOffsets
  BY DEF TypeInv
<1>r. router \in RouterState
  BY <1>ty DEF TypeOK
<1>a. AfterSend \in RouterState
  BY <1>r DEF AfterSend, IdleRouter, RouterState
<1>1. ASSUME NEW r \in RequestIds, RouterPoll(r) PROVE TypeOK'
  <2>1. position[r] + 1 \in Nat /\ events \in [RequestIds -> Seq(Nat)]
    BY <1>ty DEF TypeOK
  <2>2. position' \in [RequestIds -> Nat]
    BY <1>1, <1>ty, <2>1, ExceptTyped DEF TypeOK, RouterPoll
  <2>3. events' \in [RequestIds -> Seq(Nat)]
    <3>1. record_event(r, position[r] + 1) \in Seq(Nat)
      BY <2>1 DEF record_event
    <3> QED BY <1>1, <2>1, <3>1, ExceptTyped DEF RouterPoll
  <2>4. router' \in RouterState
    BY <1>1, <2>1 DEF RouterPoll, RouterState
  <2> QED BY <1>1, <1>ty, <2>2, <2>3, <2>4 DEF TypeOK, RouterPoll
<1>2. CASE RouterUpdate
  <2>1. router.id \in RequestIds /\ EventAt(router.id, router.off) \in Event
    BY <1>2, <1>ty DEF TypeOK, HeldOffsets, RouterUpdate, EventAt
  <2>2. records' \in [RequestIds -> Slot]
    <3>1. ApplyEvent(records[router.id], EventAt(router.id, router.off)) \in Slot
      BY <1>ty, <2>1, ApplyEventTyped DEF TypeOK
    <3> QED BY <1>2, <1>ty, <3>1, ExceptTyped DEF TypeOK, RouterUpdate
  <2>3. activeStreams' \in Int /\ cancelledRequests' \in Nat
    BY <1>2, <1>ty DEF TypeOK, RouterUpdate
  <2>4. router' \in RouterState
    BY <1>2, <1>r DEF RouterUpdate, RouterState
  <2> QED BY <1>2, <1>ty, <2>2, <2>3, <2>4 DEF TypeOK, RouterUpdate
<1>3. CASE RouterLookup
  <2>1. registry[router.id] \in Calls \cup {NoCall}
    BY <1>3, <1>ty DEF TypeOK, HeldOffsets, RouterLookup
  <2>2. router' \in RouterState
    BY <1>3, <1>r, <1>a, <2>1 DEF RouterLookup, RouterState
  <2> QED BY <1>3, <1>ty, <2>2 DEF TypeOK, RouterLookup
<1>4. CASE RouterSend
  <2>1. sent' \in [Calls -> Seq(Nat)]
    BY <1>4, <1>ty, <1>r, SendOnTyped DEF RouterSend, RouterState
  <2> QED BY <1>4, <1>ty, <1>a, <2>1 DEF TypeOK, RouterSend
<1>5. CASE RouterUnregister
  <2>1. IdleRouter \in RouterState
    BY DEF IdleRouter, RouterState
  <2> QED BY <1>5, <1>ty, <2>1 DEF TypeOK, RouterUnregister
<1>6. CASE Assign
  <2>1. position' \in [RequestIds -> Nat]
    BY <1>6, <1>ty DEF TypeOK, Assign
  <2> QED BY <1>6, <1>ty, <2>1 DEF TypeOK, Assign
<1> QED BY <1>1, <1>2, <1>3, <1>4, <1>5, <1>6 DEF Router

\* A stray event is one event more, of the job it is about.
LEMMA StrayPublishes ==
    ASSUME GatewayAssumption, TypeOK, NEW c \in Calls, StrayEvent(c)
    PROVE  \E type \in EventTypes, n \in Nat : Publish(c, type, n)
<1>1. call[c].id \in RequestIds /\ topic[call[c].id] \in Seq(Event)
  BY DEF TypeOK
<1>2. \A i \in 1 .. Len(topic[call[c].id]) :
          EventAt(call[c].id, i).seq \in Nat /\ EventAt(call[c].id, i).seq + 1 \in Nat
  <2>1. ASSUME NEW i \in 1 .. Len(topic[call[c].id]) PROVE topic[call[c].id][i] \in Event
    BY <1>1
  <2>2. \A e \in Event : e.seq \in Nat /\ e.seq + 1 \in Nat
    BY DEF Event
  <2> QED BY <2>1, <2>2 DEF EventAt
<1>3. \/ Publish(c, "STARTED", 0)
      \/ \E i \in 1 .. Len(topic[call[c].id]) :
            \/ Publish(c, "TOKEN", EventAt(call[c].id, i).seq + 1)
            \/ \E type \in TerminalTypes : Publish(c, type, EventAt(call[c].id, i).seq)
  <2> DEFINE r == call[c].id
             Progress == {i \in 1 .. Len(topic[r]) : ~IsTerminalAt(r, i)}
  <2>1. \/ Publish(c, "STARTED", 0)
        \/ \E i \in Progress : Publish(c, "TOKEN", EventAt(r, i).seq + 1)
        \/ \E i \in Progress : \E type \in TerminalTypes : Publish(c, type, EventAt(r, i).seq)
    BY DEF StrayEvent
  <2>2. Progress \subseteq 1 .. Len(topic[r])
    OBVIOUS
  <2> HIDE DEF Progress
  <2> QED BY <2>1, <2>2
<1>4. CASE Publish(c, "STARTED", 0)
  BY <1>4 DEF EventTypes
<1>5. ASSUME NEW i \in 1 .. Len(topic[call[c].id]),
             \/ Publish(c, "TOKEN", EventAt(call[c].id, i).seq + 1)
             \/ \E type \in TerminalTypes : Publish(c, type, EventAt(call[c].id, i).seq)
      PROVE  \E type \in EventTypes, n \in Nat : Publish(c, type, n)
  BY <1>2, <1>5 DEF EventTypes
<1> QED BY <1>3, <1>4, <1>5

\* The brokers and the workers.
LEMMA WorkerTyped ==
    ASSUME GatewayAssumption, TypeOK, NEW c \in Calls,
           \/ Deliver(c) \/ Lose(c) \/ Worker(c) \/ WorkerCrash(c) \/ StrayEvent(c)
    PROVE  TypeOK'
<1> USE DEF mapVars, chanVars, taskVars, metricVars, consVars, workerVars, cancelVars
<1>t. /\ call[c].id \in RequestIds /\ topic \in [RequestIds -> Seq(Event)]
      /\ seq[c] \in Nat
  BY DEF TypeOK, GatewayAssumption
<1>p. ASSUME NEW type \in EventTypes, NEW n \in Nat, Publish(c, type, n)
      PROVE  topic' \in [RequestIds -> Seq(Event)]
  <2>1. [type |-> type, seq |-> n] \in Event
    BY DEF Event
  <2>2. Append(topic[call[c].id], [type |-> type, seq |-> n]) \in Seq(Event)
    BY <1>t, <2>1
  <2> QED BY <1>t, <1>p, <2>2, ExceptTyped DEF Publish
<1>1. CASE Deliver(c) \/ Lose(c) \/ WorkerCommit(c) \/ WorkerCrash(c)
  BY <1>1 DEF Deliver, Lose, WorkerCommit, WorkerCrash, TypeOK, JobStates
<1>2. CASE WorkerStart(c)
  <2>1. topic' \in [RequestIds -> Seq(Event)]
    BY <1>2, <1>p DEF WorkerStart, EventTypes
  <2>2. tries[c] + 1 \in 0 .. MaxAttempts /\ 0 \in 0 .. MaxTokens
    BY <1>2 DEF WorkerStart, TypeOK, GatewayAssumption
  <2>3. seq' \in [Calls -> 0 .. MaxTokens] /\ tries' \in [Calls -> 0 .. MaxAttempts]
    BY <1>2, <2>2, ExceptTyped DEF WorkerStart, TypeOK
  <2>4. job' \in [Calls -> JobStates]
    BY <1>2 DEF WorkerStart, TypeOK, JobStates
  <2> QED BY <1>2, <2>1, <2>3, <2>4 DEF TypeOK, WorkerStart
<1>3. CASE WorkerToken(c)
  <2>1. topic' \in [RequestIds -> Seq(Event)]
    BY <1>3, <1>p, <1>t DEF WorkerToken, EventTypes
  <2>2. seq[c] + 1 \in 0 .. MaxTokens
    BY <1>3 DEF WorkerToken, TokensLeft, TypeOK, GatewayAssumption
  <2>3. seq' \in [Calls -> 0 .. MaxTokens]
    BY <1>3, <2>2, ExceptTyped DEF WorkerToken, TypeOK
  <2> QED BY <1>3, <2>1, <2>3 DEF TypeOK, WorkerToken
<1>4. CASE WorkerFinish(c)
  <2>1. topic' \in [RequestIds -> Seq(Event)]
    BY <1>4, <1>p, <1>t DEF WorkerFinish, EventTypes
  <2>2. job' \in [Calls -> JobStates]
    BY <1>4 DEF WorkerFinish, TypeOK, JobStates
  <2> QED BY <1>4, <2>1, <2>2 DEF TypeOK, WorkerFinish
<1>5. CASE StrayEvent(c)
  <2>1. topic' \in [RequestIds -> Seq(Event)]
    BY <1>5, <1>p, StrayPublishes
  <2>2. tries[c] + 1 \in 0 .. MaxAttempts
    BY <1>5 DEF StrayEvent, TypeOK, GatewayAssumption
  <2>3. tries' \in [Calls -> 0 .. MaxAttempts]
    BY <1>5, <2>2, ExceptTyped DEF StrayEvent, TypeOK
  <2> QED BY <1>5, <2>1, <2>3 DEF TypeOK, StrayEvent
<1> QED BY <1>1, <1>2, <1>3, <1>4, <1>5 DEF Worker

\* The gateway process.
LEMMA RestartTyped ==
    ASSUME GatewayAssumption, TypeOK, GatewayRestart
    PROVE  TypeOK'
<1> USE DEF mapVars, chanVars, taskVars, metricVars, consVars, workerVars, cancelVars
<1>1. IdleTask \in TaskState /\ IdleRouter \in RouterState
  BY DEF IdleTask, IdleRouter, TaskState, RouterState
<1>2. pc' \in [Calls -> PCs] /\ job' \in [Calls -> JobStates]
  BY DEF GatewayRestart, TypeOK, PCs, JobStates
<1>3. restarts' \in 0 .. MaxRestarts
  BY DEF GatewayRestart, TypeOK, GatewayAssumption
<1>4. /\ records' \in [RequestIds -> Slot] /\ events' \in [RequestIds -> Seq(Nat)]
      /\ registry' \in [RequestIds -> Calls \cup {NoCall}]
  BY DEF GatewayRestart, Slot
<1>5. task' \in [Calls -> TaskState] /\ router' \in RouterState
  BY <1>1 DEF GatewayRestart
<1>6. snap' \in [Calls -> Seq(Nat)] /\ cancelling' \subseteq RequestIds
  BY DEF GatewayRestart
<1>8. joined' \in BOOLEAN
  BY Zenon DEF GatewayRestart
<1>7. activeStreams' \in Int /\ cancelledRequests' \in Nat
  BY DEF GatewayRestart
<1> QED BY <1>2, <1>3, <1>4, <1>5, <1>6, <1>7, <1>8 DEF GatewayRestart, TypeOK

\* Nothing happens.
LEMMA StutterTyped == ASSUME TypeOK, UNCHANGED vars PROVE TypeOK'
  BY DEF TypeOK, vars, mapVars, chanVars, taskVars, metricVars, consVars, workerVars,
         cancelVars

\* Every step of the system keeps TypeOK.
LEMMA StepTyped == ASSUME GatewayAssumption, TypeInv, [Next]_vars PROVE TypeOK'
<1>1. TypeOK
  BY DEF TypeInv
<1>2. ASSUME NEW c \in Calls,
             \/ SubmitCheck(c) \/ InferInsert(c) \/ Handler(c) \/ DropHandler(c)
             \/ ClientRead(c) \/ StreamEnd(c) \/ Disconnect(c)
      PROVE  TypeOK'
  BY <1>1, <1>2, HandlerTyped
<1>3. ASSUME NEW c \in Calls, Task(c) PROVE TypeOK'
  BY <1>3, TaskTyped
<1>4. ASSUME NEW c \in Calls, \/ Deliver(c) \/ Lose(c) \/ Worker(c) \/ WorkerCrash(c) \/ StrayEvent(c)
      PROVE  TypeOK'
  BY <1>1, <1>4, WorkerTyped
<1>5. ASSUME NEW r \in RequestIds,
             \/ Cancel(r) \/ InferCancel(r) \/ PublishCancel(r) \/ LosePublish(r)
      PROVE  TypeOK'
  BY <1>1, <1>5, CancelTyped
<1>6. CASE Router \/ Assign
  BY <1>6, RouterTyped
<1>7. CASE GatewayRestart
  BY <1>1, <1>7, RestartTyped
<1>8. CASE UNCHANGED vars
  BY <1>1, <1>8, StutterTyped
<1> QED BY <1>2, <1>3, <1>4, <1>5, <1>6, <1>7, <1>8 DEF Next

-----------------------------------------------------------------------------
(* The logs only grow: no step changes an event that is in the topic.      *)

\* A request's log is append-only: no step changes or removes an event that was
\* published before.
LEMMA TopicGrows ==
    ASSUME GatewayAssumption, TypeOK, [Next]_vars, NEW r \in RequestIds
    PROVE  /\ Len(topic[r]) <= Len(topic'[r])
           /\ \A i \in 1 .. Len(topic[r]) : topic'[r][i] = topic[r][i]
<1> USE DEF mapVars, chanVars, taskVars, metricVars, consVars, workerVars, cancelVars
<1>1. topic \in [RequestIds -> Seq(Event)]
  BY DEF TypeOK
<1>2. CASE topic' = topic
  BY <1>1, <1>2
<1>3. ASSUME NEW c \in Calls, NEW type \in EventTypes, NEW n \in Nat, Publish(c, type, n)
      PROVE  /\ Len(topic[r]) <= Len(topic'[r])
             /\ \A i \in 1 .. Len(topic[r]) : topic'[r][i] = topic[r][i]
  <2>1. [type |-> type, seq |-> n] \in Event
    BY DEF Event
  <2>2. \/ topic'[r] = topic[r]
        \/ topic'[r] = Append(topic[r], [type |-> type, seq |-> n])
    BY <1>1, <1>3 DEF Publish
  <2> QED BY <1>1, <2>1, <2>2
<1>4. \/ topic' = topic
      \/ \E c \in Calls, type \in EventTypes, n \in Nat : Publish(c, type, n)
  <2>1. ASSUME NEW c \in Calls, WorkerStart(c) \/ WorkerToken(c) \/ WorkerFinish(c)
        PROVE  \E type \in EventTypes, n \in Nat : Publish(c, type, n)
    <3>1. seq[c] \in Nat /\ seq[c] + 1 \in Nat
      BY DEF TypeOK, GatewayAssumption
    <3>2. CASE WorkerStart(c)
      <4>1. Publish(c, "STARTED", 0)
        BY <3>2 DEF WorkerStart
      <4> QED BY <4>1 DEF EventTypes
    <3>3. CASE WorkerToken(c)
      <4>1. Publish(c, "TOKEN", seq[c] + 1)
        BY <3>3 DEF WorkerToken
      <4> QED BY <3>1, <4>1 DEF EventTypes
    <3>4. CASE WorkerFinish(c)
      <4>1. PICK type \in TerminalTypes : Publish(c, type, seq[c])
        BY <3>4 DEF WorkerFinish
      <4> QED BY <3>1, <4>1 DEF EventTypes
    <3> QED BY <2>1, <3>2, <3>3, <3>4
  <2>2. ASSUME NEW c \in Calls, Deliver(c) \/ Lose(c) \/ WorkerCommit(c) \/ WorkerCrash(c)
        PROVE  topic' = topic
    BY <2>2 DEF Deliver, Lose, WorkerCommit, WorkerCrash
  <2>3. ASSUME NEW c \in Calls, SubmitCheck(c) \/ InferInsert(c) \/ DropHandler(c)
                                \/ ClientRead(c) \/ StreamEnd(c) \/ Disconnect(c)
        PROVE  topic' = topic
    BY <2>3 DEF SubmitCheck, InferInsert, InsertRecord, DropHandler, ClientRead, StreamEnd,
                Disconnect
  <2>4. ASSUME NEW c \in Calls, Handler(c) PROVE topic' = topic
    BY <2>4 DEF Handler, SubmitInsert, InsertRecord, RegisterCheck, FinishConflict,
                RegisterInsert, ProduceAck, ProduceError, EnqueueUnregister, EnqueueFinish,
                ReplayLookup, Snapshot
  <2>5. ASSUME NEW c \in Calls, Task(c) PROVE topic' = topic
    BY <2>5 DEF Task, TaskLookup, TaskSend, TaskFinish
  <2>6. ASSUME NEW q \in RequestIds,
               Cancel(q) \/ InferCancel(q) \/ PublishCancel(q) \/ LosePublish(q)
        PROVE  topic' = topic
    BY <2>6 DEF Cancel, InferCancel, AcceptCancel, PublishCancel, LosePublish
  <2>7. CASE Router \/ Assign \/ GatewayRestart \/ UNCHANGED vars
    BY <2>7 DEF Router, RouterPoll, RouterUpdate, RouterLookup, RouterSend,
                RouterUnregister, Assign, GatewayRestart, vars
  <2>8. ASSUME NEW c \in Calls, StrayEvent(c)
        PROVE  \E type \in EventTypes, n \in Nat : Publish(c, type, n)
    BY <2>8, StrayPublishes
  <2> QED BY <2>1, <2>2, <2>3, <2>4, <2>5, <2>6, <2>7, <2>8 DEF Next, Worker
<1> QED BY <1>2, <1>3, <1>4

-----------------------------------------------------------------------------
(* Which steps change the router, the replay tasks, the event cache and the *)
(* records: the cases of the invariance proofs below.                       *)

\* The only steps that touch a replay task or its copy of the events.
LEMMA TaskSteps ==
    ASSUME [Next]_vars
    PROVE  \/ task' = task /\ snap' = snap
           \/ \E c \in Calls : Snapshot(c) \/ Task(c)
           \/ GatewayRestart
<1> USE DEF taskVars
<1>1. ASSUME NEW c \in Calls,
             \/ SubmitCheck(c) \/ InferInsert(c) \/ DropHandler(c) \/ ClientRead(c)
             \/ StreamEnd(c) \/ Disconnect(c)
      PROVE  task' = task /\ snap' = snap
  BY <1>1 DEF SubmitCheck, InferInsert, InsertRecord, DropHandler, ClientRead, StreamEnd,
              Disconnect
<1>2. ASSUME NEW c \in Calls, Handler(c)
      PROVE  (task' = task /\ snap' = snap) \/ Snapshot(c)
  BY <1>2 DEF Handler, SubmitInsert, InsertRecord, RegisterCheck, FinishConflict,
              RegisterInsert, ProduceAck, ProduceError, EnqueueUnregister, EnqueueFinish,
              ReplayLookup
<1>3. ASSUME NEW c \in Calls, Deliver(c) \/ Lose(c) \/ Worker(c) \/ WorkerCrash(c) \/ StrayEvent(c)
      PROVE  task' = task /\ snap' = snap
  BY <1>3 DEF Deliver, Lose, Worker, WorkerStart, WorkerToken, WorkerFinish, WorkerCommit,
              WorkerCrash, StrayEvent
<1>4. ASSUME NEW r \in RequestIds,
             Cancel(r) \/ InferCancel(r) \/ PublishCancel(r) \/ LosePublish(r)
      PROVE  task' = task /\ snap' = snap
  BY <1>4 DEF Cancel, InferCancel, AcceptCancel, PublishCancel, LosePublish
<1>5. CASE Router \/ Assign \/ UNCHANGED vars
  BY <1>5 DEF Router, RouterPoll, RouterUpdate, RouterLookup, RouterSend, RouterUnregister,
              Assign, vars
<1> QED BY <1>1, <1>2, <1>3, <1>4, <1>5 DEF Next

\* The only steps that touch the router, the event cache or the consumer.
LEMMA RouterSteps ==
    ASSUME [Next]_vars
    PROVE  \/ router' = router /\ events' = events
           \/ \E r \in RequestIds : RouterPoll(r)
           \/ RouterUpdate \/ RouterLookup \/ RouterSend \/ RouterUnregister
           \/ GatewayRestart
<1> USE DEF mapVars
<1>1. ASSUME NEW c \in Calls,
             \/ SubmitCheck(c) \/ InferInsert(c) \/ DropHandler(c) \/ ClientRead(c)
             \/ StreamEnd(c) \/ Disconnect(c)
      PROVE  router' = router /\ events' = events
  BY <1>1 DEF SubmitCheck, InferInsert, InsertRecord, DropHandler, ClientRead, StreamEnd,
              Disconnect
<1>2. ASSUME NEW c \in Calls, Handler(c)
      PROVE  router' = router /\ events' = events
  BY <1>2 DEF Handler, SubmitInsert, InsertRecord, RegisterCheck, FinishConflict,
              RegisterInsert, ProduceAck, ProduceError, EnqueueUnregister, EnqueueFinish,
              ReplayLookup, Snapshot
<1>3. ASSUME NEW c \in Calls, Task(c) PROVE router' = router /\ events' = events
  BY <1>3 DEF Task, TaskLookup, TaskSend, TaskFinish
<1>4. ASSUME NEW c \in Calls, Deliver(c) \/ Lose(c) \/ Worker(c) \/ WorkerCrash(c) \/ StrayEvent(c)
      PROVE  router' = router /\ events' = events
  BY <1>4 DEF Deliver, Lose, Worker, WorkerStart, WorkerToken, WorkerFinish, WorkerCommit,
              WorkerCrash, StrayEvent
<1>5. ASSUME NEW r \in RequestIds,
             Cancel(r) \/ InferCancel(r) \/ PublishCancel(r) \/ LosePublish(r)
      PROVE  router' = router /\ events' = events
  BY <1>5 DEF Cancel, InferCancel, AcceptCancel, PublishCancel, LosePublish
<1>6. CASE Assign \/ UNCHANGED vars
  BY <1>6 DEF Assign, vars
<1> QED BY <1>1, <1>2, <1>3, <1>4, <1>5, <1>6 DEF Next, Router

\* The only steps that touch the request records.
LEMMA RecordSteps ==
    ASSUME [Next]_vars
    PROVE  \/ records' = records
           \/ \E c \in Calls : InsertRecord(c) \/ FailAndDec(c)
           \/ \E r \in RequestIds : AcceptCancel(r)
           \/ RouterUpdate
           \/ GatewayRestart
<1> USE DEF mapVars
<1>1. ASSUME NEW c \in Calls,
             \/ SubmitCheck(c) \/ DropHandler(c) \/ ClientRead(c) \/ StreamEnd(c)
             \/ Disconnect(c) \/ Task(c)
      PROVE  records' = records
  BY <1>1 DEF SubmitCheck, DropHandler, ClientRead, StreamEnd, Disconnect, Task, TaskLookup,
              TaskSend, TaskFinish
<1>2. ASSUME NEW c \in Calls, InferInsert(c) \/ Handler(c)
      PROVE  records' = records \/ InsertRecord(c) \/ FailAndDec(c)
  BY <1>2 DEF InferInsert, Handler, SubmitInsert, RegisterCheck, FinishConflict,
              RegisterInsert, ProduceAck, ProduceError, EnqueueUnregister, EnqueueFinish,
              ReplayLookup, Snapshot
<1>3. ASSUME NEW c \in Calls, Deliver(c) \/ Lose(c) \/ Worker(c) \/ WorkerCrash(c) \/ StrayEvent(c)
      PROVE  records' = records
  BY <1>3 DEF Deliver, Lose, Worker, WorkerStart, WorkerToken, WorkerFinish, WorkerCommit,
              WorkerCrash, StrayEvent
<1>4. ASSUME NEW r \in RequestIds,
             Cancel(r) \/ InferCancel(r) \/ PublishCancel(r) \/ LosePublish(r)
      PROVE  records' = records \/ AcceptCancel(r)
  BY <1>4 DEF Cancel, InferCancel, PublishCancel, LosePublish
<1>5. CASE Router \/ Assign \/ UNCHANGED vars
  BY <1>5 DEF Router, RouterPoll, RouterLookup, RouterSend, RouterUnregister, Assign, vars
<1> QED BY <1>1, <1>2, <1>3, <1>4, <1>5 DEF Next

-----------------------------------------------------------------------------
(* Type correctness                                                        *)

\* What the router and the replay tasks hold across an await stays valid.
LEMMA HeldOffsetsKept ==
    ASSUME GatewayAssumption, TypeInv, [Next]_vars
    PROVE  HeldOffsets'
<1>ty. TypeOK /\ HeldOffsets /\ TypeOK'
  BY StepTyped DEF TypeInv
<1>1. ASSUME NEW d \in Calls, task'[d].pc = "sending"
      PROVE  task'[d].pos < Len(snap'[d])
  <2>t. task \in [Calls -> TaskState] /\ snap \in [Calls -> Seq(Nat)]
    BY <1>ty DEF TypeOK
  <2>1. CASE task' = task /\ snap' = snap
    BY <1>1, <1>ty, <2>1 DEF HeldOffsets
  <2>2. ASSUME NEW c \in Calls, Snapshot(c) PROVE task'[d].pos < Len(snap'[d])
    <3>1. c # d
      BY <1>1, <2>2, <2>t DEF Snapshot, TaskState
    <3> QED BY <1>1, <1>ty, <2>2, <2>t, <3>1 DEF Snapshot, HeldOffsets
  <2>3. ASSUME NEW c \in Calls, TaskLookup(c) PROVE task'[d].pos < Len(snap'[d])
    <3>1. CASE c = d
      <4>1. task[c].pos < Len(snap[c]) /\ snap' = snap
        BY <2>3 DEF TaskLookup
      <4>2. task'[c].pos = task[c].pos
        BY <1>1, <2>3, <2>t, <3>1 DEF TaskLookup, TaskState
      <4> QED BY <3>1, <4>1, <4>2
    <3>2. CASE c # d
      BY <1>1, <1>ty, <2>3, <2>t, <3>2 DEF TaskLookup, HeldOffsets
    <3> QED BY <3>1, <3>2
  <2>4. ASSUME NEW c \in Calls, TaskSend(c) \/ TaskFinish(c)
        PROVE  task'[d].pos < Len(snap'[d])
    <3>1. c # d
      BY <1>1, <2>4, <2>t DEF TaskSend, TaskFinish, IdleTask, TaskState
    <3> QED BY <1>1, <1>ty, <2>4, <2>t, <3>1 DEF TaskSend, TaskFinish, HeldOffsets
  <2>5. CASE GatewayRestart
    BY <1>1, <2>5 DEF GatewayRestart, IdleTask
  <2> QED BY <2>1, <2>2, <2>3, <2>4, <2>5, TaskSteps DEF Task
<1>2. ASSUME router'.pc # "poll"
      PROVE  router'.id \in RequestIds /\ router'.off \in 1 .. Len(topic'[router'.id])
  <2>t. router \in RouterState /\ topic \in [RequestIds -> Seq(Event)]
    BY <1>ty DEF TypeOK
  <2>g. ASSUME NEW r \in RequestIds, NEW off \in 1 .. Len(topic[r])
        PROVE  off \in 1 .. Len(topic'[r])
    <3>1. topic'[r] \in Seq(Event) /\ topic[r] \in Seq(Event)
      BY <1>ty DEF TypeOK
    <3> QED BY <1>ty, <3>1, TopicGrows
  <2>1. CASE router'.id = router.id /\ router'.off = router.off /\ router.pc # "poll"
    BY <1>ty, <2>1, <2>g DEF HeldOffsets
  <2>2. ASSUME NEW r \in RequestIds, RouterPoll(r)
        PROVE  router'.id \in RequestIds /\ router'.off \in 1 .. Len(topic'[router'.id])
    <3>1. position[r] \in Nat /\ Len(topic[r]) \in Nat
      BY <1>ty DEF TypeOK
    <3>2. position[r] + 1 \in 1 .. Len(topic[r])
      BY <2>2, <3>1 DEF RouterPoll
    <3>3. router'.id = r /\ router'.off = position[r] + 1
      BY <2>2 DEF RouterPoll
    <3> QED BY <2>g, <3>2, <3>3
  <2>3. CASE RouterUpdate
    <3>1. router'.id = router.id /\ router'.off = router.off /\ router.pc # "poll"
      BY <2>3, <2>t DEF RouterUpdate, RouterState
    <3> QED BY <2>1, <3>1
  <2>4. CASE RouterLookup \/ RouterSend
    <3>1. router.pc # "poll"
      BY <2>4 DEF RouterLookup, RouterSend
    <3>2. CASE router' = AfterSend
      <4>1. AfterSend # IdleRouter
        BY <1>2, <3>2 DEF IdleRouter
      <4>2. router' = [router EXCEPT !.pc = "unregister", !.chan = NoCall]
        BY <3>2, <4>1 DEF AfterSend
      <4>3. router'.id = router.id /\ router'.off = router.off
        BY <2>t, <4>2 DEF RouterState
      <4> QED BY <2>1, <3>1, <4>3
    <3>3. CASE router' = [router EXCEPT !.pc = "send", !.chan = registry[router.id]]
      <4>1. router'.id = router.id /\ router'.off = router.off
        BY <2>t, <3>3 DEF RouterState
      <4> QED BY <2>1, <3>1, <4>1
    <3> QED BY <2>4, <3>2, <3>3 DEF RouterLookup, RouterSend
  <2>5. CASE RouterUnregister \/ GatewayRestart
    BY <1>2, <2>5 DEF RouterUnregister, GatewayRestart, IdleRouter
  <2>6. CASE router' = router
    BY <1>2, <2>1, <2>6
  <2> QED BY <2>2, <2>3, <2>4, <2>5, <2>6, RouterSteps
<1> QED BY <1>1, <1>2 DEF HeldOffsets

\* The typing invariant holds initially ...
LEMMA TypeInvInitially == ASSUME GatewayAssumption, Init PROVE TypeInv
<1>1. HeldOffsets
  BY DEF Init, HeldOffsets, IdleTask, IdleRouter
<1> QED BY <1>1, InitTyped DEF TypeInv

\* ... and is inductive.
LEMMA TypeInvKept == ASSUME GatewayAssumption, TypeInv, [Next]_vars PROVE TypeInv'
  BY StepTyped, HeldOffsetsKept DEF TypeInv

\* Every reachable state is well typed, and neither the replay task nor the
\* router ever indexes a sequence outside its bounds after an await.
THEOREM TypeCorrect == Spec => [](TypeOK /\ HeldOffsets)
<1>1. Init => TypeInv
  BY GatewayAssumption, TypeInvInitially
<1>2. TypeInv /\ [Next]_vars => TypeInv'
  BY GatewayAssumption, TypeInvKept
<1>3. TypeInv => TypeOK /\ HeldOffsets
  BY DEF TypeInv
<1> QED BY <1>1, <1>2, <1>3, PTL DEF Spec

-----------------------------------------------------------------------------
(* The event cache backs the records.                                      *)
(*                                                                         *)
(* route_one caches an event before it applies it, so the inductive step   *)
(* needs that the event the router is about to apply is in the cache       *)
(* (Applying), that cached offsets are offsets of the log (Cached), and    *)
(* that neither log ever loses or changes an entry.                        *)

\* StatusBackedByLog for one record, one event cache and one log.
Backed(rec, evs, log) ==
    /\ rec.status = "Completed" => \E i \in 1 .. Len(evs) : log[evs[i]].type = "COMPLETED"
    /\ rec.status = "Running" => evs # <<>>
    /\ rec.emitted_tokens > 0 =>
          \E i \in 1 .. Len(evs) : log[evs[i]].seq = rec.emitted_tokens

\* StatusBackedByLog, stated record by record.
LEMMA BackedEach ==
    StatusBackedByLog <=> \A r \in RequestIds : Backed(records[r], events[r], topic[r])
  BY DEF StatusBackedByLog, Backed, LoggedAt, EventAt

\* A longer cache of a longer log backs what the shorter ones back.
LEMMA BackedGrows ==
    ASSUME NEW rec, NEW evs \in Seq(Nat), NEW evs2 \in Seq(Nat),
           NEW log \in Seq(Event), NEW log2 \in Seq(Event),
           Backed(rec, evs, log),
           Len(evs) <= Len(evs2), \A i \in 1 .. Len(evs) : evs2[i] = evs[i],
           \A i \in 1 .. Len(evs) : evs[i] \in 1 .. Len(log),
           \A i \in 1 .. Len(log) : log2[i] = log[i]
    PROVE  Backed(rec, evs2, log2)
<1>1. \A i \in 1 .. Len(evs) : i \in 1 .. Len(evs2) /\ log2[evs2[i]] = log[evs[i]]
  OBVIOUS
<1>2. evs # <<>> => evs2 # <<>>
  OBVIOUS
<1> QED BY <1>1, <1>2 DEF Backed

\* Applying a cached event to a backed record leaves it backed.
LEMMA BackedApplied ==
    ASSUME NEW rec \in Slot, NEW evs \in Seq(Nat), NEW log \in Seq(Event),
           NEW i \in 1 .. Len(evs), log[evs[i]] \in Event,
           Backed(rec, evs, log)
    PROVE  Backed(ApplyEvent(rec, log[evs[i]]), evs, log)
<1> DEFINE ev == log[evs[i]]
<1>0. evs # <<>>
  OBVIOUS
<1>1. CASE rec = NoRecord
  BY <1>1 DEF ApplyEvent, update, Present, NoRecord
<1>2. CASE rec \in RequestRecord
  <2>1. Backed(mark_running(rec), evs, log)
    BY <1>0, <1>2 DEF Backed, mark_running, RequestRecord
  <2>2. Backed(finish_failed(rec), evs, log) /\ Backed(finish_cancelled(rec), evs, log)
    BY <1>2 DEF Backed, finish_failed, finish_cancelled, RequestRecord
  <2>3. MaxOf(rec.emitted_tokens, ev.seq) \in {rec.emitted_tokens, ev.seq}
    BY DEF MaxOf
  <2>4. Backed(note_token(rec, ev.seq), evs, log)
    BY <1>0, <1>2, <2>3 DEF Backed, note_token, RequestRecord
  <2>5. ev.type = "COMPLETED" => Backed(finish_completed(rec, ev.seq), evs, log)
    BY <1>2, <2>3 DEF Backed, finish_completed, RequestRecord
  <2> QED
    BY <1>2, <2>1, <2>2, <2>4, <2>5 DEF ApplyEvent, update, Event, EventTypes, TerminalTypes
<1> QED BY <1>1, <1>2 DEF Slot

\* So do the handlers' own updates.
LEMMA BackedByHandlers ==
    ASSUME NEW rec \in Slot, NEW evs \in Seq(Nat), NEW log, Backed(rec, evs, log)
    PROVE  /\ Backed(queued, evs, log)
           /\ Backed(NoRecord, evs, log)
           /\ Backed(update(rec, finish_failed(rec)), evs, log)
           /\ accepts_cancel(rec) => Backed(cancel(rec), evs, log)
<1>1. Backed(queued, evs, log) /\ Backed(NoRecord, evs, log)
  BY DEF Backed, queued, NoRecord
<1>2. CASE rec = NoRecord
  BY <1>1, <1>2 DEF update, Present, NoRecord, accepts_cancel, IsActive
<1>3. CASE rec \in RequestRecord
  BY <1>1, <1>3 DEF Backed, update, finish_failed, cancel, RequestRecord
<1> QED BY <1>1, <1>2, <1>3 DEF Slot

Cached == \A r \in RequestIds : \A i \in 1 .. Len(events[r]) : events[r][i] \in 1 .. Len(topic[r])

Applying ==
    router.pc = "update" =>
        \E i \in 1 .. Len(events[router.id]) : events[router.id][i] = router.off

BackedInv == TypeInv /\ Cached /\ Applying /\ StatusBackedByLog

\* What a poll does to the cache.
LEMMA PollCaches ==
    ASSUME TypeOK, NEW r \in RequestIds, RouterPoll(r)
    PROVE  /\ position[r] + 1 \in 1 .. Len(topic[r])
           /\ events'[r] = Append(events[r], position[r] + 1)
           /\ \A q \in RequestIds \ {r} : events'[q] = events[q]
           /\ records' = records
<1>1. position[r] \in Nat /\ topic[r] \in Seq(Event) /\ events \in [RequestIds -> Seq(Nat)]
  BY DEF TypeOK
<1>2. position[r] + 1 <= Len(topic[r])
  BY DEF RouterPoll
<1> QED BY <1>1, <1>2 DEF RouterPoll, record_event

\* Unless the process restarts, a request's event cache only grows.
LEMMA CacheGrows ==
    ASSUME TypeOK, [Next]_vars, ~GatewayRestart, NEW r \in RequestIds
    PROVE  /\ Len(events[r]) <= Len(events'[r])
           /\ \A i \in 1 .. Len(events[r]) : events'[r][i] = events[r][i]
<1>1. events[r] \in Seq(Nat)
  BY DEF TypeOK
<1>2. CASE events'[r] = events[r]
  BY <1>1, <1>2
<1>3. ASSUME NEW n \in Nat, events'[r] = Append(events[r], n)
      PROVE  /\ Len(events[r]) <= Len(events'[r])
             /\ \A i \in 1 .. Len(events[r]) : events'[r][i] = events[r][i]
  BY <1>1, <1>3
<1>4. ASSUME NEW q \in RequestIds, RouterPoll(q)
      PROVE  events'[r] = events[r] \/ \E n \in Nat : events'[r] = Append(events[r], n)
  BY <1>4, PollCaches
<1>5. RouterUpdate \/ RouterLookup \/ RouterSend \/ RouterUnregister => events' = events
  BY DEF RouterUpdate, RouterLookup, RouterSend, RouterUnregister, mapVars
<1> QED BY <1>2, <1>3, <1>4, <1>5, RouterSteps

\* The cache keeps pointing into the log: record_event appends an offset it polled.
LEMMA CachedKept == ASSUME GatewayAssumption, BackedInv, [Next]_vars PROVE Cached'
<1>ty. TypeOK /\ TypeOK' /\ Cached
  BY StepTyped DEF BackedInv, TypeInv
<1> SUFFICES ASSUME NEW r \in RequestIds, NEW i \in 1 .. Len(events'[r])
             PROVE  events'[r][i] \in 1 .. Len(topic'[r])
  BY DEF Cached
<1>l. /\ topic[r] \in Seq(Event) /\ topic'[r] \in Seq(Event)
      /\ Len(topic[r]) <= Len(topic'[r])
  BY <1>ty, TopicGrows DEF TypeOK
<1>1. CASE events'[r] = events[r]
  <2>1. events[r][i] \in 1 .. Len(topic[r])
    BY <1>ty, <1>1 DEF Cached
  <2> QED BY <1>1, <1>l, <2>1
<1>2. CASE RouterPoll(r)
  <2>1. /\ events[r] \in Seq(Nat) /\ position[r] + 1 \in 1 .. Len(topic[r])
        /\ events'[r] = Append(events[r], position[r] + 1)
    BY <1>2, <1>ty, PollCaches DEF TypeOK
  <2>2. CASE i \in 1 .. Len(events[r])
    <3>1. events'[r][i] = events[r][i] /\ events[r][i] \in 1 .. Len(topic[r])
      BY <1>ty, <2>1, <2>2 DEF Cached
    <3> QED BY <1>l, <3>1
  <2>3. CASE i = Len(events[r]) + 1
    <3>1. events'[r][i] = position[r] + 1
      BY <2>1, <2>3
    <3> QED BY <1>l, <2>1, <3>1
  <2> QED BY <2>1, <2>2, <2>3
<1>3. ASSUME NEW q \in RequestIds, RouterPoll(q), q # r PROVE events'[r] = events[r]
  BY <1>3, <1>ty, PollCaches
<1>4. RouterUpdate \/ RouterLookup \/ RouterSend \/ RouterUnregister => events' = events
  BY DEF RouterUpdate, RouterLookup, RouterSend, RouterUnregister, mapVars
<1>5. CASE GatewayRestart
  BY <1>5 DEF GatewayRestart
<1> QED BY <1>1, <1>2, <1>3, <1>4, <1>5, RouterSteps

\* Between record_event and the record's update the event stays cached.
LEMMA ApplyingKept == ASSUME GatewayAssumption, BackedInv, [Next]_vars PROVE Applying'
<1>ty. TypeOK /\ Applying /\ router \in RouterState
  BY DEF BackedInv, TypeInv, TypeOK
<1> SUFFICES ASSUME router'.pc = "update"
             PROVE  \E i \in 1 .. Len(events'[router'.id]) : events'[router'.id][i] = router'.off
  BY DEF Applying
<1>1. CASE router' = router /\ events' = events
  BY <1>1, <1>ty DEF Applying
<1>2. ASSUME NEW r \in RequestIds, RouterPoll(r)
      PROVE  \E i \in 1 .. Len(events'[router'.id]) : events'[router'.id][i] = router'.off
  <2>1. router'.id = r /\ router'.off = position[r] + 1 /\ events[r] \in Seq(Nat)
    BY <1>2, <1>ty DEF RouterPoll, TypeOK
  <2>2. position[r] + 1 \in Nat /\ events'[r] = Append(events[r], position[r] + 1)
    BY <1>2, <1>ty, PollCaches
  <2>3. /\ Len(events[r]) + 1 \in 1 .. Len(events'[r])
        /\ events'[r][Len(events[r]) + 1] = position[r] + 1
    BY <2>1, <2>2
  <2> QED BY <2>1, <2>3
<1>3. CASE RouterUpdate \/ RouterLookup \/ RouterSend \/ RouterUnregister
  <2>1. AfterSend.pc # "update" /\ IdleRouter.pc # "update"
    BY <1>ty DEF AfterSend, IdleRouter, RouterState
  <2>2. CASE RouterUpdate \/ RouterUnregister
    BY <1>ty, <2>1, <2>2 DEF RouterUpdate, RouterUnregister, RouterState
  <2>3. CASE RouterLookup \/ RouterSend
    BY <1>ty, <2>1, <2>3 DEF RouterLookup, RouterSend, RouterState
  <2> QED BY <1>3, <2>2, <2>3
<1>4. CASE GatewayRestart
  BY <1>4 DEF GatewayRestart, IdleRouter
<1> QED BY <1>1, <1>2, <1>3, <1>4, RouterSteps

\* Each writer of a record leaves it backed: insert and finish_failed by claiming
\* nothing new, cancel by keeping the count, the router by the event it cached.
LEMMA BackedKept == ASSUME GatewayAssumption, BackedInv, [Next]_vars PROVE StatusBackedByLog'
<1>ty. TypeOK /\ TypeOK' /\ TypeInv /\ Cached /\ Applying /\ StatusBackedByLog
  BY StepTyped DEF BackedInv, TypeInv
<1> SUFFICES ASSUME NEW r \in RequestIds
             PROVE  Backed(records'[r], events'[r], topic'[r])
  BY DEF StatusBackedByLog, Backed, LoggedAt, EventAt
<1>t. /\ records[r] \in Slot /\ records \in [RequestIds -> Slot]
      /\ events[r] \in Seq(Nat) /\ events'[r] \in Seq(Nat)
      /\ topic[r] \in Seq(Event) /\ topic'[r] \in Seq(Event)
  BY <1>ty DEF TypeOK
<1>b. Backed(records[r], events[r], topic[r])
  BY <1>ty, BackedEach
<1>c. \A i \in 1 .. Len(events[r]) : events[r][i] \in 1 .. Len(topic[r])
  BY <1>ty DEF Cached
<1>1. CASE GatewayRestart
  <2>1. records'[r] = NoRecord
    BY <1>1 DEF GatewayRestart
  <2> QED BY <2>1 DEF Backed, NoRecord
<1>2. CASE ~GatewayRestart
  <2>1. /\ Len(events[r]) <= Len(events'[r])
        /\ \A i \in 1 .. Len(events[r]) : events'[r][i] = events[r][i]
        /\ \A i \in 1 .. Len(topic[r]) : topic'[r][i] = topic[r][i]
    BY <1>2, <1>ty, CacheGrows, TopicGrows
  <2>g. ASSUME NEW rec, Backed(rec, events[r], topic[r])
        PROVE  Backed(rec, events'[r], topic'[r])
    BY <1>t, <1>c, <2>1, <2>g, BackedGrows
  <2>2. Backed(records'[r], events[r], topic[r])
    <3>1. CASE records'[r] = records[r]
      BY <1>b, <3>1
    <3>2. ASSUME NEW c \in Calls, InsertRecord(c)
          PROVE  records'[r] = records[r] \/ records'[r] = queued
      BY <1>t, <3>2 DEF InsertRecord
    <3>3. ASSUME NEW c \in Calls, FailAndDec(c)
          PROVE  records'[r] \in {records[r], update(records[r], finish_failed(records[r]))}
      BY <1>t, <3>3 DEF FailAndDec
    <3>4. ASSUME NEW q \in RequestIds, AcceptCancel(q)
          PROVE  \/ records'[r] = records[r]
                 \/ accepts_cancel(records[r]) /\ records'[r] = cancel(records[r])
      BY <1>t, <3>4 DEF AcceptCancel
    <3>5. CASE RouterUpdate
      <4>1. CASE router.id = r
        <5>1. PICK i \in 1 .. Len(events[r]) : events[r][i] = router.off
          BY <1>ty, <3>5, <4>1 DEF Applying, RouterUpdate
        <5>2. topic[r][events[r][i]] \in Event
          BY <1>t, <1>c
        <5>3. records'[r] = ApplyEvent(records[r], topic[r][events[r][i]])
          BY <1>t, <3>5, <4>1, <5>1 DEF RouterUpdate, EventAt
        <5> QED BY <1>t, <1>b, <5>2, <5>3, BackedApplied
      <4>2. CASE router.id # r
        BY <1>t, <3>1, <3>5, <4>2 DEF RouterUpdate
      <4> QED BY <4>1, <4>2
    <3> QED
      BY <1>t, <1>b, <1>2, <3>1, <3>2, <3>3, <3>4, <3>5, BackedByHandlers, RecordSteps
  <2> QED BY <2>g, <2>2
<1> QED BY <1>1, <1>2

\* For any clients, faults and bounds: what get_status reports is backed by the
\* event cache a replay would read, whatever runs between the router's two
\* map updates.
THEOREM StatusIsBackedByLog == Spec => []StatusBackedByLog
<1>1. Init => BackedInv
  <2>1. ASSUME Init PROVE Cached /\ Applying /\ StatusBackedByLog
    BY <2>1 DEF Init, Cached, Applying, StatusBackedByLog, IdleRouter, NoRecord
  <2> QED BY <2>1, GatewayAssumption, TypeInvInitially DEF BackedInv
<1>2. BackedInv /\ [Next]_vars => BackedInv'
  BY GatewayAssumption, TypeInvKept, CachedKept, ApplyingKept, BackedKept DEF BackedInv
<1>3. BackedInv => StatusBackedByLog
  BY DEF BackedInv
<1> QED BY <1>1, <1>2, <1>3, PTL DEF Spec

-----------------------------------------------------------------------------
(* The polled token count is monotone.                                     *)

\* No event lowers a record's token count: note_token and finish_completed take
\* the larger of the two.
LEMMA ApplyEventMonotone ==
    ASSUME NEW rec \in Slot, NEW ev \in Event
    PROVE  ApplyEvent(rec, ev).emitted_tokens >= rec.emitted_tokens
<1>1. CASE rec = NoRecord
  BY <1>1 DEF ApplyEvent, update, Present, NoRecord
<1>2. CASE rec \in RequestRecord
  <2>1. ev.seq \in Nat /\ rec.emitted_tokens \in Nat
    BY <1>2 DEF Event, RequestRecord
  <2>2. /\ note_token(rec, ev.seq).emitted_tokens >= rec.emitted_tokens
        /\ finish_completed(rec, ev.seq).emitted_tokens >= rec.emitted_tokens
    BY <1>2, <2>1 DEF note_token, finish_completed, MaxOf, RequestRecord
  <2>3. /\ mark_running(rec).emitted_tokens = rec.emitted_tokens
        /\ finish_failed(rec).emitted_tokens = rec.emitted_tokens
        /\ finish_cancelled(rec).emitted_tokens = rec.emitted_tokens
    BY <1>2 DEF mark_running, finish_failed, finish_cancelled, RequestRecord
  <2> QED
    BY <2>1, <2>2, <2>3 DEF ApplyEvent, update, Event, EventTypes, TerminalTypes
<1> QED BY <1>1, <1>2 DEF Slot

\* No step lowers the token count of a record it does not replace.
LEMMA StepMonotone ==
    ASSUME GatewayAssumption, TypeInv, [Next]_vars, NEW r \in RequestIds
    PROVE  \/ records'[r].emitted_tokens >= records[r].emitted_tokens
           \/ records'[r] = queued
           \/ restarts' # restarts
<1>ty. TypeOK /\ HeldOffsets
  BY DEF TypeInv
<1>t. records[r] \in Slot /\ records \in [RequestIds -> Slot]
  BY <1>ty DEF TypeOK
<1>n. records[r].emitted_tokens \in Nat
  BY <1>t DEF Slot, RequestRecord, NoRecord
<1>1. CASE records'[r] = records[r]
  BY <1>n, <1>1
<1>2. ASSUME NEW c \in Calls, InsertRecord(c)
      PROVE  records'[r] = records[r] \/ records'[r] = queued
  BY <1>t, <1>2 DEF InsertRecord
<1>k. /\ update(records[r], finish_failed(records[r])).emitted_tokens = records[r].emitted_tokens
      /\ cancel(records[r]).emitted_tokens = records[r].emitted_tokens
  BY <1>t DEF update, finish_failed, cancel, Slot, RequestRecord, NoRecord
<1>3. ASSUME NEW c \in Calls, FailAndDec(c)
      PROVE  records'[r] \in {records[r], update(records[r], finish_failed(records[r]))}
  BY <1>t, <1>3 DEF FailAndDec
<1>4. ASSUME NEW q \in RequestIds, AcceptCancel(q)
      PROVE  records'[r] \in {records[r], cancel(records[r])}
  BY <1>t, <1>4 DEF AcceptCancel
<1>5. CASE RouterUpdate
  <2>1. router.id \in RequestIds /\ EventAt(router.id, router.off) \in Event
    <3>1. router.id \in RequestIds /\ router.off \in 1 .. Len(topic[router.id])
      BY <1>5, <1>ty DEF HeldOffsets, RouterUpdate
    <3>2. topic[router.id] \in Seq(Event)
      BY <1>ty, <3>1 DEF TypeOK
    <3> QED BY <3>1, <3>2 DEF EventAt
  <2>2. CASE router.id = r
    <3>1. records'[r] = ApplyEvent(records[r], EventAt(router.id, router.off))
      BY <1>t, <1>5, <2>2 DEF RouterUpdate
    <3> QED BY <1>t, <2>1, <3>1, ApplyEventMonotone
  <2>3. CASE router.id # r
    BY <1>1, <1>t, <1>5, <2>3 DEF RouterUpdate
  <2> QED BY <2>2, <2>3
<1>6. CASE GatewayRestart
  BY <1>6, <1>ty DEF GatewayRestart, TypeOK
<1> QED BY <1>1, <1>n, <1>k, <1>2, <1>3, <1>4, <1>5, <1>6, RecordSteps

\* The token count a client polls never goes back, for any number of attempts
\* at a job and any order in which the router sees their events.
THEOREM EmittedIsMonotone == Spec => EmittedMonotone
<1>1. TypeInv /\ [Next]_vars =>
        [\A r \in RequestIds :
            \/ records'[r].emitted_tokens >= records[r].emitted_tokens
            \/ records'[r] = queued
            \/ restarts' # restarts]_vars
  BY GatewayAssumption, StepMonotone
<1>2. Init => TypeInv
  BY GatewayAssumption, TypeInvInitially
<1>3. TypeInv /\ [Next]_vars => TypeInv'
  BY GatewayAssumption, TypeInvKept
<1> QED BY <1>1, <1>2, <1>3, PTL DEF Spec, EmittedMonotone

-----------------------------------------------------------------------------
(* The environment                                                         *)

\* Only the workers' steps and the publication of a cancellation change what the
\* contract is about, or put a job into a state that has to be backed.
LEMMA WorkerSteps ==
    ASSUME GatewayAssumption, TypeOK, [Next]_vars
    PROVE  /\ call' = call
           /\ \/ \E c \in Calls :
                    WorkerStart(c) \/ WorkerToken(c) \/ WorkerFinish(c) \/ WorkerCommit(c)
              \/ \E c \in Calls : StrayEvent(c)
              \/ \E r \in RequestIds : PublishCancel(r)
              \/ /\ topic' = topic /\ control' = control /\ seq' = seq
                 /\ \A c \in Calls : job'[c] \in {"running", "emitted", "done"} => job'[c] = job[c]
<1> USE DEF mapVars, chanVars, taskVars, metricVars, consVars, workerVars, cancelVars
<1>1. ASSUME NEW c \in Calls, Deliver(c) \/ Lose(c) \/ WorkerCrash(c)
      PROVE  /\ call' = call /\ topic' = topic /\ control' = control /\ seq' = seq
             /\ \A d \in Calls : job'[d] \in {"running", "emitted", "done"} => job'[d] = job[d]
  BY <1>1 DEF Deliver, Lose, WorkerCrash, TypeOK
<1>2. ASSUME NEW c \in Calls, RegisterInsert(c)
      PROVE  /\ call' = call /\ topic' = topic /\ control' = control /\ seq' = seq
             /\ \A d \in Calls : job'[d] \in {"running", "emitted", "done"} => job'[d] = job[d]
  BY <1>2 DEF RegisterInsert, TypeOK
<1>3. ASSUME NEW c \in Calls, \/ SubmitCheck(c) \/ InferInsert(c) \/ DropHandler(c)
                              \/ ClientRead(c) \/ StreamEnd(c) \/ Disconnect(c)
      PROVE  call' = call /\ topic' = topic /\ control' = control /\ seq' = seq /\ job' = job
  BY <1>3 DEF SubmitCheck, InferInsert, InsertRecord, DropHandler, ClientRead, StreamEnd,
              Disconnect
<1>4. ASSUME NEW c \in Calls, Handler(c), ~RegisterInsert(c)
      PROVE  call' = call /\ topic' = topic /\ control' = control /\ seq' = seq /\ job' = job
  BY <1>4 DEF Handler, SubmitInsert, InsertRecord, RegisterCheck, FinishConflict,
              ProduceAck, ProduceError, EnqueueUnregister, EnqueueFinish, ReplayLookup, Snapshot
<1>5. ASSUME NEW c \in Calls, Task(c)
      PROVE  call' = call /\ topic' = topic /\ control' = control /\ seq' = seq /\ job' = job
  BY <1>5 DEF Task, TaskLookup, TaskSend, TaskFinish
<1>6. ASSUME NEW r \in RequestIds, Cancel(r) \/ InferCancel(r) \/ LosePublish(r)
      PROVE  call' = call /\ topic' = topic /\ control' = control /\ seq' = seq /\ job' = job
  BY <1>6 DEF Cancel, InferCancel, AcceptCancel, LosePublish
<1>7. CASE Router \/ Assign \/ UNCHANGED vars
  BY <1>7 DEF Router, RouterPoll, RouterUpdate, RouterLookup, RouterSend, RouterUnregister,
              Assign, vars
<1>8. CASE GatewayRestart
  <2>1. PICK left \in SUBSET Calls :
            job' = [c \in Calls |-> IF job[c] # "inflight" THEN job[c]
                                    ELSE IF c \in left THEN "queued" ELSE "lost"]
    BY <1>8 DEF GatewayRestart
  <2> QED BY <1>8, <2>1 DEF GatewayRestart
<1>9. ASSUME NEW c \in Calls, Worker(c)
      PROVE  call' = call /\ (WorkerStart(c) \/ WorkerToken(c) \/ WorkerFinish(c) \/ WorkerCommit(c))
  BY <1>9 DEF Worker, WorkerStart, WorkerToken, WorkerFinish, WorkerCommit
<1>10. ASSUME NEW r \in RequestIds, PublishCancel(r) PROVE call' = call
  BY <1>10 DEF PublishCancel
<1>11. ASSUME NEW c \in Calls, StrayEvent(c) PROVE call' = call
  BY <1>11 DEF StrayEvent
<1> QED BY <1>1, <1>2, <1>3, <1>4, <1>5, <1>6, <1>7, <1>8, <1>9, <1>10, <1>11 DEF Next
=============================================================================
