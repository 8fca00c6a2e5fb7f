----------------------------- MODULE GatewaySlots -----------------------------
(***************************************************************************)
(* Theorems about what a request holds while it is active: its place under *)
(* MAX_ACTIVE_REQUESTS and its count in the gauge of active streams, for    *)
(* every set of calls and request ids and every bound.  What is promised    *)
(* only to some clients, or only without some faults, names them.          *)
(***************************************************************************)
EXTENDS GatewayStreams

-----------------------------------------------------------------------------
(* Why a record is active                                                  *)

\* c has put a record in the map that it, its job or its job's events will end - or
\* would have: its job is lost and its handler will not notice, or it left the record
\* behind.
Owes(c) ==
    /\ call[c].kind # "replay"
    /\ \/ pc[c] \in {"inserted", "unique", "conflict"}
       \/ job[c] \in {"inflight", "queued", "running"}
       \/ /\ job[c] = "lost"
          /\ \/ call[c].kind = "infer"
             \/ pc[c] \in {"producing", "enqueueFailed", "unregistered", "gone"}
       \/ call[c].kind = "infer" /\ job[c] = "none" /\ pc[c] = "failed"

\* The request's last event so far is no terminal.
Open(r) == topic[r] # <<>> /\ ~IsTerminalAt(r, Len(topic[r]))

Accounted(r) ==
    \/ \E c \in Calls : call[c].id = r /\ Owes(c)
    \/ position[r] < Len(topic[r])
    \/ router.pc = "update" /\ router.id = r
    \/ Open(r)

SlotsAccounted == MissedNothing => \A r \in RequestIds : IsActive(records[r]) => Accounted(r)

SlotInv == CallInv /\ Assigned /\ SlotsAccounted

-----------------------------------------------------------------------------
(* Without leaks                                                           *)

\* Clients of submit only, whose handlers are not dropped while they await the
\* producer; workers that publish nothing for a job they lost; no event missed.
Orderly ==
    /\ "infer" \notin Endpoints
    /\ Faults \cap {"dropped", "stray", "late_assignment"} = {}
    /\ MaxRestarts = 0

\* A client that goes away had its job delivered; a log without an end has a job
\* that will go on with it.
NothingAbandoned ==
    /\ \A c \in Calls : pc[c] = "gone" => job[c] \notin {"inflight", "lost"}
    /\ \A r \in RequestIds : Open(r) =>
          \E c \in Calls : call[c].id = r /\ job[c] \in {"queued", "running"}

-----------------------------------------------------------------------------
(* Admission                                                               *)

\* Submit and replays of it, an id for each request; every job is delivered as the
\* producer says and processed once.
Once ==
    /\ Endpoints \subseteq {"submit", "replay"}
    /\ Faults \cap {"ambiguous", "worker_crash", "stray"} = {}
    /\ UniqueIds

\* An id is submitted once.
OneJobEach == \A c \in Calls : call[c].kind # "replay" => call[c].kind = "submit" /\ SoleJob(c)

\* A request ends once, and its job with it.
EndsOnce ==
    \A r \in RequestIds : \A i \in 1 .. Len(topic[r]) : IsTerminalAt(r, i) =>
        /\ i = Len(topic[r])
        /\ \A c \in Calls : call[c].id = r => job[c] \in {"none", "emitted", "done"}

\* Submit fails a request only if its job did not get anywhere.
FailsUndelivered == \A c \in Calls : pc[c] \in {"enqueueFailed", "unregistered"} => job[c] = "lost"

\* No record that has ended will become active again: no event of it is left to be
\* routed or published.
NoneRevived ==
    \A r \in RequestIds : is_terminal(records[r]) =>
        /\ position[r] = Len(topic[r]) /\ ~(router.pc = "update" /\ router.id = r)
        /\ \A c \in Calls : (call[c].id = r /\ call[c].kind # "replay") =>
              /\ job[c] \notin {"inflight", "queued", "running"}
              /\ pc[c] \notin {"idle", "admitted", "inserted", "unique"}

Active == {r \in RequestIds : IsActive(records[r])}
Admitted == {c \in Calls : pc[c] = "admitted"}
Busy == {c \in Calls : pc[c] \in OnThread}

\* A request that passed the test and is not in the map yet counts as well.
Bounded ==
    /\ IsFiniteSet(Active) /\ IsFiniteSet(Busy)
    /\ Cardinality(Active) + Cardinality(Admitted) <= MaxActive + Threads - 1

AdmissionInv ==
    /\ CallInv /\ LogsBegun /\ OneJobEach /\ EndsOnce /\ FailsUndelivered
    /\ NoneRevived /\ Bounded

-----------------------------------------------------------------------------
(* The gauge                                                               *)

\* As Orderly, and every job delivered as the producer says and processed once.
OrderlyOnce == Orderly /\ Faults \cap {"ambiguous", "worker_crash"} = {}

\* The calls the gauge went up for, apart from those it went down for again with the
\* handler's error.
Billed ==
    {c \in Calls :
        /\ call[c].kind # "replay"
        /\ \/ pc[c] \in {"inserted", "unique", "conflict", "producing", "enqueueFailed",
                         "unregistered"}
           \/ job[c] \in HasReached}

\* The jobs that ended, the ends in the logs, and those the gauge went down for.
JobsEnded == {c \in Calls : job[c] \in {"emitted", "done"}}
Ends == {e \in RequestIds \X Nat : e[2] \in 1 .. Len(topic[e[1]]) /\ IsTerminalAt(e[1], e[2])}
Counted(r) == IF router.pc = "update" /\ router.id = r THEN position[r] - 1 ELSE position[r]
EndsCounted == {e \in Ends : e[2] <= Counted(e[1])}

GaugeExact ==
    /\ IsFiniteSet(Billed) /\ IsFiniteSet(Ends)
    /\ Cardinality(JobsEnded) = Cardinality(Ends)
    /\ activeStreams = Cardinality(Billed) - Cardinality(EndsCounted)

GaugeInv == CallInv /\ Assigned /\ NothingAbandoned /\ FailsUndelivered /\ GaugeExact

-----------------------------------------------------------------------------
(* Steps of the log and of the records                                     *)

\* What a publication does to the logs.
LEMMA Appends ==
    ASSUME TypeOK, NEW c \in Calls, NEW type \in EventTypes, NEW n \in Nat, Publish(c, type, n)
    PROVE  /\ Len(topic'[call[c].id]) = Len(topic[call[c].id]) + 1
           /\ topic'[call[c].id][Len(topic'[call[c].id])].type = type
           /\ \A i \in 1 .. Len(topic[call[c].id]) : topic'[call[c].id][i] = topic[call[c].id][i]
           /\ \A r \in RequestIds : r # call[c].id => topic'[r] = topic[r]
<1> DEFINE e == [type |-> type, seq |-> n]
<1>1. call[c].id \in RequestIds /\ topic \in [RequestIds -> Seq(Event)] /\ e \in Event
      /\ e.type = type
  BY DEF TypeOK, Event
<1>2. topic' = [topic EXCEPT ![call[c].id] = Append(@, e)]
  BY DEF Publish
<1> HIDE DEF e
<1>3. topic'[call[c].id] = Append(topic[call[c].id], e) /\ topic[call[c].id] \in Seq(Event)
  BY <1>1, <1>2
<1>4. \A r \in RequestIds : r # call[c].id => topic'[r] = topic[r]
  BY <1>1, <1>2
<1> QED BY <1>1, <1>3, <1>4

\* Only the workers publish, and a publication disturbs nothing else of interest here.
LEMMA LogSteps ==
    ASSUME GatewayAssumption, TypeOK, [Next]_vars
    PROVE  \/ topic' = topic
           \/ \E c \in Calls, type \in EventTypes, n \in Nat :
                 /\ Publish(c, type, n)
                 /\ UNCHANGED <<call, pc, records, position, joined, router, activeStreams>>
                 /\ \/ WorkerStart(c) /\ type = "STARTED"
                    \/ WorkerToken(c) /\ type = "TOKEN"
                    \/ WorkerFinish(c) /\ type \in TerminalTypes
                    \/ StrayEvent(c)
<1> USE DEF mapVars, chanVars, taskVars, metricVars, consVars, workerVars, cancelVars
<1>s. \A c \in Calls : seq[c] \in Nat /\ seq[c] + 1 \in Nat
  BY DEF TypeOK, GatewayAssumption
<1>1. ASSUME NEW c \in Calls, WorkerStart(c)
      PROVE  /\ Publish(c, "STARTED", 0) /\ "STARTED" \in EventTypes
             /\ UNCHANGED <<call, pc, records, position, joined, router, activeStreams>>
  BY <1>1 DEF WorkerStart, EventTypes
<1>2. ASSUME NEW c \in Calls, WorkerToken(c)
      PROVE  /\ Publish(c, "TOKEN", seq[c] + 1) /\ "TOKEN" \in EventTypes
             /\ UNCHANGED <<call, pc, records, position, joined, router, activeStreams>>
  BY <1>2 DEF WorkerToken, EventTypes
<1>3. ASSUME NEW c \in Calls, WorkerFinish(c)
      PROVE  /\ \E type \in TerminalTypes : Publish(c, type, seq[c]) /\ type \in EventTypes
             /\ UNCHANGED <<call, pc, records, position, joined, router, activeStreams>>
  BY <1>3 DEF WorkerFinish, EventTypes
<1>4. ASSUME NEW c \in Calls, StrayEvent(c)
      PROVE  /\ \E type \in EventTypes, n \in Nat : Publish(c, type, n)
             /\ UNCHANGED <<call, pc, records, position, joined, router, activeStreams>>
  <2>1. UNCHANGED <<call, pc, records, position, joined, router, activeStreams>>
    BY <1>4 DEF StrayEvent
  <2> QED BY <1>4, <2>1, StrayPublishes
<1>5. ASSUME \/ \E c \in Calls : WorkerCommit(c)
             \/ \E r \in RequestIds : PublishCancel(r)
      PROVE  topic' = topic
  BY <1>5 DEF WorkerCommit, PublishCancel
<1>6. \/ \E c \in Calls : WorkerStart(c) \/ WorkerToken(c) \/ WorkerFinish(c) \/ StrayEvent(c)
      \/ topic' = topic
  BY <1>5, WorkerSteps
<1> QED BY <1>1, <1>2, <1>3, <1>4, <1>6, <1>s

\* What an event does to a record.
LEMMA Applied ==
    ASSUME NEW rec \in Slot, NEW ev \in Event
    PROVE  /\ IsActive(ApplyEvent(rec, ev)) => ev.type \notin TerminalTypes /\ Present(rec)
           /\ is_terminal(ApplyEvent(rec, ev)) => ev.type \in TerminalTypes
<1>1. CASE rec = NoRecord
  BY <1>1 DEF ApplyEvent, update, Present, NoRecord, IsActive, is_terminal
<1>2. CASE rec \in RequestRecord
  BY <1>2 DEF ApplyEvent, update, Present, IsActive, is_terminal, RequestRecord,
              RequestStatusInternal, Event, EventTypes, TerminalTypes, mark_running, note_token,
              finish_completed, finish_failed, finish_cancelled
<1> QED BY <1>1, <1>2 DEF Slot

\* A handler's clean-up and a cancellation leave no active record, insert does.
LEMMA Finished ==
    ASSUME NEW rec \in Slot
    PROVE  /\ ~IsActive(update(rec, finish_failed(rec)))
           /\ Present(rec) => is_terminal(update(rec, finish_failed(rec)))
           /\ ~Present(rec) => update(rec, finish_failed(rec)) = rec
           /\ accepts_cancel(rec) => is_terminal(cancel(rec)) /\ ~IsActive(cancel(rec))
           /\ IsActive(queued) /\ ~is_terminal(queued)
           /\ ~IsActive(NoRecord) /\ ~is_terminal(NoRecord)
           /\ is_terminal(rec) => Present(rec)
<1>1. CASE rec = NoRecord
  BY <1>1 DEF update, Present, NoRecord, IsActive, is_terminal, accepts_cancel, queued
<1>2. CASE rec \in RequestRecord
  BY <1>2 DEF update, Present, IsActive, is_terminal, RequestRecord, RequestStatusInternal,
              finish_failed, cancel, accepts_cancel, NoRecord, queued
<1> QED BY <1>1, <1>2 DEF Slot

\* Who owes goes on owing, until its handler cleans up or its job's end is published.
LEMMA OwesKept ==
    ASSUME GatewayAssumption, CallInv, [Next]_vars, ~GatewayRestart, NEW c \in Calls, Owes(c)
    PROVE  Owes(c)' \/ FinishConflict(c) \/ EnqueueFinish(c) \/ WorkerFinish(c)
<1>0. TypeOK /\ KindsApart /\ JobsFollow /\ call' = call /\ Moves(c)
  BY CallMoves, StreamSteps DEF CallInv, TypeInv
<1>t. /\ pc \in [Calls -> PCs] /\ job \in [Calls -> JobStates]
      /\ call[c].kind \in {"submit", "infer", "replay"}
  BY <1>0 DEF TypeOK
<1> USE <1>0, <1>t DEF Owes, JobsFollow, BeforeRegister, KindsApart, Goto
<1>1. CASE pc'[c] = pc[c] /\ job'[c] = job[c]
  BY <1>1
<1>2. CASE SubmitCheck(c) /\ job'[c] = job[c]
  BY <1>2 DEF SubmitCheck
<1>3. CASE (InferInsert(c) \/ SubmitInsert(c)) /\ job'[c] = job[c]
  BY <1>3 DEF InferInsert, SubmitInsert, InsertRecord
<1>4. CASE RegisterCheck(c) /\ job'[c] = job[c]
  BY <1>4 DEF RegisterCheck
<1>5. CASE (ProduceAck(c) \/ ProduceError(c)) /\ job'[c] = job[c]
  BY <1>5 DEF ProduceAck, ProduceError, Delivered
<1>6. CASE EnqueueUnregister(c) /\ job'[c] = job[c]
  BY <1>6 DEF EnqueueUnregister
<1>7. CASE (ReplayLookup(c) \/ Snapshot(c)) /\ job'[c] = job[c]
  BY <1>7 DEF ReplayLookup, Snapshot
<1>8. CASE (DropHandler(c) \/ Disconnect(c) \/ StreamEnd(c)) /\ job'[c] = job[c]
  BY <1>8 DEF DropHandler, Disconnect, StreamEnd
<1>9. CASE RegisterInsert(c)
  BY <1>9 DEF RegisterInsert
<1>10. CASE pc'[c] = pc[c] /\ (Deliver(c) \/ Lose(c))
  BY <1>10 DEF Deliver, Lose
<1>11. CASE pc'[c] = pc[c] /\ (WorkerStart(c) \/ WorkerCommit(c) \/ WorkerCrash(c))
  BY <1>11 DEF WorkerStart, WorkerCommit, WorkerCrash
<1> QED BY <1>1, <1>2, <1>3, <1>4, <1>5, <1>6, <1>7, <1>8, <1>9, <1>10, <1>11 DEF Moves

LEMMA AccountedKept ==
    ASSUME GatewayAssumption, SlotInv, [Next]_vars PROVE SlotsAccounted'
<1> USE DEF mapVars, chanVars, taskVars, metricVars, consVars, workerVars, cancelVars
<1>0. /\ CallInv /\ TypeOK /\ HeldOffsets /\ RouterPlaced /\ SlotsAccounted /\ call' = call
      /\ TypeOK' /\ KindsApart'
  BY StreamSteps, CallInvKept DEF SlotInv, CallInv, TypeInv
<1>t. /\ \A c \in Calls : call[c].id \in RequestIds
      /\ position \in [RequestIds -> Nat] /\ records \in [RequestIds -> Slot]
      /\ topic \in [RequestIds -> Seq(Event)] /\ restarts \in Nat
      /\ \A r \in RequestIds : Len(topic[r]) \in Nat /\ position[r] <= Len(topic[r])
  BY <1>0 DEF TypeOK, RouterPlaced, GatewayAssumption
<1>g. SUFFICES ASSUME NEW r \in RequestIds, IsActive(records'[r]), MissedNothing'
               PROVE  Accounted(r)'
  BY DEF SlotsAccounted
<1>m. ~GatewayRestart /\ MissedNothing /\ ~Assign
  <2>1. ~GatewayRestart
    BY <1>g, <1>t DEF GatewayRestart, MissedNothing
  <2>2. restarts' = restarts
    <3>1. ASSUME NEW d \in Calls, RegisterInsert(d) \/ TaskSend(d) PROVE restarts' = restarts
      BY <3>1 DEF RegisterInsert, TaskSend
    <3>2. CASE Assign \/ RouterSend \/ RouterUpdate \/ RouterLookup \/ RouterUnregister
               \/ \E q \in RequestIds : RouterPoll(q)
      BY <3>2 DEF Assign, RouterPoll, RouterUpdate, RouterLookup, RouterSend, RouterUnregister
    <3> QED BY <1>0, <2>1, <3>1, <3>2, StreamSteps
  <2>3. MissedNothing
    BY <1>g, <2>2 DEF MissedNothing
  <2> QED BY <2>1, <2>3 DEF SlotInv, Assigned, Assign
\* A new event is one the router has yet to see.
<1>n. ASSUME topic'[r] # topic[r] PROVE Accounted(r)'
  <2>1. PICK c \in Calls, type \in EventTypes, n \in Nat :
            Publish(c, type, n) /\ position' = position
    BY <1>0, <1>n, LogSteps
  <2>2. call[c].id = r /\ Len(topic'[r]) = Len(topic[r]) + 1
    BY <1>0, <1>n, <2>1, Appends
  <2> QED BY <1>t, <2>1, <2>2 DEF Accounted
\* An event in hand that leaves the record active is no terminal.
<1>u. ASSUME RouterUpdate, router.id = r PROVE Accounted(r)'
  <2>1. /\ router.pc = "update" /\ topic' = topic /\ position' = position
        /\ records' = [records EXCEPT ![r] = ApplyEvent(@, EventAt(r, router.off))]
    BY <1>u DEF RouterUpdate
  <2>2. router.off = position[r] /\ router.off \in 1 .. Len(topic[r])
    BY <1>0, <1>u, <2>1 DEF HeldOffsets, RouterPlaced
  <2>3. EventAt(r, router.off) \in Event
    BY <1>t, <2>2 DEF EventAt
  <2>4. ~IsTerminalAt(r, router.off)
    BY <1>g, <1>t, <2>1, <2>3, Applied DEF IsTerminalAt
  <2>5. CASE position[r] < Len(topic[r])
    BY <2>1, <2>5 DEF Accounted
  <2>6. CASE position[r] = Len(topic[r])
    <3>1. topic'[r] # <<>> /\ ~IsTerminalAt(r, Len(topic[r]))'
      BY <2>1, <2>2, <2>4, <2>6 DEF IsTerminalAt, EventAt
    <3> QED BY <2>1, <3>1 DEF Accounted, Open
  <2> QED BY <1>t, <2>5, <2>6
<1>1. ASSUME topic'[r] = topic[r], ~(RouterUpdate /\ router.id = r), IsActive(records[r])
      PROVE  Accounted(r)'
  <2>1. Accounted(r)
    BY <1>0, <1>1, <1>m DEF SlotsAccounted
  <2>2. ASSUME NEW c \in Calls, call[c].id = r, Owes(c) PROVE Accounted(r)'
    <3>1. CASE Owes(c)'
      BY <1>0, <2>2, <3>1 DEF Accounted
    <3>2. CASE FinishConflict(c) \/ EnqueueFinish(c)
      <4>1. records'[r] = update(records[r], finish_failed(records[r]))
        BY <1>t, <2>2, <3>2 DEF FinishConflict, EnqueueFinish, FailAndDec
      <4> QED BY <1>g, <1>t, <4>1, Finished
    <3>3. CASE WorkerFinish(c)
      <4>1. PICK type \in TerminalTypes : Publish(c, type, seq[c])
        BY <3>3 DEF WorkerFinish
      <4>2. Len(topic'[r]) = Len(topic[r]) + 1
        <5>1. type \in EventTypes /\ seq[c] \in Nat
          BY <1>0 DEF EventTypes, TypeOK, GatewayAssumption
        <5> QED BY <1>0, <2>2, <4>1, <5>1, Appends
      <4> QED BY <1>1, <1>t, <4>2
    <3> QED BY <1>0, <1>m, <2>2, <3>1, <3>2, <3>3, OwesKept
  <2>3. ASSUME position[r] < Len(topic[r]) PROVE Accounted(r)'
    <3>1. CASE position'[r] = position[r]
      BY <1>1, <2>3, <3>1 DEF Accounted
    <3>2. ASSUME NEW q \in RequestIds, RouterPoll(q), q # r PROVE position'[r] = position[r]
      BY <1>t, <3>2 DEF RouterPoll
    <3>3. CASE RouterPoll(r)
      <4>1. router'.pc = "update" /\ router'.id = r
        BY <3>3 DEF RouterPoll
      <4> QED BY <4>1 DEF Accounted
    <3>4. position' = position \/ \E q \in RequestIds : RouterPoll(q)
      <4>1. ASSUME NEW d \in Calls, RegisterInsert(d) \/ TaskSend(d) PROVE position' = position
        BY <4>1 DEF RegisterInsert, TaskSend
      <4>2. CASE RouterSend \/ RouterUpdate \/ RouterLookup \/ RouterUnregister
        BY <4>2 DEF RouterUpdate, RouterLookup, RouterSend, RouterUnregister
      <4>3. Unobtrusive => position' = position
        BY DEF Unobtrusive
      <4> QED BY <1>0, <1>m, <4>1, <4>2, <4>3, StreamSteps
    <3> QED BY <3>1, <3>2, <3>3, <3>4
  <2>4. ASSUME router.pc = "update", router.id = r PROVE Accounted(r)'
    <3>1. router' = router
      BY <1>1, <1>m, <2>4, RouterSteps DEF RouterPoll, RouterLookup, RouterSend, RouterUnregister
    <3> QED BY <2>4, <3>1 DEF Accounted
  <2>5. ASSUME Open(r) PROVE Accounted(r)'
    <3>1. Open(r)'
      BY <1>1, <2>5 DEF Open, IsTerminalAt, EventAt
    <3> QED BY <3>1 DEF Accounted
  <2> QED BY <2>1, <2>2, <2>3, <2>4, <2>5 DEF Accounted
<1>2. ASSUME ~(RouterUpdate /\ router.id = r), ~IsActive(records[r]) PROVE Accounted(r)'
  <2>1. records'[r] # records[r]
    BY <1>2, <1>g
  <2>2. ASSUME NEW c \in Calls, FinishConflict(c) \/ EnqueueFinish(c) PROVE records'[r] = records[r]
    <3>1. records' = [records EXCEPT ![call[c].id] = update(@, finish_failed(@))]
      BY <2>2 DEF FinishConflict, EnqueueFinish, FailAndDec
    <3> QED BY <1>g, <1>t, <3>1, Finished
  <2>3. ASSUME NEW q \in RequestIds, Cancel(q) \/ InferCancel(q)
        PROVE  records'[r] = records[r]
    BY <1>g, <1>t, <2>3, Finished DEF Cancel, InferCancel, AcceptCancel
  <2>4. RouterUpdate => records'[r] = records[r]
    BY <1>2, <1>t DEF RouterUpdate
  <2>5. ASSUME NEW c \in Calls, SubmitInsert(c) \/ InferInsert(c) PROVE Accounted(r)'
    <3>1. /\ pc'[c] = "inserted"
          /\ records' = [records EXCEPT ![call[c].id] = queued]
      BY <1>0, <2>5 DEF SubmitInsert, InferInsert, InsertRecord, Goto, TypeOK
    <3>2. call[c].id = r
      BY <1>t, <2>1, <3>1
    <3>3. Owes(c)'
      BY <1>0, <3>1 DEF Owes, KindsApart
    <3> QED BY <1>0, <3>2, <3>3 DEF Accounted
  <2> QED BY <1>0, <1>m, <2>1, <2>2, <2>3, <2>4, <2>5, RecordMoves
<1> QED BY <1>n, <1>u, <1>1, <1>2

LEMMA SlotInvInitially == ASSUME GatewayAssumption, Init PROVE SlotInv
<1>1. CallInv /\ Assigned
  BY StreamInvInitially DEF StreamInv
<1>2. SlotsAccounted
  <2>1. \A r \in RequestIds : records[r] = NoRecord
    BY DEF Init
  <2> QED BY <2>1 DEF SlotsAccounted, IsActive, Present, NoRecord
<1> QED BY <1>1, <1>2 DEF SlotInv

LEMMA SlotInvKept == ASSUME GatewayAssumption, SlotInv, [Next]_vars PROVE SlotInv'
  BY CallInvKept, AssignedKept, AccountedKept DEF SlotInv

\* Whatever happens short of a restart, a place under MAX_ACTIVE_REQUESTS is held for
\* good in the three cases that KnownLeaksOnly names, and in no other.
THEOREM LeaksAreKnown == Spec => []KnownLeaksOnly
<1>1. Init => SlotInv
  BY GatewayAssumption, SlotInvInitially
<1>2. SlotInv /\ [Next]_vars => SlotInv'
  BY GatewayAssumption, SlotInvKept
<1>3. SlotInv => KnownLeaksOnly
  <2> SUFFICES ASSUME SlotInv, Quiet, MissedNothing, NEW r \in RequestIds, IsActive(records[r])
               PROVE  \/ \E c \in Calls : /\ call[c].id = r /\ job[c] = "lost"
                                          /\ call[c].kind = "infer" \/ pc[c] = "gone"
                      \/ \E c \in Calls : /\ call[c].id = r /\ call[c].kind = "infer"
                                          /\ job[c] = "none" /\ pc[c] = "failed"
                      \/ Open(r)
    BY DEF KnownLeaksOnly, Open
  <2>1. Accounted(r) /\ position[r] = Len(topic[r]) /\ router.pc = "poll"
    BY DEF SlotInv, SlotsAccounted, Quiet
  <2>2. \A c \in Calls : /\ pc[c] \in {"idle", "ended", "failed", "gone"}
                         /\ job[c] \in {"none", "lost", "done"}
    BY DEF Quiet
  <2>3. position[r] \in Nat
    BY DEF SlotInv, CallInv, TypeInv, TypeOK
  <2> QED BY <2>1, <2>2, <2>3 DEF Accounted, Owes
<1> QED BY <1>1, <1>2, <1>3, PTL DEF Spec

-----------------------------------------------------------------------------
(* Without leaks                                                           *)

LEMMA NothingAbandonedKept ==
    ASSUME GatewayAssumption, Orderly, CallInv, NothingAbandoned, [Next]_vars
    PROVE  NothingAbandoned'
<1>0. CallInv /\ TypeOK /\ JobsFollow /\ NothingAbandoned
  BY DEF CallInv, TypeInv
<1>r. ~GatewayRestart
  BY <1>0 DEF GatewayRestart, Orderly, TypeOK
<1>f. /\ "stray" \notin Faults /\ "dropped" \notin Faults
      /\ \A c \in Calls : ~StrayEvent(c) /\ ~DropHandler(c)
  BY DEF Orderly, StrayEvent, DropHandler
<1>t. /\ pc \in [Calls -> PCs] /\ job \in [Calls -> JobStates]
      /\ \A c \in Calls : call[c].id \in RequestIds
      /\ call' = call
  BY <1>0, <1>r, StreamSteps DEF TypeOK
<1>m. \A c \in Calls : Moves(c)
  BY <1>0, <1>r, CallMoves
<1>1. ASSUME NEW c \in Calls, pc'[c] = "gone" PROVE job'[c] \notin {"inflight", "lost"}
  <2> USE <1>0, <1>t, <1>1 DEF NothingAbandoned, Goto
  <2>1. CASE pc'[c] = pc[c] /\ job'[c] = job[c]
    BY <2>1
  <2>2. CASE Disconnect(c) /\ job'[c] = job[c]
    BY <2>2 DEF Disconnect, JobsFollow
  <2>3. CASE /\ pc'[c] = pc[c]
             /\ \/ Deliver(c) \/ Lose(c) \/ WorkerStart(c) \/ WorkerFinish(c) \/ WorkerCommit(c)
                \/ WorkerCrash(c)
    BY <2>3 DEF Deliver, Lose, WorkerStart, WorkerFinish, WorkerCommit, WorkerCrash
  <2>4. CASE \/ SubmitCheck(c) \/ InferInsert(c) \/ SubmitInsert(c) \/ RegisterCheck(c)
             \/ FinishConflict(c) \/ EnqueueFinish(c) \/ ProduceAck(c) \/ ProduceError(c)
             \/ EnqueueUnregister(c) \/ ReplayLookup(c) \/ Snapshot(c) \/ StreamEnd(c)
             \/ RegisterInsert(c)
    BY SMTT(30), <2>4 DEF SubmitCheck, InferInsert, SubmitInsert, InsertRecord, RegisterCheck,
                FinishConflict, EnqueueFinish, FailAndDec, ProduceAck, ProduceError,
                EnqueueUnregister, ReplayLookup, Snapshot, StreamEnd, RegisterInsert
  <2> QED BY <1>f, <1>m, <2>1, <2>2, <2>3, <2>4 DEF Moves
<1>2. ASSUME NEW r \in RequestIds, Open(r)'
      PROVE  \E c \in Calls : call[c].id = r /\ job'[c] \in {"queued", "running"}
  <2>1. CASE topic'[r] = topic[r]
    <3>1. Open(r)
      BY <1>2, <2>1 DEF Open, IsTerminalAt, EventAt
    <3>2. PICK c \in Calls : call[c].id = r /\ job[c] \in {"queued", "running"}
      BY <3>1 DEF NothingAbandoned
    <3>3. ~WorkerFinish(c)
      <4>1. ASSUME NEW type \in TerminalTypes, Publish(c, type, seq[c]) PROVE FALSE
        <5>1. type \in EventTypes /\ seq[c] \in Nat
          BY <1>0 DEF EventTypes, TypeOK, GatewayAssumption
        <5>2. Len(topic'[r]) = Len(topic[r]) + 1
          BY <1>0, <3>2, <4>1, <5>1, Appends
        <5>3. Len(topic[r]) \in Nat
          BY <1>0 DEF TypeOK
        <5> QED BY <2>1, <5>2, <5>3
      <4> QED BY <4>1 DEF WorkerFinish
    <3>4. job'[c] \in {"queued", "running"}
      <4> USE <1>0, <1>t, <3>2
      <4>1. CASE RegisterInsert(c)
        BY <4>1 DEF RegisterInsert, JobsFollow, BeforeRegister
      <4>2. CASE Deliver(c) \/ Lose(c) \/ WorkerStart(c) \/ WorkerCommit(c) \/ WorkerCrash(c)
        BY <4>2 DEF Deliver, Lose, WorkerStart, WorkerCommit, WorkerCrash
      <4> QED BY <1>m, <3>3, <4>1, <4>2 DEF Moves
    <3> QED BY <3>2, <3>4
  <2>2. CASE topic'[r] # topic[r]
    <3>1. PICK c \in Calls, type \in EventTypes, n \in Nat :
             /\ Publish(c, type, n)
             /\ \/ WorkerStart(c) /\ type = "STARTED"
                \/ WorkerToken(c) /\ type = "TOKEN"
                \/ WorkerFinish(c) /\ type \in TerminalTypes
                \/ StrayEvent(c)
      BY <1>0, <2>2, LogSteps
    <3>2. call[c].id = r /\ topic'[r][Len(topic'[r])].type = type
      BY <1>0, <2>2, <3>1, Appends
    <3>3. type \notin TerminalTypes
      BY <1>2, <3>2 DEF Open, IsTerminalAt, EventAt
    <3>4. job'[c] \in {"queued", "running"}
      BY <1>f, <1>t, <3>1, <3>3 DEF WorkerStart, WorkerToken
    <3> QED BY <3>2, <3>4
  <2> QED BY <2>1, <2>2
<1>3. /\ \A c \in Calls : pc'[c] = "gone" => job'[c] \notin {"inflight", "lost"}
      /\ \A r \in RequestIds : Open(r)' =>
            \E c \in Calls : call'[c].id = r /\ job'[c] \in {"queued", "running"}
  BY <1>1, <1>2, <1>t
<1> QED BY <1>3 DEF NothingAbandoned

\* Once nothing is left to happen no place under MAX_ACTIVE_REQUESTS is held, unless a
\* client of the web endpoint, a handler dropped while it awaits the producer, a worker
\* that goes on after it lost its job, or events that went by unseen come into it: a
\* refused duplicate, a failed enqueue, a cancellation, a client that hangs up and a
\* worker that crashes give the place back.
THEOREM NoSlotLeaks == ASSUME Orderly PROVE Spec => []NoLeakedSlot
<1>1. Init => SlotInv /\ NothingAbandoned
  BY GatewayAssumption, SlotInvInitially DEF Init, NothingAbandoned, Open
<1>2. SlotInv /\ NothingAbandoned /\ [Next]_vars => (SlotInv /\ NothingAbandoned)'
  BY GatewayAssumption, Orderly, SlotInvKept, NothingAbandonedKept DEF SlotInv
<1>3. SlotInv /\ NothingAbandoned => NoLeakedSlot
  <2> SUFFICES ASSUME SlotInv, NothingAbandoned, Quiet PROVE ActiveCount = 0
    BY DEF NoLeakedSlot
  <2>1. MissedNothing /\ \A c \in Calls : call[c].kind # "infer"
    BY DEF MissedNothing, Orderly, SlotInv, CallInv, TypeInv, TypeOK
  <2>2. \A c \in Calls : /\ pc[c] \in {"idle", "ended", "failed", "gone"}
                         /\ job[c] \in {"none", "lost", "done"}
    BY DEF Quiet
  <2>3. \A r \in RequestIds : position[r] = Len(topic[r]) /\ position[r] \in Nat
    BY DEF SlotInv, CallInv, TypeInv, TypeOK, Quiet
  <2>4. \A r \in RequestIds : ~Accounted(r)
    BY <2>1, <2>2, <2>3 DEF Accounted, Owes, NothingAbandoned, Quiet
  <2>5. {r \in RequestIds : IsActive(records[r])} = {}
    BY <2>1, <2>4 DEF SlotInv, SlotsAccounted
  <2> QED BY <2>5, FS_EmptySet DEF ActiveCount
<1> QED BY <1>1, <1>2, <1>3, PTL DEF Spec

-----------------------------------------------------------------------------
(* Admission                                                               *)

\* One handler moves at a time.
LEMMA HandlersMove ==
    ASSUME [Next]_vars, ~GatewayRestart
    PROVE  pc' = pc \/ \E c \in Calls, next \in PCs : CallSteps(c) /\ Goto(c, next)
<1> USE DEF mapVars, chanVars, taskVars, metricVars, consVars, workerVars, cancelVars
<1>1. ASSUME NEW c \in Calls, CallSteps(c) PROVE pc' = pc \/ \E next \in PCs : Goto(c, next)
  BY <1>1 DEF CallSteps, Handler, SubmitCheck, InferInsert, SubmitInsert, InsertRecord,
              RegisterCheck, FinishConflict, EnqueueFinish, FailAndDec, RegisterInsert,
              ProduceAck, ProduceError, EnqueueUnregister, ReplayLookup, Snapshot, DropHandler,
              ClientRead, StreamEnd, Disconnect, PCs
<1>2. ASSUME \/ \E c \in Calls : \/ Task(c) \/ Deliver(c) \/ Lose(c) \/ Worker(c)
                                 \/ WorkerCrash(c) \/ StrayEvent(c)
             \/ \E r \in RequestIds :
                   Cancel(r) \/ InferCancel(r) \/ PublishCancel(r) \/ LosePublish(r)
             \/ Router \/ Assign \/ UNCHANGED vars
      PROVE  pc' = pc
  BY <1>2 DEF Task, TaskLookup, TaskSend, TaskFinish, Deliver, Lose, Worker, WorkerStart,
              WorkerToken, WorkerFinish, WorkerCommit, WorkerCrash, StrayEvent, Cancel,
              InferCancel, AcceptCancel, PublishCancel, LosePublish, Router, RouterPoll,
              RouterUpdate, RouterLookup, RouterSend, RouterUnregister, Assign, vars
<1> QED BY <1>1, <1>2 DEF Next, CallSteps

\* The log of an id that is submitted once is that of its call's job.
LEMMA LogOwned ==
    ASSUME CallInv, LogsBegun, OneJobEach, NEW c \in Calls, call[c].kind # "replay",
           topic[call[c].id] # <<>>
    PROVE  job[c] \in HasReached
<1>1. call[c].id \in RequestIds /\ JobsFollow
  BY DEF CallInv, TypeInv, TypeOK
<1>2. PICK d \in Calls : call[d].id = call[c].id /\ job[d] \in HasReached
  BY <1>1 DEF LogsBegun
<1>3. call[d].kind # "replay"
  BY <1>1, <1>2 DEF JobsFollow, HasReached
<1> QED BY <1>2, <1>3 DEF OneJobEach, SoleJob

LEMMA EndsOnceKept ==
    ASSUME GatewayAssumption, Once, CallInv, LogsBegun, OneJobEach, EndsOnce, [Next]_vars
    PROVE  EndsOnce'
<1>0. /\ TypeOK /\ KindsApart /\ JobsFollow /\ EndsOnce /\ OneJobEach /\ call' = call
  BY StreamSteps DEF CallInv, TypeInv
<1>t. /\ pc \in [Calls -> PCs] /\ job \in [Calls -> JobStates]
      /\ topic \in [RequestIds -> Seq(Event)]
      /\ \A c \in Calls : call[c].id \in RequestIds
      /\ \A r \in RequestIds : Len(topic[r]) \in Nat
  BY <1>0 DEF TypeOK
<1>f. \A c \in Calls : ~StrayEvent(c) /\ ~WorkerCrash(c)
  BY DEF Once, StrayEvent, WorkerCrash
\* A job that is over, or that there never will be, stays so once there is a log.
<1>1. ASSUME NEW c \in Calls, job[c] \in {"none", "emitted", "done"}, topic[call[c].id] # <<>>
      PROVE  job'[c] \in {"none", "emitted", "done"}
  <2>1. CASE GatewayRestart
    BY <1>1, <1>t, <2>1 DEF GatewayRestart
  <2>2. CASE RegisterInsert(c)
    <3>1. job[c] = "none" /\ pc[c] = "unique"
      BY <1>0, <2>2 DEF RegisterInsert, JobsFollow, BeforeRegister
    <3>2. call[c].kind = "replay"
      BY <1>1, <3>1, LogOwned DEF HasReached
    <3> QED BY <2>2, <3>1, <3>2 DEF RegisterInsert
  <2>3. CASE Deliver(c) \/ Lose(c) \/ WorkerStart(c) \/ WorkerFinish(c) \/ WorkerCommit(c)
    BY <1>1, <1>t, <2>3 DEF Deliver, Lose, WorkerStart, WorkerFinish, WorkerCommit
  <2>4. GatewayRestart \/ Moves(c)
    BY <1>0, CallMoves
  <2> QED BY <1>1, <1>f, <2>1, <2>2, <2>3, <2>4 DEF Moves
<1>2. ASSUME NEW r \in RequestIds, NEW i \in 1 .. Len(topic'[r]), IsTerminalAt(r, i)'
      PROVE  /\ i = Len(topic'[r])
             /\ \A c \in Calls : call[c].id = r => job'[c] \in {"none", "emitted", "done"}
  <2>1. CASE topic'[r] = topic[r]
    <3>1. i \in 1 .. Len(topic[r]) /\ IsTerminalAt(r, i) /\ topic[r] # <<>>
      BY <1>2, <1>t, <2>1 DEF IsTerminalAt, EventAt
    <3> QED BY <1>0, <1>1, <2>1, <3>1 DEF EndsOnce
  <2>2. CASE topic'[r] # topic[r]
    <3>1. PICK c \in Calls, type \in EventTypes, n \in Nat :
             /\ Publish(c, type, n)
             /\ \/ WorkerStart(c) /\ type = "STARTED"
                \/ WorkerToken(c) /\ type = "TOKEN"
                \/ WorkerFinish(c) /\ type \in TerminalTypes
      BY <1>0, <1>f, <2>2, LogSteps
    <3>2. /\ call[c].id = r /\ Len(topic'[r]) = Len(topic[r]) + 1
          /\ topic'[r][Len(topic'[r])].type = type
          /\ \A j \in 1 .. Len(topic[r]) : topic'[r][j] = topic[r][j]
      BY <1>0, <2>2, <3>1, Appends
    <3>3. job[c] \in {"queued", "running"}
      BY <3>1 DEF WorkerStart, WorkerToken, WorkerFinish
    <3>4. i = Len(topic'[r])
      <4>1. \A j \in 1 .. Len(topic[r]) : ~IsTerminalAt(r, j)
        BY <1>0, <3>2, <3>3 DEF EndsOnce
      <4>2. \A j \in 1 .. Len(topic[r]) : ~IsTerminalAt(r, j)'
        BY <3>2, <4>1 DEF IsTerminalAt, EventAt
      <4> QED BY <1>2, <1>t, <3>2, <4>2
    <3>5. type \in TerminalTypes
      BY <1>2, <3>2, <3>4 DEF IsTerminalAt, EventAt
    <3>6. WorkerFinish(c)
      BY <3>1, <3>5 DEF TerminalTypes
    <3>7. job' = [job EXCEPT ![c] = "emitted"] /\ call[c].kind # "replay"
      BY <1>0, <3>3, <3>6 DEF WorkerFinish, JobsFollow
    <3>8. \A d \in Calls : d # c /\ call[d].id = r => job[d] = "none"
      BY <1>0, <3>2, <3>7 DEF OneJobEach, SoleJob, JobsFollow
    <3> QED BY <1>t, <3>4, <3>7, <3>8
  <2> QED BY <2>1, <2>2
<1>3. \A r \in RequestIds : \A i \in 1 .. Len(topic'[r]) : IsTerminalAt(r, i)' =>
         /\ i = Len(topic'[r])
         /\ \A c \in Calls : call'[c].id = r => job'[c] \in {"none", "emitted", "done"}
  BY <1>0, <1>2
<1> QED BY <1>3 DEF EndsOnce

LEMMA FailsUndeliveredKept ==
    ASSUME GatewayAssumption, "ambiguous" \notin Faults, CallInv, FailsUndelivered, [Next]_vars
    PROVE  FailsUndelivered'
<1>0. TypeOK /\ pc \in [Calls -> PCs] /\ job \in [Calls -> JobStates]
  BY DEF CallInv, TypeInv, TypeOK
<1>1. ASSUME NEW c \in Calls, pc'[c] \in {"enqueueFailed", "unregistered"} PROVE job'[c] = "lost"
  <2> USE <1>0, <1>1 DEF FailsUndelivered, Goto
  <2>1. CASE GatewayRestart
    BY <2>1 DEF GatewayRestart
  <2>2. CASE pc'[c] = pc[c] /\ job'[c] = job[c]
    BY <2>2
  <2>3. CASE ProduceError(c) /\ job'[c] = job[c]
    BY <2>3 DEF ProduceError
  <2>4. CASE EnqueueUnregister(c) /\ job'[c] = job[c]
    BY <2>4 DEF EnqueueUnregister
  <2>5. CASE \/ SubmitCheck(c) \/ InferInsert(c) \/ SubmitInsert(c) \/ RegisterCheck(c)
             \/ FinishConflict(c) \/ EnqueueFinish(c) \/ ProduceAck(c) \/ ReplayLookup(c)
             \/ Snapshot(c) \/ DropHandler(c) \/ StreamEnd(c) \/ Disconnect(c) \/ RegisterInsert(c)
    BY <2>5 DEF SubmitCheck, InferInsert, SubmitInsert, InsertRecord, RegisterCheck,
                FinishConflict, EnqueueFinish, FailAndDec, ProduceAck, ReplayLookup, Snapshot,
                DropHandler, StreamEnd, Disconnect, RegisterInsert
  <2>6. CASE /\ pc'[c] = pc[c]
             /\ \/ Deliver(c) \/ Lose(c) \/ WorkerStart(c) \/ WorkerFinish(c) \/ WorkerCommit(c)
                \/ WorkerCrash(c)
    BY <2>6 DEF Deliver, Lose, WorkerStart, WorkerFinish, WorkerCommit, WorkerCrash
  <2>7. GatewayRestart \/ Moves(c)
    BY CallMoves
  <2> QED BY <2>1, <2>2, <2>3, <2>4, <2>5, <2>6, <2>7 DEF Moves
<1> QED BY <1>1 DEF FailsUndelivered

\* Where no record is ended but by its handler or by its request's end, none that has
\* ended is opened again.
LEMMA NoneRevivedKept ==
    ASSUME GatewayAssumption, Once, CallInv, LogsBegun, OneJobEach, EndsOnce, FailsUndelivered,
           NoneRevived, [Next]_vars
    PROVE  NoneRevived'
<1> USE DEF mapVars, chanVars, taskVars, metricVars, consVars, workerVars, cancelVars
<1>0. /\ TypeOK /\ KindsApart /\ JobsFollow /\ RouterPlaced /\ HeldOffsets
      /\ EndsOnce /\ OneJobEach /\ call' = call
  BY StreamSteps DEF CallInv, TypeInv
<1>t. /\ pc \in [Calls -> PCs] /\ job \in [Calls -> JobStates]
      /\ records \in [RequestIds -> Slot] /\ topic \in [RequestIds -> Seq(Event)]
      /\ position \in [RequestIds -> Nat]
      /\ \A c \in Calls : call[c].id \in RequestIds
      /\ \A r \in RequestIds : Len(topic[r]) \in Nat
  BY <1>0 DEF TypeOK
<1>f. /\ \A c \in Calls : ~StrayEvent(c) /\ ~WorkerCrash(c)
      /\ \A r \in RequestIds : ~Cancel(r) /\ ~InferCancel(r)
  BY DEF Once, StrayEvent, WorkerCrash, Cancel, InferCancel
<1> DEFINE Over(c) == /\ job[c] \notin {"inflight", "queued", "running"}
                      /\ pc[c] \notin {"idle", "admitted", "inserted", "unique"}
           Settled(r) == /\ position[r] = Len(topic[r]) /\ ~(router.pc = "update" /\ router.id = r)
                         /\ \A c \in Calls : (call[c].id = r /\ call[c].kind # "replay") => Over(c)
<1>g. SUFFICES ASSUME NEW r \in RequestIds, is_terminal(records'[r]), ~GatewayRestart
               PROVE  Settled(r)'
  <2>1. GatewayRestart => \A r \in RequestIds : ~is_terminal(records'[r])
    BY Finished DEF GatewayRestart, Slot
  <2> QED BY <2>1 DEF NoneRevived
\* A job that is over is not taken up again, nor is its handler.
<1>1. ASSUME NEW c \in Calls, call[c].kind # "replay", Over(c) PROVE Over(c)'
  <2> USE <1>0, <1>t, <1>1 DEF KindsApart, Goto
  <2>1. CASE pc'[c] = pc[c] /\ job'[c] = job[c]
    BY <2>1
  <2>2. CASE /\ job'[c] = job[c]
             /\ \/ SubmitCheck(c) \/ InferInsert(c) \/ SubmitInsert(c) \/ RegisterCheck(c)
                \/ FinishConflict(c) \/ EnqueueFinish(c) \/ ProduceAck(c) \/ ProduceError(c)
                \/ EnqueueUnregister(c) \/ ReplayLookup(c) \/ Snapshot(c) \/ DropHandler(c)
                \/ StreamEnd(c) \/ Disconnect(c)
    BY <2>2 DEF SubmitCheck, InferInsert, SubmitInsert, InsertRecord, RegisterCheck,
                FinishConflict, EnqueueFinish, FailAndDec, ProduceAck, ProduceError,
                EnqueueUnregister, ReplayLookup, Snapshot, DropHandler, StreamEnd, Disconnect
  <2>3. CASE RegisterInsert(c)
    BY <2>3 DEF RegisterInsert
  <2>4. CASE /\ pc'[c] = pc[c]
             /\ Deliver(c) \/ Lose(c) \/ WorkerStart(c) \/ WorkerFinish(c) \/ WorkerCommit(c)
    BY <2>4 DEF Deliver, Lose, WorkerStart, WorkerFinish, WorkerCommit
  <2>5. Moves(c)
    BY <1>g, CallMoves
  <2> HIDE DEF Over
  <2> QED BY <1>f, <2>1, <2>2, <2>3, <2>4, <2>5 DEF Moves
\* The log of a settled request does not grow, nor is any of it routed again.
<1>2. ASSUME Settled(r) PROVE Settled(r)'
  <2>1. topic'[r] = topic[r]
    <3>1. SUFFICES ASSUME topic'[r] # topic[r] PROVE FALSE
      OBVIOUS
    <3>2. PICK c \in Calls, type \in EventTypes, n \in Nat :
             /\ Publish(c, type, n)
             /\ WorkerStart(c) \/ WorkerToken(c) \/ WorkerFinish(c)
      BY <1>0, <1>f, <3>1, LogSteps
    <3>3. call[c].id = r
      BY <1>0, <3>1, <3>2, Appends
    <3>4. job[c] \in {"queued", "running"} /\ call[c].kind # "replay"
      BY <1>0, <3>2 DEF WorkerStart, WorkerToken, WorkerFinish, JobsFollow
    <3> QED BY <1>2, <3>3, <3>4
  <2>2. ~RouterPoll(r)
    BY <1>2, <1>t DEF RouterPoll
  <2>3. position'[r] = position[r]
    <3>1. ASSUME NEW q \in RequestIds, RouterPoll(q) PROVE position'[r] = position[r]
      BY <1>t, <2>2, <3>1 DEF RouterPoll
    <3>2. CASE Assign
      BY <1>2, <3>2 DEF Assign
    <3>3. ASSUME NEW d \in Calls, RegisterInsert(d) \/ TaskSend(d) PROVE position' = position
      BY <3>3 DEF RegisterInsert, TaskSend
    <3>4. CASE RouterSend \/ RouterUpdate \/ RouterLookup \/ RouterUnregister
      BY <3>4 DEF RouterUpdate, RouterLookup, RouterSend, RouterUnregister
    <3>5. CASE Unobtrusive
      BY <3>5 DEF Unobtrusive
    <3> QED BY <1>g, <3>1, <3>2, <3>3, <3>4, <3>5, StreamSteps
  <2>4. ~(router'.pc = "update" /\ router'.id = r)
    <3>1. ASSUME NEW q \in RequestIds, RouterPoll(q) PROVE router'.id # r
      BY <2>2, <3>1 DEF RouterPoll
    <3>2. ASSUME RouterUpdate \/ RouterLookup \/ RouterSend \/ RouterUnregister
          PROVE  router'.pc # "update"
      <4>1. router \in RouterState
        BY <1>0 DEF TypeOK
      <4>2. AfterSend.pc # "update"
        BY <4>1 DEF AfterSend, IdleRouter, RouterState
      <4>3. \/ router' = [router EXCEPT !.pc = "lookup"]
            \/ router' = [router EXCEPT !.pc = "send", !.chan = registry[router.id]]
            \/ router' = AfterSend \/ router' = IdleRouter
        BY <3>2 DEF RouterUpdate, RouterLookup, RouterSend, RouterUnregister
      <4>4. /\ [router EXCEPT !.pc = "lookup"].pc = "lookup"
            /\ [router EXCEPT !.pc = "send", !.chan = registry[router.id]].pc = "send"
            /\ IdleRouter.pc = "poll"
        BY <4>1 DEF IdleRouter, RouterState
      <4> QED BY <4>2, <4>3, <4>4
    <3> QED BY <1>2, <1>g, <3>1, <3>2, RouterSteps
  <2> HIDE DEF Over
  <2>5. \A c \in Calls : (call'[c].id = r /\ call'[c].kind # "replay") => Over(c)'
    BY <1>0, <1>1, <1>2
  <2>6. position'[r] = Len(topic'[r])
    BY <1>2, <2>1, <2>3
  <2> QED BY <2>4, <2>5, <2>6
<1>3. CASE is_terminal(records[r])
  BY <1>2, <1>3 DEF NoneRevived
\* A handler that fails its record has had no event, and it and its job are over.
<1>4. ASSUME NEW c \in Calls, FinishConflict(c) \/ EnqueueFinish(c), call[c].id = r
      PROVE  Settled(r)'
  <2>1. /\ job[c] \in {"none", "lost"} /\ job' = job /\ pc'[c] = "failed"
        /\ call[c].kind = "submit"
        /\ UNCHANGED <<topic, position, router>>
    BY <1>0, <1>t, <1>4 DEF FinishConflict, EnqueueFinish, FailAndDec, Goto, JobsFollow,
            FailsUndelivered, KindsApart
  <2>2. topic[r] = <<>>
    BY <1>4, <2>1, LogOwned DEF HasReached
  <2>3. Len(topic[r]) = 0
    BY <2>2
  <2>4. position[r] = 0 /\ ~(router.pc = "update" /\ router.id = r)
    BY <1>0, <1>t, <2>3 DEF RouterPlaced, HeldOffsets
  <2>5. \A d \in Calls : call[d].id = r /\ call[d].kind # "replay" => d = c
    BY <1>0, <1>4, <2>1 DEF OneJobEach, SoleJob
  <2> QED BY <1>0, <2>1, <2>3, <2>4, <2>5
\* An event that ends its record is the last of its request, whose job it ended.
<1>5. ASSUME RouterUpdate, router.id = r PROVE Settled(r)'
  <2>1. /\ router.pc = "update" /\ UNCHANGED <<topic, position, job, pc>>
        /\ records'[r] = ApplyEvent(records[r], EventAt(r, router.off))
        /\ router'.pc = "lookup"
    BY <1>5, <1>0, <1>t DEF RouterUpdate, TypeOK, RouterState
  <2>2. router.off = position[r] /\ router.off \in 1 .. Len(topic[r])
    BY <1>0, <1>5, <2>1 DEF HeldOffsets, RouterPlaced
  <2>3. EventAt(r, router.off) \in Event
    BY <1>t, <2>2 DEF EventAt
  <2>4. IsTerminalAt(r, router.off)
    BY <1>g, <1>t, <2>1, <2>3, Applied DEF IsTerminalAt
  <2>5. /\ router.off = Len(topic[r])
        /\ \A c \in Calls : call[c].id = r => job[c] \in {"none", "emitted", "done"}
    BY <1>0, <2>2, <2>4 DEF EndsOnce
  <2>6. ASSUME NEW c \in Calls, call[c].id = r, call[c].kind # "replay" PROVE Over(c)
    <3>1. topic[r] # <<>>
      BY <2>2, <1>t
    <3>2. job[c] \in HasReached
      BY <2>6, <3>1, LogOwned
    <3>3. pc[c] \notin BeforeRegister
      BY <1>0, <3>2 DEF JobsFollow, HasReached
    <3> QED BY <2>5, <2>6, <3>3 DEF BeforeRegister
  <2> QED BY <1>0, <2>1, <2>2, <2>5, <2>6
<1>6. CASE ~is_terminal(records[r])
  <2>1. records'[r] # records[r]
    BY <1>g, <1>6
  <2>2. ASSUME NEW c \in Calls, SubmitInsert(c) \/ InferInsert(c) PROVE FALSE
    <3>1. records' = [records EXCEPT ![call[c].id] = queued]
      BY <2>2 DEF SubmitInsert, InferInsert, InsertRecord
    <3>2. ~is_terminal(queued)
      BY DEF queued, is_terminal
    <3> QED BY <1>g, <1>t, <2>1, <3>1, <3>2
  <2>3. ASSUME NEW c \in Calls, FinishConflict(c) \/ EnqueueFinish(c) PROVE call[c].id = r
    BY <1>t, <2>1, <2>3 DEF FinishConflict, EnqueueFinish, FailAndDec
  <2>4. RouterUpdate => router.id = r
    BY <1>t, <2>1 DEF RouterUpdate
  <2> HIDE DEF Settled
  <2> QED BY <1>0, <1>f, <1>g, <1>4, <1>5, <2>1, <2>2, <2>3, <2>4, RecordMoves
<1> QED BY <1>3, <1>6

\* Sets that gain or lose an element at most.
LEMMA OneMore ==
    ASSUME NEW S, NEW T, NEW x, IsFiniteSet(S), T \subseteq S \cup {x}
    PROVE  IsFiniteSet(T) /\ Cardinality(T) \in Nat /\ Cardinality(T) <= Cardinality(S) + 1
<1>1. /\ IsFiniteSet(S \cup {x})
      /\ Cardinality(S \cup {x}) = IF x \in S THEN Cardinality(S) ELSE Cardinality(S) + 1
  BY FS_AddElement
<1>2. IsFiniteSet(T) /\ Cardinality(T) <= Cardinality(S \cup {x})
  BY <1>1, FS_Subset
<1>3. Cardinality(S) \in Nat /\ Cardinality(T) \in Nat
  BY <1>2, FS_CardinalityType
<1>4. Cardinality(S \cup {x}) <= Cardinality(S) + 1
  BY <1>1, <1>3
<1>5. Cardinality(S \cup {x}) \in Nat
  BY <1>1, FS_CardinalityType
<1> QED BY <1>2, <1>3, <1>4, <1>5

LEMMA OneLess ==
    ASSUME NEW S, NEW T, NEW x \in S, IsFiniteSet(S), T \subseteq S \ {x}
    PROVE  IsFiniteSet(T) /\ Cardinality(T) \in Nat /\ Cardinality(T) + 1 <= Cardinality(S)
<1>1. IsFiniteSet(S \ {x}) /\ Cardinality(S \ {x}) = Cardinality(S) - 1
  BY FS_RemoveElement
<1>2. IsFiniteSet(T) /\ Cardinality(T) <= Cardinality(S \ {x})
  BY <1>1, FS_Subset
<1>3. Cardinality(S) \in Nat /\ Cardinality(T) \in Nat
  BY <1>2, FS_CardinalityType
<1> QED BY <1>1, <1>2, <1>3

\* A handler takes a place among those that passed the test only while a thread and a
\* place under the limit are left for it.
LEMMA BusyMoves ==
    ASSUME TypeOK, [Next]_vars, ~GatewayRestart, IsFiniteSet(Busy)
    PROVE  /\ IsFiniteSet(Busy')
           /\ Admitted' \subseteq Admitted \/ \E c \in Calls :
                 /\ SubmitCheck(c) /\ Admits /\ FreeThread
                 /\ Admitted' \subseteq Admitted \cup {c}
<1>t. pc \in [Calls -> PCs]
  BY DEF TypeOK
<1>1. CASE pc' = pc
  BY <1>1 DEF Busy, Admitted
<1>2. ASSUME NEW c \in Calls, NEW next \in PCs, CallSteps(c), Goto(c, next)
      PROVE  /\ IsFiniteSet(Busy')
             /\ \/ Admitted' \subseteq Admitted
                \/ /\ SubmitCheck(c) /\ Admits /\ FreeThread
                   /\ Admitted' \subseteq Admitted \cup {c}
  <2>1. Busy' \subseteq Busy \cup {c} /\ Admitted' \subseteq Admitted \cup {c}
    BY <1>t, <1>2 DEF Goto, Busy, Admitted
  <2>2. IsFiniteSet(Busy')
    <3>1. IsFiniteSet(Busy \cup {c})
      BY FS_AddElement
    <3> QED BY <2>1, <3>1, FS_Subset
  <2>3. CASE next # "admitted"
    BY <1>t, <1>2, <2>2, <2>3 DEF Goto, Admitted
  <2>4. CASE next = "admitted"
    <3>1. pc'[c] = "admitted"
      BY <1>t, <1>2, <2>4 DEF Goto
    <3>2. (SubmitCheck(c) /\ Admits /\ FreeThread) \/ pc[c] = "admitted"
      BY <1>t, <1>2, <3>1 DEF Goto, CallSteps, Handler, SubmitCheck, InferInsert, SubmitInsert,
            InsertRecord, RegisterCheck, FinishConflict, EnqueueFinish, FailAndDec,
            RegisterInsert, ProduceAck, ProduceError, EnqueueUnregister, ReplayLookup, Snapshot,
            DropHandler, ClientRead, StreamEnd, Disconnect
    <3>3. pc[c] = "admitted" => Admitted' \subseteq Admitted
      BY <2>1 DEF Admitted
    <3> QED BY <2>1, <2>2, <3>2, <3>3
  <2> QED BY <2>3, <2>4
<1> QED BY <1>1, <1>2, HandlersMove

\* A record becomes active where submit inserts it, and nowhere else.
LEMMA ActiveMoves ==
    ASSUME GatewayAssumption, Once, CallInv, OneJobEach, NoneRevived, [Next]_vars, ~GatewayRestart
    PROVE  \/ Active' \subseteq Active
           \/ \E c \in Calls : /\ SubmitInsert(c)
                               /\ Active' \subseteq Active \cup {call[c].id}
<1> USE DEF mapVars
<1>0. TypeOK /\ HeldOffsets
  BY DEF CallInv, TypeInv
<1>t. /\ records \in [RequestIds -> Slot] /\ topic \in [RequestIds -> Seq(Event)]
      /\ \A c \in Calls : call[c].id \in RequestIds
  BY <1>0 DEF TypeOK
<1>1. CASE records' = records
  BY <1>1 DEF Active
<1>2. ASSUME NEW c \in Calls, SubmitInsert(c)
      PROVE  Active' \subseteq Active \cup {call[c].id}
  <2>1. records' = [records EXCEPT ![call[c].id] = queued]
    BY <1>2 DEF SubmitInsert, InsertRecord
  <2> QED BY <1>t, <2>1 DEF Active
<1>3. ASSUME NEW c \in Calls, InferInsert(c) PROVE FALSE
  BY <1>3 DEF InferInsert, OneJobEach
<1>4. ASSUME NEW c \in Calls, FinishConflict(c) \/ EnqueueFinish(c)
      PROVE  Active' \subseteq Active
  <2>1. records' = [records EXCEPT ![call[c].id] = update(@, finish_failed(@))]
    BY <1>4 DEF FinishConflict, EnqueueFinish, FailAndDec
  <2>2. ~IsActive(update(records[call[c].id], finish_failed(records[call[c].id])))
    BY <1>t, Finished
  <2> QED BY <1>t, <2>1, <2>2 DEF Active
<1>5. ASSUME NEW r \in RequestIds, Cancel(r) \/ InferCancel(r) PROVE FALSE
  BY <1>5 DEF Once, Cancel, InferCancel
<1>6. CASE RouterUpdate
  <2>1. /\ router.pc = "update" /\ router.id \in RequestIds
        /\ router.off \in 1 .. Len(topic[router.id])
        /\ records' = [records EXCEPT ![router.id] = ApplyEvent(@, EventAt(router.id, router.off))]
    BY <1>0, <1>6 DEF RouterUpdate, HeldOffsets
  <2>2. EventAt(router.id, router.off) \in Event
    BY <1>t, <2>1 DEF EventAt
  <2>3. Present(records[router.id]) => IsActive(records[router.id])
    BY <2>1 DEF NoneRevived, IsActive
  <2>4. IsActive(records'[router.id]) => IsActive(records[router.id])
    BY <1>t, <2>1, <2>2, <2>3, Applied
  <2> QED BY <1>t, <2>1, <2>4 DEF Active
<1> QED BY <1>0, <1>1, <1>2, <1>3, <1>4, <1>5, <1>6, RecordMoves

LEMMA BoundKept ==
    ASSUME GatewayAssumption, Once, CallInv, OneJobEach, NoneRevived, Bounded, [Next]_vars
    PROVE  Bounded'
<1>0. TypeOK /\ MaxActive \in Nat \ {0} /\ Threads \in Nat \ {0}
  BY DEF CallInv, TypeInv, GatewayAssumption
<1>1. CASE GatewayRestart
  <2>1. Active' = {}
    BY <1>1, Finished DEF GatewayRestart, Active, Slot
  <2>2. Busy' = {} /\ Admitted' = {}
    BY <1>1 DEF GatewayRestart, Busy, Admitted, OnThread
  <2>3. /\ IsFiniteSet(Active') /\ IsFiniteSet(Busy')
        /\ Cardinality(Active') = 0 /\ Cardinality(Admitted') = 0
    BY <2>1, <2>2, FS_EmptySet
  <2> QED BY <1>0, <2>3 DEF Bounded
<1>2. CASE ~GatewayRestart
  <2>f. /\ IsFiniteSet(Active) /\ IsFiniteSet(Busy)
        /\ Cardinality(Active) + Cardinality(Admitted) <= MaxActive + Threads - 1
    BY DEF Bounded
  <2>a. IsFiniteSet(Admitted) /\ Cardinality(Admitted) <= Cardinality(Busy)
    <3>1. Admitted \subseteq Busy
      BY DEF Admitted, Busy, OnThread
    <3> QED BY <2>f, <3>1, FS_Subset
  <2>n. Cardinality(Active) \in Nat /\ Cardinality(Admitted) \in Nat /\ Cardinality(Busy) \in Nat
    BY <2>f, <2>a, FS_CardinalityType
  <2>b. IsFiniteSet(Busy')
    BY <1>0, <1>2, <2>f, BusyMoves
  <2>1. ASSUME NEW c \in Calls, SubmitCheck(c), Admits, FreeThread, Admitted' \subseteq Admitted \cup {c}
        PROVE  Bounded'
    <3>1. Active' = Active
      BY <2>1 DEF SubmitCheck, mapVars, Active
    <3>2. Cardinality(Active) < MaxActive
      BY <2>1 DEF Admits, ActiveCount, Active
    <3>3. Cardinality(Busy) < Threads
      BY <2>1 DEF FreeThread, Busy
    <3>4. Cardinality(Admitted') \in Nat /\ Cardinality(Admitted') <= Cardinality(Admitted) + 1
      BY <2>a, <2>1, OneMore
    <3>5. Cardinality(Active') + Cardinality(Admitted') <= MaxActive + Threads - 1
      BY <1>0, <2>a, <2>n, <3>1, <3>2, <3>3, <3>4
    <3> QED BY <2>f, <2>b, <3>1, <3>5 DEF Bounded
  <2>2. CASE Admitted' \subseteq Admitted
    <3>1. IsFiniteSet(Admitted') /\ Cardinality(Admitted') <= Cardinality(Admitted)
      BY <2>a, <2>2, FS_Subset
    <3>2. Cardinality(Admitted') \in Nat
      BY <3>1, FS_CardinalityType
    <3>3. CASE Active' \subseteq Active
      <4>1. IsFiniteSet(Active') /\ Cardinality(Active') <= Cardinality(Active)
        BY <2>f, <3>3, FS_Subset
      <4>2. Cardinality(Active') \in Nat
        BY <4>1, FS_CardinalityType
      <4>3. Cardinality(Active') + Cardinality(Admitted') <= MaxActive + Threads - 1
        BY <1>0, <2>f, <2>n, <3>1, <3>2, <4>1, <4>2
      <4> QED BY <2>b, <4>1, <4>3 DEF Bounded
    <3>4. ASSUME NEW c \in Calls, SubmitInsert(c), Active' \subseteq Active \cup {call[c].id}
          PROVE  Bounded'
      <4>1. /\ IsFiniteSet(Active') /\ Cardinality(Active') \in Nat
            /\ Cardinality(Active') <= Cardinality(Active) + 1
        BY <2>f, <3>4, OneMore
      <4>2. c \in Admitted /\ c \notin Admitted'
        BY <1>0, <3>4 DEF SubmitInsert, InsertRecord, Goto, Admitted, TypeOK
      <4>3. Admitted' \subseteq Admitted \ {c}
        BY <2>2, <4>2
      <4>4. Cardinality(Admitted') + 1 <= Cardinality(Admitted)
        BY <2>a, <4>2, <4>3, OneLess
      <4>5. Cardinality(Active') + Cardinality(Admitted') <= MaxActive + Threads - 1
        BY <1>0, <2>f, <2>n, <3>2, <4>1, <4>4
      <4> QED BY <2>b, <4>1, <4>5 DEF Bounded
    <3> QED BY <1>2, <3>3, <3>4, ActiveMoves
  <2> QED BY <1>0, <1>2, <2>f, <2>1, <2>2, BusyMoves
<1> QED BY <1>1, <1>2

LEMMA AdmissionInvInitially == ASSUME GatewayAssumption, Once, Init PROVE AdmissionInv
<1>1. CallInv /\ LogsBegun
  BY StreamInvInitially DEF StreamInv
<1>2. /\ call \in [Calls -> [kind : Endpoints \cap {"submit", "infer", "replay"}, id : RequestIds]]
      /\ \A c, d \in Calls : c # d /\ call[c].id = call[d].id
             => (call[c].kind = "replay") # (call[d].kind = "replay")
      /\ pc = [c \in Calls |-> "idle"] /\ records = [r \in RequestIds |-> NoRecord]
      /\ topic = [r \in RequestIds |-> <<>>]
  BY DEF Init, Once
<1>3. OneJobEach
  BY <1>2 DEF OneJobEach, SoleJob, Once
<1>4. EndsOnce /\ FailsUndelivered
  BY <1>2 DEF EndsOnce, FailsUndelivered
<1>5. NoneRevived /\ Active = {}
  BY <1>2, Finished DEF NoneRevived, Active, Slot
<1>6. Bounded
  <2>1. Busy = {} /\ Admitted = {}
    BY <1>2 DEF Busy, Admitted, OnThread
  <2>2. /\ IsFiniteSet(Active) /\ IsFiniteSet(Busy)
        /\ Cardinality(Active) = 0 /\ Cardinality(Admitted) = 0
    BY <1>5, <2>1, FS_EmptySet
  <2> QED BY <2>2 DEF Bounded, GatewayAssumption
<1> QED BY <1>1, <1>3, <1>4, <1>5, <1>6 DEF AdmissionInv

LEMMA AdmissionInvKept ==
    ASSUME GatewayAssumption, Once, AdmissionInv, [Next]_vars PROVE AdmissionInv'
<1>1. /\ CallInv /\ LogsBegun /\ OneJobEach /\ EndsOnce /\ FailsUndelivered
      /\ NoneRevived /\ Bounded /\ call' = call
  BY StreamSteps DEF AdmissionInv
<1>2. OneJobEach'
  BY <1>1 DEF OneJobEach, SoleJob
<1>3. "ambiguous" \notin Faults
  BY DEF Once
<1> QED BY <1>1, <1>2, <1>3, CallInvKept, LogsBegunKept, EndsOnceKept, FailsUndeliveredKept,
           NoneRevivedKept, BoundKept DEF AdmissionInv

\* Although submit counts the active requests and inserts its own in two steps, the
\* limit is passed by at most one request per runtime thread but one, for every
\* number of calls: what passed the test and is not in the map yet is on a thread.
\* (Submit and replays of it, each id once; jobs delivered as the producer says and
\* processed once.)
THEOREM AdmissionIsBounded == ASSUME Once PROVE Spec => []AdmissionBound
<1>1. Init => AdmissionInv
  BY GatewayAssumption, Once, AdmissionInvInitially
<1>2. AdmissionInv /\ [Next]_vars => AdmissionInv'
  BY GatewayAssumption, Once, AdmissionInvKept
<1>3. AdmissionInv => AdmissionBound
  <2> SUFFICES ASSUME AdmissionInv PROVE Cardinality(Active) <= MaxActive + Threads - 1
    BY DEF AdmissionBound, ActiveCount, Active
  <2>1. /\ IsFiniteSet(Active) /\ IsFiniteSet(Busy)
        /\ Cardinality(Active) + Cardinality(Admitted) <= MaxActive + Threads - 1
    BY DEF AdmissionInv, Bounded
  <2>2. Admitted \subseteq Busy
    BY DEF Admitted, Busy, OnThread
  <2>3. IsFiniteSet(Admitted)
    BY <2>1, <2>2, FS_Subset
  <2>4. Cardinality(Active) \in Nat /\ Cardinality(Admitted) \in Nat
    BY <2>1, <2>3, FS_CardinalityType
  <2> QED BY <2>1, <2>4, GatewayAssumption DEF GatewayAssumption
<1> QED BY <1>1, <1>2, <1>3, PTL DEF Spec

-----------------------------------------------------------------------------
(* The gauge                                                               *)

\* A call stays billed, or not, until submit counts it or cleans up after it.
LEMMA BilledStays ==
    ASSUME GatewayAssumption, OrderlyOnce, CallInv, NothingAbandoned, FailsUndelivered,
           [Next]_vars, NEW c \in Calls, ~SubmitInsert(c), ~FinishConflict(c), ~EnqueueFinish(c)
    PROVE  c \in Billed' <=> c \in Billed
<1>0. TypeOK /\ KindsApart /\ JobsFollow /\ call' = call
  BY StreamSteps DEF CallInv, TypeInv
<1>t. /\ pc \in [Calls -> PCs] /\ job \in [Calls -> JobStates]
      /\ call[c].kind \in {"submit", "replay"}
  BY <1>0 DEF TypeOK, OrderlyOnce, Orderly
<1>f. ~GatewayRestart /\ ~DropHandler(c) /\ ~WorkerCrash(c) /\ ~InferInsert(c)
  BY <1>0, <1>t DEF OrderlyOnce, Orderly, GatewayRestart, DropHandler, WorkerCrash, InferInsert,
                    TypeOK
<1> DEFINE Due(p, j) == \/ p \in {"inserted", "unique", "conflict", "producing",
                                  "enqueueFailed", "unregistered"}
                        \/ j \in HasReached
<1>d. /\ c \in Billed <=> call[c].kind # "replay" /\ Due(pc[c], job[c])
      /\ c \in Billed' <=> call[c].kind # "replay" /\ Due(pc'[c], job'[c])
  BY <1>0 DEF Billed
<1>g. SUFFICES ASSUME call[c].kind = "submit" PROVE Due(pc'[c], job'[c]) <=> Due(pc[c], job[c])
  BY <1>d, <1>t
<1> USE <1>0, <1>t, <1>g DEF KindsApart, JobsFollow, BeforeRegister, Goto, HasReached
<1>1. CASE pc'[c] = pc[c] /\ job'[c] = job[c]
  BY <1>1
<1>2. CASE (SubmitCheck(c) \/ RegisterCheck(c) \/ ReplayLookup(c) \/ Snapshot(c)) /\ job'[c] = job[c]
  BY <1>2 DEF SubmitCheck, RegisterCheck, ReplayLookup, Snapshot
<1>3. CASE (ProduceAck(c) \/ ProduceError(c) \/ EnqueueUnregister(c)) /\ job'[c] = job[c]
  BY <1>3 DEF ProduceAck, ProduceError, EnqueueUnregister, Delivered
<1>4. CASE (StreamEnd(c) \/ Disconnect(c)) /\ job'[c] = job[c]
  BY <1>4 DEF StreamEnd, Disconnect
<1>5. CASE RegisterInsert(c)
  BY <1>5 DEF RegisterInsert
<1>6. CASE pc'[c] = pc[c] /\ (Deliver(c) \/ Lose(c))
  BY <1>6 DEF Deliver, Lose, NothingAbandoned
<1>7. CASE pc'[c] = pc[c] /\ (WorkerStart(c) \/ WorkerFinish(c) \/ WorkerCommit(c))
  BY <1>7 DEF WorkerStart, WorkerFinish, WorkerCommit
<1>8. Moves(c)
  BY <1>f, CallMoves
<1> QED BY <1>f, <1>1, <1>2, <1>3, <1>4, <1>5, <1>6, <1>7, <1>8 DEF Moves

\* The gauge goes with them, and down where the router sees an end.
LEMMA BilledMoves ==
    ASSUME GatewayAssumption, OrderlyOnce, CallInv, NothingAbandoned, FailsUndelivered,
           [Next]_vars
    PROVE  \/ Billed' = Billed /\ (activeStreams' = activeStreams \/ RouterUpdate)
           \/ \E c \in Calls : /\ c \notin Billed /\ Billed' = Billed \cup {c}
                               /\ activeStreams' = activeStreams + 1
           \/ \E c \in Billed : /\ Billed' = Billed \ {c}
                                /\ activeStreams' = activeStreams - 1
<1>0. TypeOK /\ KindsApart /\ JobsFollow /\ call' = call
  BY StreamSteps DEF CallInv, TypeInv
<1>t. pc \in [Calls -> PCs] /\ job \in [Calls -> JobStates]
  BY <1>0 DEF TypeOK
<1>s. Billed \subseteq Calls /\ Billed' \subseteq Calls
  BY DEF Billed
<1>f. ~GatewayRestart /\ \A c \in Calls : ~InferInsert(c)
  BY <1>0 DEF OrderlyOnce, Orderly, GatewayRestart, InferInsert, TypeOK
<1>1. ASSUME NEW c \in Calls, SubmitInsert(c)
      PROVE  /\ c \notin Billed /\ Billed' = Billed \cup {c}
             /\ activeStreams' = activeStreams + 1
  <2>1. /\ pc[c] = "admitted" /\ pc' = [pc EXCEPT ![c] = "inserted"] /\ job' = job
        /\ activeStreams' = activeStreams + 1
    BY <1>1 DEF SubmitInsert, InsertRecord, Goto, workerVars
  <2>2. job[c] = "none" /\ call[c].kind # "replay"
    BY <1>0, <2>1 DEF JobsFollow, BeforeRegister, KindsApart
  <2> QED BY <1>0, <1>t, <2>1, <2>2 DEF Billed, HasReached
<1>2. ASSUME NEW c \in Calls, FinishConflict(c) \/ EnqueueFinish(c)
      PROVE  /\ c \in Billed /\ Billed' = Billed \ {c}
             /\ activeStreams' = activeStreams - 1
  <2>1. /\ pc[c] \in {"conflict", "unregistered"} /\ pc' = [pc EXCEPT ![c] = "failed"]
        /\ job' = job /\ activeStreams' = activeStreams - 1
    BY <1>2 DEF FinishConflict, EnqueueFinish, FailAndDec, Goto, workerVars
  <2>2. job[c] \in {"none", "lost"} /\ call[c].kind # "replay"
    BY <1>0, <2>1 DEF JobsFollow, KindsApart, FailsUndelivered
  <2> QED BY <1>0, <1>t, <2>1, <2>2 DEF Billed, HasReached
<1>3. CASE \A c \in Calls : ~SubmitInsert(c) /\ ~FinishConflict(c) /\ ~EnqueueFinish(c)
  <2>1. Billed' = Billed
    BY <1>3, <1>s, BilledStays
  <2>2. ASSUME NEW r \in RequestIds, Cancel(r) \/ InferCancel(r) PROVE activeStreams' = activeStreams
    BY <2>2 DEF Cancel, InferCancel, AcceptCancel
  <2> QED BY <1>0, <1>f, <1>3, <2>1, <2>2, RecordMoves
<1> QED BY <1>1, <1>2, <1>3

\* Unless an event is published, the ended jobs and the ends stay.
LEMMA EndedStays ==
    ASSUME GatewayAssumption, OrderlyOnce, CallInv, [Next]_vars, topic' = topic
    PROVE  JobsEnded' = JobsEnded /\ Ends' = Ends
<1>0. TypeOK /\ JobsFollow
  BY DEF CallInv, TypeInv
<1>t. /\ job \in [Calls -> JobStates] /\ topic \in [RequestIds -> Seq(Event)]
      /\ \A c \in Calls : call[c].id \in RequestIds
  BY <1>0 DEF TypeOK
<1>1. ASSUME NEW c \in Calls PROVE job'[c] \in {"emitted", "done"} <=> job[c] \in {"emitted", "done"}
  <2>1. ~GatewayRestart /\ ~WorkerCrash(c)
    BY <1>0 DEF OrderlyOnce, Orderly, GatewayRestart, WorkerCrash, TypeOK
  <2>2. ~WorkerFinish(c)
    <3>1. ASSUME NEW type \in TerminalTypes, Publish(c, type, seq[c]) PROVE FALSE
      <4>1. type \in EventTypes /\ seq[c] \in Nat
        BY <1>0 DEF EventTypes, TypeOK, GatewayAssumption
      <4>2. Len(topic'[call[c].id]) = Len(topic[call[c].id]) + 1
        BY <1>0, <3>1, <4>1, Appends
      <4>3. Len(topic[call[c].id]) \in Nat
        BY <1>t
      <4> QED BY <4>2, <4>3
    <3> QED BY <3>1 DEF WorkerFinish
  <2>3. CASE RegisterInsert(c)
    BY <1>0, <1>t, <2>3 DEF RegisterInsert, JobsFollow, BeforeRegister
  <2>4. CASE Deliver(c) \/ Lose(c) \/ WorkerStart(c) \/ WorkerCommit(c)
    BY <1>t, <2>4 DEF Deliver, Lose, WorkerStart, WorkerCommit
  <2>5. Moves(c)
    BY <1>0, <2>1, CallMoves
  <2> QED BY <2>1, <2>2, <2>3, <2>4, <2>5 DEF Moves
<1>2. JobsEnded' = JobsEnded
  BY <1>1 DEF JobsEnded
<1>3. Ends' = Ends
  BY DEF Ends, IsTerminalAt, EventAt
<1> QED BY <1>2, <1>3

\* A publication ends a job when it adds an end, which the router has yet to see.
LEMMA EndedMoves ==
    ASSUME GatewayAssumption, OrderlyOnce, CallInv, [Next]_vars, topic' # topic
    PROVE  /\ activeStreams' = activeStreams /\ EndsCounted' = EndsCounted
           /\ \/ JobsEnded' = JobsEnded /\ Ends' = Ends
              \/ /\ \E c \in Calls : c \notin JobsEnded /\ JobsEnded' = JobsEnded \cup {c}
                 /\ \E e : e \notin Ends /\ Ends' = Ends \cup {e}
<1>0. TypeOK /\ TypeOK' /\ RouterPlaced
  BY StepTyped DEF CallInv, TypeInv
<1>t. /\ job \in [Calls -> JobStates] /\ topic \in [RequestIds -> Seq(Event)]
      /\ position \in [RequestIds -> Nat]
  BY <1>0 DEF TypeOK
<1>1. PICK c \in Calls, type \in EventTypes, n \in Nat :
         /\ Publish(c, type, n)
         /\ UNCHANGED <<call, pc, records, position, joined, router, activeStreams>>
         /\ \/ WorkerStart(c) /\ type = "STARTED"
            \/ WorkerToken(c) /\ type = "TOKEN"
            \/ WorkerFinish(c) /\ type \in TerminalTypes
  BY <1>0, LogSteps DEF OrderlyOnce, Orderly, StrayEvent
<1>2. PICK r \in RequestIds, len \in Nat :
         /\ r = call[c].id /\ len = Len(topic[r]) /\ Len(topic'[r]) = len + 1
         /\ topic'[r][len + 1].type = type
         /\ \A i \in 1 .. len : topic'[r][i] = topic[r][i]
         /\ \A q \in RequestIds : q # r => topic'[q] = topic[q]
  <2>1. call[c].id \in RequestIds
    BY <1>0 DEF TypeOK
  <2>2. Len(topic[call[c].id]) \in Nat
    BY <1>t, <2>1
  <2>3. /\ Len(topic'[call[c].id]) = Len(topic[call[c].id]) + 1
        /\ topic'[call[c].id][Len(topic'[call[c].id])].type = type
        /\ \A i \in 1 .. Len(topic[call[c].id]) : topic'[call[c].id][i] = topic[call[c].id][i]
        /\ \A q \in RequestIds : q # call[c].id => topic'[q] = topic[q]
    BY <1>0, <1>1, Appends
  <2> QED BY <2>1, <2>2, <2>3
<1>3. \A q \in RequestIds : \A i \in Nat : <<q, i>> # <<r, len + 1>> =>
         (<<q, i>> \in Ends' <=> <<q, i>> \in Ends)
  <2> TAKE q \in RequestIds, i \in Nat
  <2>1. <<q, i>> \in Ends <=> i \in 1 .. Len(topic[q]) /\ topic[q][i].type \in TerminalTypes
    BY DEF Ends, IsTerminalAt, EventAt
  <2>2. <<q, i>> \in Ends' <=> i \in 1 .. Len(topic'[q]) /\ topic'[q][i].type \in TerminalTypes
    BY DEF Ends, IsTerminalAt, EventAt
  <2>3. CASE q = r /\ i # len + 1
    <3>1. i \in 1 .. Len(topic[r]) <=> i \in 1 .. len
      BY <1>2
    <3>2. i \in 1 .. Len(topic'[r]) <=> i \in 1 .. len
      BY <1>2, <2>3
    <3>3. i \in 1 .. len => topic'[r][i] = topic[r][i]
      BY <1>2
    <3> QED BY <2>1, <2>2, <2>3, <3>1, <3>2, <3>3
  <2>4. CASE q # r
    BY <1>2, <2>1, <2>2, <2>4
  <2> QED BY <2>3, <2>4
<1>4. <<r, len + 1>> \notin Ends /\ (<<r, len + 1>> \in Ends' <=> type \in TerminalTypes)
  <2>1. <<r, len + 1>> \notin Ends
    BY <1>2 DEF Ends
  <2>2. <<r, len + 1>> \in Ends' <=> topic'[r][len + 1].type \in TerminalTypes
    BY SMTT(30), <1>2 DEF Ends, IsTerminalAt, EventAt
  <2> QED BY <1>2, <2>1, <2>2
<1>5. Ends \subseteq RequestIds \X Nat /\ Ends' \subseteq RequestIds \X Nat
  BY DEF Ends
<1>6. position[r] <= len /\ position[r] \in Nat /\ position' = position /\ router' = router
  BY <1>0, <1>1, <1>2, <1>t DEF RouterPlaced
<1>7. EndsCounted' = EndsCounted
  <2>1. \A q \in RequestIds : Counted(q)' = Counted(q)
    BY <1>6 DEF Counted
  <2>2. ~(len + 1 <= Counted(r))
    BY <1>6 DEF Counted
  <2>3. ASSUME NEW q \in RequestIds, NEW i \in Nat
        PROVE  <<q, i>> \in EndsCounted' <=> <<q, i>> \in EndsCounted
    <3>1. CASE <<q, i>> = <<r, len + 1>>
      BY <2>1, <2>2, <3>1 DEF EndsCounted
    <3>2. CASE <<q, i>> # <<r, len + 1>>
      BY <1>3, <2>1, <3>2 DEF EndsCounted
    <3> QED BY <3>1, <3>2
  <2>4. EndsCounted \subseteq RequestIds \X Nat /\ EndsCounted' \subseteq RequestIds \X Nat
    BY <1>5 DEF EndsCounted
  <2> QED BY <2>3, <2>4
<1>8. CASE type \in TerminalTypes
  <2>1. WorkerFinish(c)
    BY <1>1, <1>8 DEF TerminalTypes
  <2>2. job[c] = "running" /\ job' = [job EXCEPT ![c] = "emitted"]
    BY <2>1 DEF WorkerFinish
  <2>3. c \notin JobsEnded /\ JobsEnded' = JobsEnded \cup {c}
    BY <1>t, <2>2 DEF JobsEnded
  <2>4. Ends' = Ends \cup {<<r, len + 1>>}
    BY <1>3, <1>4, <1>5, <1>8
  <2> QED BY <1>1, <1>4, <1>7, <2>3, <2>4
<1>9. CASE type \notin TerminalTypes
  <2>1. WorkerStart(c) \/ WorkerToken(c)
    BY <1>1, <1>9
  <2>2. job[c] \in {"queued", "running"} /\ job' = [job EXCEPT ![c] = "running"]
    BY <1>t, <2>1 DEF WorkerStart, WorkerToken
  <2>3. JobsEnded' = JobsEnded
    BY <1>t, <2>2 DEF JobsEnded
  <2>4. \A q \in RequestIds : \A i \in Nat : <<q, i>> \in Ends' <=> <<q, i>> \in Ends
    BY <1>3, <1>4, <1>9
  <2>5. Ends' = Ends
    BY <1>5, <2>4
  <2> QED BY <1>1, <1>7, <2>3, <2>5
<1> QED BY <1>8, <1>9

\* The router has counted what it has polled, but for the event it has yet to apply.
LEMMA CountedStays ==
    ASSUME GatewayAssumption, OrderlyOnce, CallInv, Assigned, [Next]_vars, topic' = topic,
           ~RouterUpdate
    PROVE  EndsCounted' = EndsCounted
<1> USE DEF mapVars, chanVars, taskVars, metricVars, consVars, workerVars, cancelVars
<1>0. TypeOK /\ RouterPlaced /\ call' = call
  BY StreamSteps DEF CallInv, TypeInv
<1>t. position \in [RequestIds -> Nat] /\ router \in RouterState
  BY <1>0 DEF TypeOK
<1>f. ~GatewayRestart /\ ~Assign
  BY <1>0 DEF OrderlyOnce, Orderly, GatewayRestart, Assign, Assigned, MissedNothing, TypeOK
<1>1. \A r \in RequestIds : Counted(r)' = Counted(r)
  <2>1. ASSUME NEW q \in RequestIds, RouterPoll(q)
        PROVE  \A r \in RequestIds : Counted(r)' = Counted(r)
    <3>1. /\ position' = [position EXCEPT ![q] = position[q] + 1] /\ router.pc = "poll"
          /\ router' = [pc |-> "update", id |-> q, off |-> position[q] + 1, chan |-> NoCall]
      BY <2>1 DEF RouterPoll
    <3> QED BY <1>t, <3>1 DEF Counted
  <2>2. ASSUME RouterLookup \/ RouterSend \/ RouterUnregister
        PROVE  \A r \in RequestIds : Counted(r)' = Counted(r)
    <3>1. position' = position /\ router.pc # "update"
      BY <2>2 DEF RouterLookup, RouterSend, RouterUnregister
    <3>2. AfterSend.pc # "update"
      BY <1>t DEF AfterSend, IdleRouter, RouterState
    <3>3. \/ router' = [router EXCEPT !.pc = "send", !.chan = registry[router.id]]
          \/ router' = AfterSend \/ router' = IdleRouter
      BY <2>2 DEF RouterLookup, RouterSend, RouterUnregister
    <3>4. /\ [router EXCEPT !.pc = "send", !.chan = registry[router.id]].pc = "send"
          /\ IdleRouter.pc = "poll"
      BY <1>t DEF IdleRouter, RouterState
    <3>5. router'.pc # "update"
      BY <3>2, <3>3, <3>4
    <3> QED BY <3>1, <3>5 DEF Counted
  <2>3. CASE /\ ~RouterLookup /\ ~RouterSend /\ ~RouterUnregister
             /\ \A q \in RequestIds : ~RouterPoll(q)
    <3>1. router' = router
      BY <1>f, <2>3, RouterSteps
    <3>2. position' = position
      <4>1. ASSUME NEW d \in Calls, RegisterInsert(d) \/ TaskSend(d) PROVE position' = position
        BY <4>1 DEF RegisterInsert, TaskSend
      <4>2. Unobtrusive => position' = position
        BY DEF Unobtrusive
      <4> QED BY <1>0, <1>f, <2>3, <4>1, <4>2, StreamSteps
    <3> QED BY <3>1, <3>2 DEF Counted
  <2> QED BY <2>1, <2>2, <2>3
<1>2. Ends' = Ends /\ Ends \subseteq RequestIds \X Nat
  BY EndedStays DEF Ends
<1> QED BY <1>1, <1>2 DEF EndsCounted

\* The gauge goes down for the end that the router notes, and for no other event.
LEMMA CountedMoves ==
    ASSUME GatewayAssumption, OrderlyOnce, CallInv, [Next]_vars, RouterUpdate
    PROVE  /\ topic' = topic /\ Billed' = Billed
           /\ \/ EndsCounted' = EndsCounted /\ activeStreams' = activeStreams
              \/ \E e : /\ e \notin EndsCounted /\ EndsCounted' = EndsCounted \cup {e}
                        /\ activeStreams' = activeStreams - 1
<1> USE DEF mapVars, chanVars, taskVars, metricVars, consVars, workerVars, cancelVars
<1>0. TypeOK /\ RouterPlaced /\ HeldOffsets
  BY DEF CallInv, TypeInv
<1>t. position \in [RequestIds -> Nat] /\ router \in RouterState /\ activeStreams \in Int
  BY <1>0 DEF TypeOK
<1>1. /\ router.pc = "update" /\ UNCHANGED <<topic, position, job, pc, call>>
      /\ router' = [router EXCEPT !.pc = "lookup"]
      /\ activeStreams' = activeStreams -
            (IF topic[router.id][router.off].type \in TerminalTypes THEN 1 ELSE 0)
  BY DEF RouterUpdate, RoutedType, EventAt
<1>2. PICK q \in RequestIds, off \in Nat \ {0} :
         /\ q = router.id /\ off = router.off /\ off = position[q] /\ off \in 1 .. Len(topic[q])
  BY <1>0, <1>1, <1>t DEF RouterPlaced, HeldOffsets
<1>3. router'.pc = "lookup"
  <2>1. [router EXCEPT !.pc = "lookup"].pc = "lookup"
    BY <1>t DEF RouterState
  <2> QED BY <1>1, <2>1
<1>4. /\ Counted(q) = off - 1 /\ Counted(q)' = off
      /\ \A r \in RequestIds : r # q => Counted(r)' = Counted(r)
  BY <1>1, <1>2, <1>3 DEF Counted
<1>5. /\ Ends' = Ends /\ Ends \subseteq RequestIds \X Nat
      /\ <<q, off>> \in Ends <=> topic[q][off].type \in TerminalTypes
  <2>1. Ends' = Ends
    BY <1>1 DEF Ends, IsTerminalAt, EventAt
  <2>2. <<q, off>> \in Ends <=> topic[q][off].type \in TerminalTypes
    BY <1>2 DEF Ends, IsTerminalAt, EventAt
  <2> QED BY <2>1, <2>2 DEF Ends
<1>6. \A r \in RequestIds : \A i \in Nat :
         <<r, i>> \in EndsCounted' <=>
            <<r, i>> \in EndsCounted \/ (r = q /\ i = off /\ <<q, off>> \in Ends)
  <2> TAKE r \in RequestIds, i \in Nat
  <2>1. <<r, i>> \in EndsCounted <=> <<r, i>> \in Ends /\ i <= Counted(r)
    BY DEF EndsCounted
  <2>2. <<r, i>> \in EndsCounted' <=> <<r, i>> \in Ends /\ i <= Counted(r)'
    BY <1>5 DEF EndsCounted
  <2>3. CASE r = q
    BY <1>2, <1>4, <2>1, <2>2, <2>3
  <2>4. CASE r # q
    BY <1>4, <2>1, <2>2, <2>4
  <2> QED BY <2>3, <2>4
<1>7. EndsCounted \subseteq RequestIds \X Nat /\ EndsCounted' \subseteq RequestIds \X Nat
  BY <1>5 DEF EndsCounted
<1>8. Billed' = Billed
  BY <1>1 DEF Billed
<1>9. CASE <<q, off>> \in Ends
  <2>1. <<q, off>> \notin EndsCounted
    BY <1>2, <1>4 DEF EndsCounted
  <2>2. EndsCounted' = EndsCounted \cup {<<q, off>>}
    BY <1>6, <1>7, <1>9
  <2>3. activeStreams' = activeStreams - 1
    BY <1>1, <1>2, <1>5, <1>9
  <2> QED BY <1>1, <1>8, <2>1, <2>2, <2>3
<1>10. CASE <<q, off>> \notin Ends
  <2>1. \A r \in RequestIds : \A i \in Nat : <<r, i>> \in EndsCounted' <=> <<r, i>> \in EndsCounted
    BY <1>6, <1>10
  <2>2. EndsCounted' = EndsCounted
    BY <1>7, <2>1
  <2>3. activeStreams' = activeStreams
    BY <1>1, <1>2, <1>5, <1>10, <1>t
  <2> QED BY <1>1, <1>8, <2>2, <2>3
<1> QED BY <1>9, <1>10

\* One element more, one element less.
LEMMA Gains ==
    ASSUME NEW S, NEW x, x \notin S, IsFiniteSet(S)
    PROVE  IsFiniteSet(S \cup {x}) /\ Cardinality(S \cup {x}) = Cardinality(S) + 1
  BY FS_AddElement

LEMMA Loses ==
    ASSUME NEW S, NEW x \in S, IsFiniteSet(S)
    PROVE  IsFiniteSet(S \ {x}) /\ Cardinality(S \ {x}) = Cardinality(S) - 1
  BY FS_RemoveElement

\* The sets that are counted are finite, and bound one another.
LEMMA Countable ==
    ASSUME CallInv, GaugeExact
    PROVE  /\ IsFiniteSet(Billed) /\ IsFiniteSet(Ends)
           /\ IsFiniteSet(JobsEnded) /\ IsFiniteSet(EndsCounted)
           /\ Cardinality(Billed) \in Nat /\ Cardinality(Ends) \in Nat
           /\ Cardinality(JobsEnded) \in Nat /\ Cardinality(EndsCounted) \in Nat
           /\ Cardinality(JobsEnded) <= Cardinality(Billed)
           /\ Cardinality(EndsCounted) <= Cardinality(Ends)
<1>1. JobsEnded \subseteq Billed /\ EndsCounted \subseteq Ends
  BY DEF CallInv, JobsFollow, JobsEnded, Billed, HasReached, EndsCounted
<1>2. IsFiniteSet(Billed) /\ IsFiniteSet(Ends)
  BY DEF GaugeExact
<1>3. /\ IsFiniteSet(JobsEnded) /\ Cardinality(JobsEnded) <= Cardinality(Billed)
      /\ IsFiniteSet(EndsCounted) /\ Cardinality(EndsCounted) <= Cardinality(Ends)
  BY <1>1, <1>2, FS_Subset
<1> QED BY <1>2, <1>3, FS_CardinalityType

LEMMA GaugeExactKept ==
    ASSUME GatewayAssumption, OrderlyOnce, GaugeInv, [Next]_vars PROVE GaugeExact'
<1>0. /\ CallInv /\ Assigned /\ NothingAbandoned /\ FailsUndelivered /\ GaugeExact
      /\ activeStreams \in Int
  BY DEF GaugeInv, CallInv, TypeInv, TypeOK
<1>e. /\ Cardinality(JobsEnded) = Cardinality(Ends)
      /\ activeStreams = Cardinality(Billed) - Cardinality(EndsCounted)
  BY <1>0 DEF GaugeExact
<1>c. /\ IsFiniteSet(Billed) /\ IsFiniteSet(Ends)
      /\ IsFiniteSet(JobsEnded) /\ IsFiniteSet(EndsCounted)
      /\ Cardinality(Billed) \in Nat /\ Cardinality(Ends) \in Nat
      /\ Cardinality(JobsEnded) \in Nat /\ Cardinality(EndsCounted) \in Nat
  BY <1>0, Countable
<1>1. /\ IsFiniteSet(Ends') /\ Cardinality(JobsEnded') = Cardinality(Ends')
  <2>1. CASE JobsEnded' = JobsEnded /\ Ends' = Ends
    BY <1>e, <1>c, <2>1
  <2>2. ASSUME NEW c \in Calls, c \notin JobsEnded, JobsEnded' = JobsEnded \cup {c},
               NEW e, e \notin Ends, Ends' = Ends \cup {e}
        PROVE  IsFiniteSet(Ends') /\ Cardinality(JobsEnded') = Cardinality(Ends')
    <3>1. Cardinality(JobsEnded') = Cardinality(JobsEnded) + 1
      BY <1>c, <2>2, Gains
    <3>2. IsFiniteSet(Ends') /\ Cardinality(Ends') = Cardinality(Ends) + 1
      BY <1>c, <2>2, Gains
    <3> QED BY <1>e, <3>1, <3>2
  <2> QED BY <1>0, <2>1, <2>2, EndedStays, EndedMoves
<1>2. IsFiniteSet(Billed') /\ activeStreams' = Cardinality(Billed') - Cardinality(EndsCounted')
  <2>1. CASE RouterUpdate
    <3>1. Billed' = Billed
      BY <1>0, <2>1, CountedMoves
    <3>2. CASE EndsCounted' = EndsCounted /\ activeStreams' = activeStreams
      BY <1>e, <1>c, <3>1, <3>2
    <3>3. ASSUME NEW e, e \notin EndsCounted, EndsCounted' = EndsCounted \cup {e},
                 activeStreams' = activeStreams - 1
          PROVE  activeStreams' = Cardinality(Billed') - Cardinality(EndsCounted')
      <4>1. Cardinality(EndsCounted') = Cardinality(EndsCounted) + 1
        BY <1>c, <3>3, Gains
      <4> QED BY <1>e, <1>c, <3>1, <3>3, <4>1
    <3> QED BY <1>0, <1>c, <2>1, <3>1, <3>2, <3>3, CountedMoves
  <2>2. CASE ~RouterUpdate
    <3>1. EndsCounted' = EndsCounted
      BY <1>0, <2>2, CountedStays, EndedMoves
    <3>2. CASE Billed' = Billed /\ activeStreams' = activeStreams
      BY <1>e, <1>c, <3>1, <3>2
    <3>3. ASSUME NEW c \in Calls, c \notin Billed, Billed' = Billed \cup {c},
                 activeStreams' = activeStreams + 1
          PROVE  IsFiniteSet(Billed') /\ activeStreams' = Cardinality(Billed') - Cardinality(EndsCounted')
      <4>1. IsFiniteSet(Billed') /\ Cardinality(Billed') = Cardinality(Billed) + 1
        BY <1>c, <3>3, Gains
      <4> QED BY <1>e, <1>c, <3>1, <3>3, <4>1
    <3>4. ASSUME NEW c \in Billed, Billed' = Billed \ {c}, activeStreams' = activeStreams - 1
          PROVE  IsFiniteSet(Billed') /\ activeStreams' = Cardinality(Billed') - Cardinality(EndsCounted')
      <4>1. IsFiniteSet(Billed') /\ Cardinality(Billed') = Cardinality(Billed) - 1
        BY <1>c, <3>4, Loses
      <4> QED BY <1>e, <1>c, <3>1, <3>4, <4>1
    <3> QED BY <1>0, <2>2, <3>2, <3>3, <3>4, BilledMoves
  <2> QED BY <2>1, <2>2
<1> QED BY <1>1, <1>2 DEF GaugeExact

LEMMA GaugeInvInitially == ASSUME GatewayAssumption, Init PROVE GaugeInv
<1>1. CallInv /\ Assigned
  BY StreamInvInitially DEF StreamInv
<1>2. /\ pc = [c \in Calls |-> "idle"] /\ job = [c \in Calls |-> "none"]
      /\ topic = [r \in RequestIds |-> <<>>] /\ activeStreams = 0
  BY DEF Init
<1>3. NothingAbandoned /\ FailsUndelivered
  BY <1>2 DEF NothingAbandoned, FailsUndelivered, Open
<1>4. Billed = {} /\ JobsEnded = {} /\ Ends = {} /\ EndsCounted = {}
  BY <1>2 DEF Billed, JobsEnded, Ends, EndsCounted, HasReached
<1>5. GaugeExact
  BY <1>2, <1>4, FS_EmptySet DEF GaugeExact
<1> QED BY <1>1, <1>3, <1>5 DEF GaugeInv

LEMMA GaugeInvKept ==
    ASSUME GatewayAssumption, OrderlyOnce, GaugeInv, [Next]_vars PROVE GaugeInv'
<1>1. Orderly /\ "ambiguous" \notin Faults
  BY DEF OrderlyOnce
<1> QED BY <1>1, CallInvKept, AssignedKept, NothingAbandonedKept, FailsUndeliveredKept,
           GaugeExactKept DEF GaugeInv

\* The gauge of active streams never goes below zero, and is back at zero once nothing
\* is left to happen: the counts of submit and those of the router add up, although the
\* router knows requests only, several jobs may have one id, and a failed submission is
\* taken back by its handler.  (Submit, replays and cancellations; jobs delivered as the
\* producer says and processed once; no event missed.)
THEOREM GaugeIsExact == ASSUME OrderlyOnce PROVE Spec => []GaugeTracksStreams
<1>1. Init => GaugeInv
  BY GatewayAssumption, GaugeInvInitially
<1>2. GaugeInv /\ [Next]_vars => GaugeInv'
  BY GatewayAssumption, OrderlyOnce, GaugeInvKept
<1>3. GaugeInv => GaugeTracksStreams
  <2> SUFFICES ASSUME GaugeInv PROVE GaugeTracksStreams
    OBVIOUS
  <2>1. /\ CallInv /\ GaugeExact
        /\ Cardinality(JobsEnded) = Cardinality(Ends)
        /\ activeStreams = Cardinality(Billed) - Cardinality(EndsCounted)
    BY DEF GaugeInv, GaugeExact
  <2>2. activeStreams >= 0
    BY <2>1, Countable
  <2>3. ASSUME Quiet PROVE activeStreams = 0
    <3>1. Billed = JobsEnded
      <4>1. \A c \in Calls : /\ pc[c] \in {"idle", "ended", "failed", "gone"}
                             /\ job[c] \in {"none", "lost", "done"}
        BY <2>3 DEF Quiet
      <4> QED BY <2>1, <4>1 DEF CallInv, JobsFollow, Billed, JobsEnded, HasReached
    <3>2. EndsCounted = Ends
      <4>1. \A r \in RequestIds : Counted(r) = Len(topic[r])
        BY <2>3 DEF Quiet, Counted
      <4> QED BY <4>1 DEF EndsCounted, Ends
    <3> QED BY <2>1, <3>1, <3>2, Countable
  <2> QED BY <2>2, <2>3 DEF GaugeTracksStreams
<1> QED BY <1>1, <1>2, <1>3, PTL DEF Spec
=============================================================================
