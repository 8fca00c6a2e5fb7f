------------------------------ MODULE WorkerProofs ------------------------------
(***************************************************************************)
(* What the workers of one model keep for every number of workers,         *)
(* partitions, requests, tokens and troubles: types, the rule that only     *)
(* ended jobs are committed, and the token log's contract.                 *)
(***************************************************************************)
EXTENDS Worker, TLAPS

-----------------------------------------------------------------------------
(* Types                                                                   *)

LEMMA InitTyped == ASSUME WorkerAssumption, Init PROVE TypeOK
<1>1. /\ jobs \in [Partitions -> Seq(RequestIds)] /\ unreadable \subseteq Garbled
      /\ committed \in [Partitions -> Nat] /\ fetch \in [Partitions -> Nat]
      /\ owner \in [Partitions -> Workers \cup {NoWorker}] /\ evicted \subseteq Workers
  BY DEF Init
<1>2. /\ pc \in [Workers -> PCs] /\ hand \in [Workers -> Message \cup {NoMessage}]
      /\ \A w \in Workers : hand[w] = NoMessage <=> pc[w] \in {"polling", "down"}
      /\ seq \in [Workers -> 0 .. MaxTokens]
  BY DEF Init, PCs, WorkerAssumption
<1>3. /\ queue \in [Workers -> Seq(Event)]
      /\ topic \in [RequestIds -> Seq([type : {"STARTED", "TOKEN"} \cup TerminalTypes, seq : Nat])]
  BY DEF Init
<1>4. /\ control \subseteq RequestIds /\ unflushed \subseteq RequestIds
      /\ cancelled \in [Workers -> SUBSET control]
  BY DEF Init
<1>5. troubles \in 0 .. MaxTroubles
  BY DEF Init, WorkerAssumption
<1> QED BY <1>1, <1>2, <1>3, <1>4, <1>5 DEF TypeOK

\* The message a worker has in hand is one of the topic's.
InTopic(w) ==
    hand[w] # NoMessage =>
        /\ hand[w].part \in Partitions /\ hand[w].off \in Nat
        /\ hand[w].off >= 1 /\ hand[w].off <= Len(jobs[hand[w].part])
HandInTopic == \A w \in Workers : InTopic(w)

LEMMA JobInRequests ==
    ASSUME TypeOK, HandInTopic, NEW w \in Workers, hand[w] # NoMessage
    PROVE  Job(w) \in RequestIds
<1>1. jobs[hand[w].part] \in Seq(RequestIds) /\ hand[w].off \in 1 .. Len(jobs[hand[w].part])
  BY DEF TypeOK, HandInTopic, InTopic
<1> QED BY <1>1 DEF Job

LEMMA TroubleTyped == ASSUME WorkerAssumption, TypeOK, Trouble PROVE troubles' \in 0 .. MaxTroubles
BY DEF WorkerAssumption, TypeOK, Trouble

LEMMA LeaveTyped ==
    ASSUME WorkerAssumption, TypeOK, NEW w \in Workers, Leave(w),
           UNCHANGED <<jobVars, groupVars, topic, control, unflushed>>,
           troubles' \in 0 .. MaxTroubles
    PROVE  TypeOK'
<1>1. /\ pc' \in [Workers -> PCs] /\ hand' \in [Workers -> Message \cup {NoMessage}]
      /\ \A v \in Workers : hand'[v] = NoMessage <=> pc'[v] \in {"polling", "down"}
      /\ seq' \in [Workers -> 0 .. MaxTokens]
  BY DEF Leave, TypeOK, PCs, WorkerAssumption
<1>2. queue' \in [Workers -> Seq(Event)] /\ cancelled' \in [Workers -> SUBSET control]
  BY DEF Leave, TypeOK
<1> QED BY <1>1, <1>2 DEF TypeOK, jobVars, groupVars

LEMMA PublishTyped ==
    ASSUME TypeOK, NEW w \in Workers, NEW r \in RequestIds,
           NEW type \in {"STARTED", "TOKEN"} \cup TerminalTypes, NEW n \in Nat,
           publish_token_event(w, r, type, n)
    PROVE  /\ queue' \in [Workers -> Seq(Event)]
           /\ \A v \in Workers : v # w => queue'[v] = queue[v]
           /\ Len(queue'[w]) = Len(queue[w]) + 1 /\ Len(queue[w]) \in Nat
           /\ \A k \in 1 .. Len(queue[w]) : queue'[w][k] = queue[w][k]
           /\ queue'[w][Len(queue[w]) + 1].id = r
           /\ queue'[w][Len(queue[w]) + 1].type = type
           /\ queue'[w][Len(queue[w]) + 1].seq = n
<1> DEFINE e == [id |-> r, type |-> type, seq |-> n]
<1>1. e \in Event /\ e.id = r /\ e.type = type /\ e.seq = n
  BY DEF Event
<1>2. queue' = [queue EXCEPT ![w] = Append(@, e)] /\ queue \in [Workers -> Seq(Event)]
  BY DEF publish_token_event, TypeOK
<1> HIDE DEF e
<1>3. queue'[w] = Append(queue[w], e) /\ queue[w] \in Seq(Event)
  BY <1>2
<1>4. Append(queue[w], e) \in Seq(Event) /\ Len(queue[w]) \in Nat
  BY <1>1, <1>3
<1>5. /\ queue' \in [Workers -> Seq(Event)]
      /\ \A v \in Workers : v # w => queue'[v] = queue[v]
  BY <1>2, <1>4
<1>6. /\ Len(Append(queue[w], e)) = Len(queue[w]) + 1
      /\ \A k \in 1 .. Len(queue[w]) : Append(queue[w], e)[k] = queue[w][k]
      /\ Append(queue[w], e)[Len(queue[w]) + 1] = e
  BY <1>1, <1>3
<1> QED BY <1>1, <1>3, <1>4, <1>5, <1>6

LEMMA Arrived ==
    ASSUME TypeOK, NEW w \in Workers, Arrive(w)
    PROVE  /\ queue[w] \in Seq(Event) /\ Len(queue[w]) \in Nat /\ Len(queue[w]) > 0
           /\ queue[w][1] \in Event
           /\ topic' \in [RequestIds -> Seq([type : {"STARTED", "TOKEN"} \cup TerminalTypes,
                                             seq : Nat])]
           /\ topic' = [topic EXCEPT ![queue[w][1].id] =
                            Append(@, [type |-> queue[w][1].type, seq |-> queue[w][1].seq])]
<1> DEFINE e == queue[w][1]
           m == [type |-> e.type, seq |-> e.seq]
           Messages == [type : {"STARTED", "TOKEN"} \cup TerminalTypes, seq : Nat]
<1>1. queue[w] \in Seq(Event) /\ queue[w] # <<>> /\ Head(queue[w]) = e
  BY DEF Arrive, TypeOK
<1>2. topic' = [topic EXCEPT ![e.id] = Append(@, m)]
  BY <1>1 DEF Arrive
<1>3. Len(queue[w]) \in Nat /\ Len(queue[w]) > 0 /\ e \in Event
  BY <1>1
<1>4. m \in Messages /\ e.id \in RequestIds
  BY <1>3 DEF Event
<1>5. topic \in [RequestIds -> Seq(Messages)]
  BY DEF TypeOK
<1> HIDE DEF m, Messages
<1>6. topic' \in [RequestIds -> Seq(Messages)]
  BY <1>2, <1>4, <1>5
<1> QED BY <1>1, <1>2, <1>3, <1>6 DEF m, Messages

LEMMA Delivered ==
    ASSUME TypeOK, NEW w \in Workers, Deliver(w)
    PROVE  /\ queue' \in [Workers -> Seq(Event)]
           /\ \A v \in Workers : v # w => queue'[v] = queue[v]
           /\ Len(queue'[w]) = Len(queue[w]) - 1 /\ Len(queue[w]) \in Nat /\ Len(queue[w]) > 0
           /\ \A k \in 1 .. Len(queue'[w]) : queue'[w][k] = queue[w][k + 1]
           /\ queue[w][1] \in Event
           /\ topic' \in [RequestIds -> Seq([type : {"STARTED", "TOKEN"} \cup TerminalTypes,
                                             seq : Nat])]
           /\ topic' = [topic EXCEPT ![queue[w][1].id] =
                            Append(@, [type |-> queue[w][1].type, seq |-> queue[w][1].seq])]
<1>1. Arrive(w) /\ queue' = [queue EXCEPT ![w] = Tail(@)] /\ queue \in [Workers -> Seq(Event)]
  BY DEF Deliver, TypeOK
<1>2. queue[w] \in Seq(Event) /\ queue[w] # <<>>
  BY <1>1 DEF Arrive
<1>3. /\ Tail(queue[w]) \in Seq(Event) /\ Len(Tail(queue[w])) = Len(queue[w]) - 1
      /\ \A k \in 1 .. Len(Tail(queue[w])) : Tail(queue[w])[k] = queue[w][k + 1]
  BY <1>2
<1>4. queue'[w] = Tail(queue[w]) /\ queue' \in [Workers -> Seq(Event)]
      /\ \A v \in Workers : v # w => queue'[v] = queue[v]
  BY <1>1, <1>3
<1>5. /\ Len(queue[w]) \in Nat /\ Len(queue[w]) > 0 /\ queue[w][1] \in Event
      /\ topic' \in [RequestIds -> Seq([type : {"STARTED", "TOKEN"} \cup TerminalTypes,
                                        seq : Nat])]
      /\ topic' = [topic EXCEPT ![queue[w][1].id] =
                       Append(@, [type |-> queue[w][1].type, seq |-> queue[w][1].seq])]
  BY <1>1, Arrived
<1> QED BY <1>3, <1>4, <1>5

LEMMA LoopTyped ==
    ASSUME WorkerAssumption, TypeOK, HandInTopic, NEW w \in Workers, MainLoop(w)
    PROVE  TypeOK'
<1> USE DEF jobVars, groupVars, loopVars
<1>0. MaxTokens \in Nat
  BY DEF WorkerAssumption
<1>1. ASSUME NEW p \in Partitions, Poll(w, p) PROVE TypeOK'
  <2> DEFINE i == fetch[p] + 1
  <2>1. /\ i \in Nat \ {0} /\ i <= Len(jobs[p]) /\ jobs[p] \in Seq(RequestIds)
        /\ publish_token_event(w, jobs[p][i], "STARTED", 0)
    BY <1>1 DEF Poll, TypeOK
  <2>2. jobs[p][i] \in RequestIds
    BY <2>1
  <2>3. queue' \in [Workers -> Seq(Event)]
    BY <2>1, <2>2, PublishTyped
  <2> DEFINE m == [part |-> p, off |-> i]
  <2>4. m \in Message /\ NoMessage # m
    BY <2>1 DEF Message, WorkerAssumption
  <2>5. /\ hand' = [hand EXCEPT ![w] = m] /\ pc' = [pc EXCEPT ![w] = "running"]
        /\ fetch' = [fetch EXCEPT ![p] = i]
    BY <1>1 DEF Poll
  <2> HIDE DEF m, i
  <2>6. /\ pc' \in [Workers -> PCs] /\ hand' \in [Workers -> Message \cup {NoMessage}]
        /\ \A v \in Workers : hand'[v] = NoMessage <=> pc'[v] \in {"polling", "down"}
    BY <2>4, <2>5 DEF TypeOK, PCs
  <2>7. fetch' \in [Partitions -> Nat]
    BY <2>1, <2>5 DEF TypeOK
  <2> QED BY <1>1, <2>3, <2>6, <2>7 DEF Poll, TypeOK
<1>2. ASSUME NEW p \in Partitions, PollUnreadable(w, p) PROVE TypeOK'
  BY <1>2, LeaveTyped DEF PollUnreadable, TypeOK
<1>3. CASE Token(w)
  <2>1. hand[w] # NoMessage
    BY <1>3 DEF Token, TypeOK
  <2>2. seq[w] + 1 \in 0 .. MaxTokens /\ publish_token_event(w, Job(w), "TOKEN", seq[w] + 1)
        /\ seq' = [seq EXCEPT ![w] = @ + 1]
    BY <1>0, <1>3 DEF Token, tokens_left, TypeOK
  <2>3. queue' \in [Workers -> Seq(Event)]
    BY <1>0, <2>1, <2>2, PublishTyped, JobInRequests
  <2>4. seq' \in [Workers -> 0 .. MaxTokens]
    BY <2>2 DEF TypeOK
  <2> QED BY <1>3, <2>3, <2>4 DEF Token, TypeOK
<1>4. CASE Finish(w)
  <2>0. pc[w] = "running"
    BY <1>4 DEF Finish
  <2>a. hand[w] # NoMessage
    BY <2>0 DEF TypeOK
  <2>b. seq[w] \in Nat
    BY <1>0 DEF TypeOK
  <2>1. hand[w] # NoMessage /\ seq[w] \in Nat
    BY <2>a, <2>b
  <2>2. PICK type \in TerminalTypes : publish_token_event(w, Job(w), type, seq[w])
    BY <1>4 DEF Finish
  <2>3. queue' \in [Workers -> Seq(Event)]
    BY <2>1, <2>2, PublishTyped, JobInRequests
  <2>4. /\ pc' \in [Workers -> PCs]
        /\ \A v \in Workers : hand'[v] = NoMessage <=> pc'[v] \in {"polling", "down"}
    BY <1>4 DEF Finish, TypeOK, PCs
  <2> QED BY <1>4, <2>3, <2>4 DEF Finish, TypeOK
<1>5. CASE Flush(w)
  <2>1. /\ pc' \in [Workers -> PCs]
        /\ \A v \in Workers : hand'[v] = NoMessage <=> pc'[v] \in {"polling", "down"}
    BY <1>5 DEF Flush, TypeOK, PCs
  <2> QED BY <1>5, <2>1 DEF Flush, TypeOK
<1>6. CASE Commit(w)
  <2>1. hand[w] \in Message
    BY <1>6 DEF Commit, TypeOK
  <2>2. /\ pc' \in [Workers -> PCs] /\ hand' \in [Workers -> Message \cup {NoMessage}]
        /\ \A v \in Workers : hand'[v] = NoMessage <=> pc'[v] \in {"polling", "down"}
        /\ seq' \in [Workers -> 0 .. MaxTokens]
        /\ committed' \in [Partitions -> Nat]
    BY <1>0, <1>6, <2>1 DEF Commit, TypeOK, PCs, Message
  <2> QED BY <1>6, <2>2 DEF Commit, TypeOK
<1>7. CASE CommitError(w)
  BY <1>7, LeaveTyped DEF CommitError, TypeOK
<1> QED BY <1>1, <1>2, <1>3, <1>4, <1>5, <1>6, <1>7 DEF MainLoop

LEMMA ReassignTyped ==
    ASSUME WorkerAssumption, TypeOK, Reassign, troubles' \in 0 .. MaxTroubles
    PROVE  TypeOK'
<1>1. owner' \in [Partitions -> Workers \cup {NoWorker}] /\ fetch' \in [Partitions -> Nat]
  BY DEF Reassign, Members, start_offset, TypeOK
<1> QED BY <1>1 DEF Reassign, TypeOK, jobVars, loopVars

LEMMA StepTyped ==
    ASSUME WorkerAssumption, TypeOK, HandInTopic, [Next]_vars
    PROVE  TypeOK'
<1> USE DEF jobVars, groupVars, loopVars
<1>1. ASSUME NEW r \in RequestIds, Ask(r) PROVE TypeOK'
  <2>1. control' \subseteq RequestIds /\ cancelled' \in [Workers -> SUBSET control']
    BY <1>1 DEF Ask, TypeOK
  <2> QED BY <1>1, <2>1 DEF Ask, TypeOK
<1>2. ASSUME NEW r \in RequestIds, NEW p \in Partitions, Produce(r, p) PROVE TypeOK'
  <2>1. jobs[p] \in Seq(RequestIds)
    BY DEF TypeOK
  <2>2. Append(jobs[p], r) \in Seq(RequestIds)
    BY <2>1
  <2>3. jobs' \in [Partitions -> Seq(RequestIds)] /\ unreadable' \subseteq Garbled
    BY <1>2, <2>2 DEF Produce, TypeOK
  <2> QED BY <1>2, <2>3 DEF Produce, TypeOK
<1>3. ASSUME NEW w \in Workers, FlushTimeout(w) PROVE TypeOK'
  <2>1. hand[w] # NoMessage
    BY <1>3 DEF FlushTimeout, TypeOK
  <2>2. /\ pc' \in [Workers -> PCs]
        /\ \A v \in Workers : hand'[v] = NoMessage <=> pc'[v] \in {"polling", "down"}
    BY <1>3 DEF FlushTimeout, TypeOK, PCs
  <2>3. unflushed' \subseteq RequestIds
    BY <1>3, <2>1, JobInRequests DEF FlushTimeout, TypeOK
  <2> QED BY <1>3, <2>2, <2>3, TroubleTyped DEF FlushTimeout, TypeOK
<1>4. ASSUME NEW w \in Workers, Deliver(w) PROVE TypeOK'
  <2>1. Deliver(w)
    BY <1>4
  <2> QED BY <2>1, Delivered DEF Deliver, TypeOK
<1>5. ASSUME NEW w \in Workers, Crash(w) PROVE TypeOK'
  BY <1>5, LeaveTyped, TroubleTyped DEF Crash
<1>6. ASSUME NEW w \in Workers, Restart(w) PROVE TypeOK'
  <2>1. /\ pc' \in [Workers -> PCs]
        /\ \A v \in Workers : hand'[v] = NoMessage <=> pc'[v] \in {"polling", "down"}
        /\ owner' \in [Partitions -> Workers \cup {NoWorker}] /\ evicted' \subseteq Workers
    BY <1>6 DEF Restart, TypeOK, PCs
  <2> QED BY <1>6, <2>1 DEF Restart, TypeOK
<1>7. ASSUME NEW w \in Workers, Evict(w) PROVE TypeOK'
  BY <1>7, TroubleTyped DEF Evict, TypeOK
<1>8. ASSUME NEW w \in Workers, NEW r \in RequestIds, Hear(w, r) PROVE TypeOK'
  <2>1. cancelled' \in [Workers -> SUBSET control']
    BY <1>8 DEF Hear, TypeOK
  <2> QED BY <1>8, <2>1 DEF Hear, TypeOK
<1>9. CASE Rebalance \/ Reshuffle
  <2>1. troubles' \in 0 .. MaxTroubles
    BY <1>9, TroubleTyped DEF Rebalance, Reshuffle, TypeOK
  <2> QED BY <1>9, <2>1, ReassignTyped DEF Rebalance, Reshuffle
<1>10. CASE UNCHANGED vars
  BY <1>10 DEF vars, TypeOK
<1>11. ASSUME NEW w \in Workers, Resend(w) PROVE TypeOK'
  <2>1. Arrive(w) /\ Trouble
    BY <1>11 DEF Resend
  <2> QED BY <1>11, <2>1, Arrived, TroubleTyped DEF Resend, TypeOK
<1> QED BY <1>1, <1>2, <1>3, <1>4, <1>5, <1>6, <1>7, <1>8, <1>9, <1>10, <1>11, LoopTyped DEF Next

-----------------------------------------------------------------------------
(* The inductive invariant                                                 *)

\* An attempt at r got to n, in the topic or at one of the first k - 1 places of
\* w's queue.
Reached(r, n) ==
    \E i \in 1 .. Len(topic[r]) : topic[r][i].type \in {"STARTED", "TOKEN"} /\ topic[r][i].seq = n
Got(w, k, r, n) ==
    \/ Reached(r, n)
    \/ \E j \in 1 .. k - 1 : /\ queue[w][j].id = r /\ queue[w][j].seq = n
                             /\ queue[w][j].type \in {"STARTED", "TOKEN"}

\* r may be committed.
Safe(r) == Ended(r) \/ r \in unflushed

\* Committed offsets are safe; so is what the owner has fetched, save what it has
\* in hand.
PartitionOK(p) ==
    /\ committed[p] <= Len(jobs[p]) /\ fetch[p] <= Len(jobs[p])
    /\ \A i \in 1 .. committed[p] : Safe(jobs[p][i])
    /\ \A w \in Workers : owner[p] = w /\ Up(w) =>
          \A i \in 1 .. fetch[p] : Safe(jobs[p][i]) \/ hand[w] = [part |-> p, off |-> i]

\* Everything before the message in hand is safe; the job itself is when process_job
\* has returned, and has its end on the way when the backend has.
HandOK(w) ==
    hand[w] # NoMessage => \A i \in 1 .. hand[w].off - 1 : Safe(jobs[hand[w].part][i])
LoopOK(w) ==
    /\ pc[w] \in {"polling", "down"} => seq[w] = 0
    /\ pc[w] = "running" =>
          \A k \in {Len(queue[w]) + 1}, r \in {Job(w)}, n \in {seq[w]} : Got(w, k, r, n)
    /\ pc[w] = "flushing" =>
          \/ Ended(Job(w))
          \/ \E k \in 1 .. Len(queue[w]) : queue[w][k].id = Job(w) /\ queue[w][k].type \in TerminalTypes
    /\ pc[w] = "committing" => Safe(Job(w))

\* Every event in a queue builds on one before it.
EventOK(w, k, e) ==
    /\ e.type = "STARTED" => e.seq = 0
    /\ e.type = "TOKEN" => e.seq >= 1 /\ Got(w, k, e.id, e.seq - 1)
    /\ e.type \in TerminalTypes => Got(w, k, e.id, e.seq)
    /\ e.type = "CANCELLED" => e.id \in control
QueueOK(w) == \A k \in 1 .. Len(queue[w]) : \A e \in {queue[w][k]} : EventOK(w, k, e)

IInv ==
    /\ TypeOK /\ HandInTopic
    /\ \A p \in Partitions : PartitionOK(p)
    /\ \A w \in Workers : HandOK(w) /\ LoopOK(w) /\ QueueOK(w)

-----------------------------------------------------------------------------
(* What only grows                                                         *)

\* What is in the topics stays there.
LEMMA Grows ==
    ASSUME WorkerAssumption, TypeOK, [Next]_vars
    PROVE  /\ \A r \in RequestIds :
                 /\ Len(topic[r]) \in Nat /\ Len(topic'[r]) \in Nat
                 /\ Len(topic[r]) <= Len(topic'[r])
                 /\ \A i \in 1 .. Len(topic[r]) : topic'[r][i] = topic[r][i]
           /\ unflushed \subseteq unflushed' /\ control \subseteq control'
           /\ \A p \in Partitions :
                 /\ Len(jobs[p]) \in Nat /\ Len(jobs'[p]) \in Nat
                 /\ Len(jobs[p]) <= Len(jobs'[p])
                 /\ \A i \in 1 .. Len(jobs[p]) : jobs'[p][i] = jobs[p][i]
<1> USE DEF jobVars, groupVars, loopVars
<1> DEFINE Messages == [type : {"STARTED", "TOKEN"} \cup TerminalTypes, seq : Nat]
<1>t. topic \in [RequestIds -> Seq(Messages)] /\ jobs \in [Partitions -> Seq(RequestIds)]
  BY DEF TypeOK
<1>l. /\ \A r \in RequestIds : Len(topic[r]) \in Nat
      /\ \A p \in Partitions : Len(jobs[p]) \in Nat
  <2> HIDE DEF Messages
  <2>1. \A r \in RequestIds : Len(topic[r]) \in Nat
    BY <1>t
  <2>2. \A p \in Partitions : Len(jobs[p]) \in Nat
    BY <1>t
  <2> QED BY <2>1, <2>2
<1>0. /\ topic \in [RequestIds -> Seq(Messages)] /\ jobs \in [Partitions -> Seq(RequestIds)]
      /\ \A r \in RequestIds : Len(topic[r]) \in Nat
      /\ \A p \in Partitions : Len(jobs[p]) \in Nat
  BY <1>t, <1>l
<1>1. ASSUME NEW w \in Workers, Deliver(w) \/ Resend(w)
      PROVE  /\ UNCHANGED <<jobs, unflushed, control>>
             /\ \A r \in RequestIds :
                   /\ Len(topic'[r]) \in Nat /\ Len(topic[r]) <= Len(topic'[r])
                   /\ \A i \in 1 .. Len(topic[r]) : topic'[r][i] = topic[r][i]
  <2> DEFINE m == [type |-> queue[w][1].type, seq |-> queue[w][1].seq]
  <2>0. Arrive(w)
    BY <1>1 DEF Deliver, Resend
  <2>1. queue[w][1] \in Event /\ topic' = [topic EXCEPT ![queue[w][1].id] = Append(@, m)]
    BY <2>0, Arrived
  <2>2. m \in Messages
    BY <2>1 DEF Event
  <2> HIDE DEF m, Messages
  <2>3. SUFFICES ASSUME NEW r \in RequestIds
                 PROVE  /\ Len(topic'[r]) \in Nat /\ Len(topic[r]) <= Len(topic'[r])
                        /\ \A i \in 1 .. Len(topic[r]) : topic'[r][i] = topic[r][i]
    BY <1>1 DEF Deliver, Resend
  <2>4. topic[r] \in Seq(Messages) /\ topic'[r] \in {topic[r], Append(topic[r], m)}
    BY <1>0, <2>1
  <2>5. /\ Len(Append(topic[r], m)) = Len(topic[r]) + 1
        /\ \A i \in 1 .. Len(topic[r]) : Append(topic[r], m)[i] = topic[r][i]
    BY <2>2, <2>4
  <2> QED BY <1>0, <2>4, <2>5
<1>2. ASSUME NEW r \in RequestIds, NEW p \in Partitions, Produce(r, p)
      PROVE  /\ UNCHANGED <<topic, unflushed, control>>
             /\ \A q \in Partitions :
                   /\ Len(jobs'[q]) \in Nat /\ Len(jobs[q]) <= Len(jobs'[q])
                   /\ \A i \in 1 .. Len(jobs[q]) : jobs'[q][i] = jobs[q][i]
  <2>1. jobs' = [jobs EXCEPT ![p] = Append(@, r)]
    BY <1>2 DEF Produce
  <2>2. SUFFICES ASSUME NEW q \in Partitions
                 PROVE  /\ Len(jobs'[q]) \in Nat /\ Len(jobs[q]) <= Len(jobs'[q])
                        /\ \A i \in 1 .. Len(jobs[q]) : jobs'[q][i] = jobs[q][i]
    BY <1>2 DEF Produce
  <2>3. jobs[q] \in Seq(RequestIds) /\ jobs'[q] \in {jobs[q], Append(jobs[q], r)}
    BY <1>0, <2>1
  <2>4. /\ Len(Append(jobs[q], r)) = Len(jobs[q]) + 1
        /\ \A i \in 1 .. Len(jobs[q]) : Append(jobs[q], r)[i] = jobs[q][i]
    BY <2>3
  <2>5. Len(jobs[q]) \in Nat
    BY <1>0
  <2>6. CASE jobs'[q] = jobs[q]
    BY <2>5, <2>6
  <2>7. CASE jobs'[q] = Append(jobs[q], r)
    BY <2>4, <2>5, <2>7
  <2> QED BY <2>3, <2>6, <2>7
<1>3. ASSUME NEW w \in Workers, NEW r \in RequestIds, Hear(w, r)
      PROVE  UNCHANGED <<jobs, topic, unflushed, control>>
  BY <1>3 DEF Hear
<1>4. ASSUME NEW r \in RequestIds, Ask(r)
      PROVE  UNCHANGED <<jobs, topic, unflushed>> /\ control \subseteq control'
  BY <1>4 DEF Ask
<1>5. ASSUME NEW w \in Workers, MainLoop(w)
      PROVE  UNCHANGED <<jobs, topic, unflushed, control>>
  BY <1>5 DEF MainLoop, Poll, PollUnreadable, Token, Finish, Flush, Commit, CommitError
<1>6. ASSUME NEW w \in Workers, FlushTimeout(w) \/ Crash(w) \/ Restart(w) \/ Evict(w)
      PROVE  UNCHANGED <<jobs, topic, control>> /\ unflushed \subseteq unflushed'
  BY <1>6 DEF FlushTimeout, Crash, Restart, Evict
<1>7. CASE Rebalance \/ Reshuffle \/ UNCHANGED vars
  <2>1. UNCHANGED <<jobs, topic, unflushed, control>>
    BY <1>7 DEF Rebalance, Reshuffle, Reassign, vars
  <2> QED BY <1>0, <2>1
<1> QED
  BY <1>0, <1>1, <1>2, <1>3, <1>4, <1>5, <1>6, <1>7 DEF Next

\* So what is backed by them stays so.
LEMMA Stays ==
    ASSUME WorkerAssumption, TypeOK, [Next]_vars
    PROVE  /\ \A r \in RequestIds : Ended(r) => Ended(r)'
           /\ \A r \in RequestIds : Safe(r) => Safe(r)'
           /\ \A r \in RequestIds : \A n : Reached(r, n) => Reached(r, n)'
           /\ \A p \in Partitions : \A i \in 1 .. Len(jobs[p]) :
                 jobs'[p][i] = jobs[p][i] /\ (Safe(jobs[p][i]) => Safe(jobs[p][i])')
<1>1. \A r \in RequestIds : \A i \in 1 .. Len(topic[r]) :
          i \in 1 .. Len(topic'[r]) /\ topic'[r][i] = topic[r][i]
  BY Grows
<1>2. \A r \in RequestIds : Ended(r) => Ended(r)'
  BY <1>1 DEF Ended
<1>3. \A r \in RequestIds : Safe(r) => Safe(r)'
  BY <1>2, Grows DEF Safe
<1>4. \A r \in RequestIds : \A n : Reached(r, n) => Reached(r, n)'
  BY <1>1 DEF Reached
<1>5. \A p \in Partitions : \A i \in 1 .. Len(jobs[p]) :
          jobs[p][i] \in RequestIds /\ jobs'[p][i] = jobs[p][i]
  <2>1. \A p \in Partitions : jobs[p] \in Seq(RequestIds)
    BY DEF TypeOK
  <2> QED BY <2>1, Grows
<1>6. ASSUME NEW p \in Partitions, NEW i \in 1 .. Len(jobs[p]), Safe(jobs[p][i])
      PROVE  Safe(jobs[p][i])'
  <2>1. Ended(jobs[p][i]) => Ended(jobs[p][i])'
    BY <1>1, <1>5 DEF Ended
  <2> QED BY <1>5, <1>6, <2>1, Grows DEF Safe
<1> QED BY <1>2, <1>3, <1>4, <1>5, <1>6

-----------------------------------------------------------------------------
(* Workers                                                                 *)

WorkerOK(w) == InTopic(w) /\ HandOK(w) /\ LoopOK(w) /\ QueueOK(w)

LEMMA JobStays ==
    ASSUME WorkerAssumption, IInv, [Next]_vars, NEW w \in Workers,
           hand[w] # NoMessage, hand'[w] = hand[w]
    PROVE  /\ Job(w)' = Job(w) /\ Job(w) \in RequestIds
           /\ Safe(Job(w)) => Safe(Job(w))'
           /\ Ended(Job(w)) => Ended(Job(w))'
           /\ InTopic(w)' /\ HandOK(w)'
<1>0. TypeOK /\ HandInTopic /\ HandOK(w)
  BY DEF IInv
<1> DEFINE p == hand[w].part
           i == hand[w].off
<1>1. p \in Partitions /\ i \in 1 .. Len(jobs[p]) /\ i \in Nat /\ Len(jobs[p]) \in Nat
  BY <1>0, Grows DEF HandInTopic, InTopic
<1>2. Job(w)' = Job(w)
  BY <1>0, <1>1, Stays DEF Job
<1>3. Job(w) \in RequestIds
  BY <1>0, JobInRequests
<1>4. Safe(Job(w)) => Safe(Job(w))'
  <2>1. Safe(jobs[p][i]) => Safe(jobs[p][i])'
    BY <1>0, <1>1, Stays
  <2>2. jobs'[hand'[w].part][hand'[w].off] = jobs[p][i]
    BY <1>0, <1>1, Stays
  <2> QED BY <2>1, <2>2 DEF Job, Safe, Ended
<1>5. Ended(Job(w)) => Ended(Job(w))'
  BY <1>0, <1>2, <1>3, Stays DEF Ended
<1>6. InTopic(w)'
  BY <1>0, <1>1, Grows DEF InTopic
<1>7. HandOK(w)'
  <2>1. \A k \in 1 .. i - 1 : k \in 1 .. Len(jobs[p]) /\ Safe(jobs[p][k])
    BY <1>0, <1>1 DEF HandOK
  <2>2. \A k \in 1 .. i - 1 : jobs'[p][k] = jobs[p][k] /\ Safe(jobs[p][k])'
    BY <1>0, <1>1, <2>1, Stays
  <2> QED BY <2>2 DEF HandOK, Safe, Ended
<1> QED BY <1>2, <1>3, <1>4, <1>5, <1>6, <1>7

\* What was got is still got when the queue only grows,
LEMMA GotStays ==
    ASSUME WorkerAssumption, TypeOK, [Next]_vars, NEW w \in Workers, NEW k \in Nat,
           k <= Len(queue[w]) + 1,
           \A j \in 1 .. Len(queue[w]) : queue'[w][j] = queue[w][j]
    PROVE  \A r \in RequestIds : \A n : Got(w, k, r, n) => Got(w, k, r, n)'
<1>1. Len(queue[w]) \in Nat
  BY DEF TypeOK
<1>2. \A j \in 1 .. k - 1 : queue'[w][j] = queue[w][j]
  BY <1>1
<1> QED BY <1>2, Stays DEF Got

\* and when its first event is delivered.
LEMMA GotDelivered ==
    ASSUME WorkerAssumption, TypeOK, [Next]_vars, NEW w \in Workers, Deliver(w),
           NEW k \in Nat \ {0}, k <= Len(queue[w]) + 1,
           NEW r \in RequestIds, NEW n, Got(w, k, r, n)
    PROVE  k > 1 => Got(w, k - 1, r, n)'
<1> DEFINE e == queue[w][1]
           m == [type |-> e.type, seq |-> e.seq]
           Messages == [type : {"STARTED", "TOKEN"} \cup TerminalTypes, seq : Nat]
<1>1. CASE Reached(r, n)
  BY <1>1, Stays DEF Got
<1>2. ASSUME NEW j \in 1 .. k - 1, queue[w][j].id = r, queue[w][j].seq = n,
             queue[w][j].type \in {"STARTED", "TOKEN"}
      PROVE  Got(w, k - 1, r, n)'
  <2>1. CASE j = 1
    <3>1. e \in Event /\ topic' = [topic EXCEPT ![r] = Append(@, m)] /\ topic \in [RequestIds -> Seq(Messages)]
      BY <1>2, <2>1, Delivered DEF TypeOK
    <3>2. m \in Messages /\ m.type \in {"STARTED", "TOKEN"} /\ m.seq = n
      BY <1>2, <2>1, <3>1 DEF Event
    <3> HIDE DEF m, Messages
    <3>3. topic'[r] = Append(topic[r], m) /\ topic[r] \in Seq(Messages)
      BY <3>1
    <3>4. /\ Len(topic[r]) + 1 \in 1 .. Len(Append(topic[r], m))
          /\ Append(topic[r], m)[Len(topic[r]) + 1] = m
      BY <3>2, <3>3
    <3>5. \E i \in 1 .. Len(topic'[r]) : topic'[r][i] = m
      BY <3>3, <3>4
    <3> QED BY <3>2, <3>5 DEF Got, Reached
  <2>2. CASE j > 1
    <3>0. /\ Len(queue'[w]) = Len(queue[w]) - 1 /\ Len(queue[w]) \in Nat
          /\ \A i \in 1 .. Len(queue'[w]) : queue'[w][i] = queue[w][i + 1]
      BY Delivered
    <3>1. j - 1 \in 1 .. (k - 1) - 1 /\ j - 1 \in 1 .. Len(queue'[w]) /\ (j - 1) + 1 = j
      BY <2>2, <3>0
    <3>2. queue'[w][j - 1] = queue[w][j]
      BY <3>0, <3>1
    <3> QED BY <1>2, <3>1, <3>2 DEF Got
  <2> QED BY <2>1, <2>2
<1> QED BY <1>1, <1>2 DEF Got

\* An event that is fine stays so while the queue only grows.
LEMMA EventStays ==
    ASSUME WorkerAssumption, TypeOK, [Next]_vars, NEW w \in Workers, NEW k \in Nat,
           k <= Len(queue[w]) + 1,
           \A j \in 1 .. Len(queue[w]) : queue'[w][j] = queue[w][j],
           NEW e \in Event, EventOK(w, k, e)
    PROVE  EventOK(w, k, e)'
<1>1. \A n : Got(w, k, e.id, n) => Got(w, k, e.id, n)'
  BY GotStays DEF Event
<1>2. control \subseteq control'
  BY Grows
<1> QED BY <1>1, <1>2 DEF EventOK

\* A worker that takes no step,
LEMMA IdleWorker ==
    ASSUME WorkerAssumption, IInv, [Next]_vars, NEW w \in Workers,
           pc'[w] = pc[w], hand'[w] = hand[w], seq'[w] = seq[w], queue'[w] = queue[w]
    PROVE  WorkerOK(w)'
<1>0. TypeOK /\ HandInTopic /\ HandOK(w) /\ LoopOK(w) /\ QueueOK(w) /\ queue[w] \in Seq(Event)
  BY DEF IInv, TypeOK
<1>1. Len(queue[w]) \in Nat /\ \A k \in 1 .. Len(queue[w]) : queue[w][k] \in Event
  BY <1>0
<1>2. QueueOK(w)'
  BY <1>0, <1>1, EventStays DEF QueueOK
<1>3. CASE hand[w] = NoMessage
  <2>1. pc[w] \in {"polling", "down"}
    BY <1>0, <1>3 DEF TypeOK
  <2>2. LoopOK(w)'
    BY <1>0, <2>1 DEF LoopOK
  <2> QED BY <1>2, <1>3, <2>2 DEF WorkerOK, InTopic, HandOK
<1>4. CASE hand[w] # NoMessage
  <2>1. /\ Job(w)' = Job(w) /\ Job(w) \in RequestIds
        /\ Safe(Job(w)) => Safe(Job(w))'
        /\ Ended(Job(w)) => Ended(Job(w))'
        /\ InTopic(w)' /\ HandOK(w)'
    BY <1>4, JobStays
  <2>2. pc[w] \notin {"polling", "down"}
    BY <1>0, <1>4 DEF TypeOK
  <2>3. \A k \in {Len(queue[w]) + 1} : \A r \in {Job(w)} : \A n : Got(w, k, r, n) => Got(w, k, r, n)'
    BY <1>0, <1>1, <2>1, GotStays
  <2>4. LoopOK(w)'
    <3>1. ASSUME pc'[w] = "running"
          PROVE  \A k \in {Len(queue'[w]) + 1}, r \in {Job(w)'}, n \in {seq'[w]} : Got(w, k, r, n)'
      BY <1>0, <2>1, <2>3, <3>1 DEF LoopOK
    <3>2. ASSUME pc'[w] = "flushing"
          PROVE  \/ Ended(Job(w))'
                 \/ \E k \in 1 .. Len(queue'[w]) :
                       queue'[w][k].id = Job(w)' /\ queue'[w][k].type \in TerminalTypes
      BY <1>0, <2>1, <3>2 DEF LoopOK
    <3>3. pc'[w] = "committing" => Safe(Job(w))'
      BY <1>0, <2>1 DEF LoopOK
    <3> QED BY <2>2, <3>1, <3>2, <3>3 DEF LoopOK
  <2> QED BY <1>2, <2>1, <2>4 DEF WorkerOK
<1> QED BY <1>3, <1>4

\* and one whose process ends.
LEMMA GoneWorker ==
    ASSUME WorkerAssumption, TypeOK, NEW w \in Workers, Leave(w)
    PROVE  WorkerOK(w)'
<1>1. pc'[w] = "down" /\ hand'[w] = NoMessage /\ seq'[w] = 0 /\ queue'[w] = <<>>
  BY DEF Leave, TypeOK
<1> QED BY <1>1 DEF WorkerOK, InTopic, HandOK, LoopOK, QueueOK

\* A worker that publishes an event which builds on one before it.
LEMMA PublishQueue ==
    ASSUME WorkerAssumption, IInv, [Next]_vars, NEW w \in Workers, NEW r \in RequestIds,
           NEW type \in {"STARTED", "TOKEN"} \cup TerminalTypes, NEW n \in Nat,
           publish_token_event(w, r, type, n),
           type = "STARTED" => n = 0,
           type = "TOKEN" => n >= 1 /\ Got(w, Len(queue[w]) + 1, r, n - 1),
           type \in TerminalTypes => Got(w, Len(queue[w]) + 1, r, n),
           type = "CANCELLED" => r \in control
    PROVE  QueueOK(w)'
<1>0. TypeOK /\ QueueOK(w) /\ queue[w] \in Seq(Event)
  BY DEF IInv, TypeOK
<1>l. PICK l \in Nat : l = Len(queue[w])
  BY <1>0
<1> DEFINE e == [id |-> r, type |-> type, seq |-> n]
<1>1. /\ l \in Nat /\ Len(queue'[w]) = l + 1
      /\ \A k \in 1 .. l : queue'[w][k] = queue[w][k] /\ queue[w][k] \in Event
      /\ queue'[w][l + 1] = e /\ e \in Event
  <2>1. queue' = [queue EXCEPT ![w] = Append(@, e)] /\ queue \in [Workers -> Seq(Event)]
    BY <1>0 DEF publish_token_event, TypeOK
  <2>2. e \in Event
    BY DEF Event
  <2> HIDE DEF e
  <2>3. queue'[w] = Append(queue[w], e)
    BY <2>1
  <2> QED BY <1>0, <1>l, <2>2, <2>3
<1>2. EventOK(w, l + 1, e)
  BY <1>l DEF EventOK
<1> HIDE DEF e
<1>3. EventOK(w, l + 1, e)'
  BY <1>0, <1>1, <1>2, <1>l, EventStays
<1>5. ASSUME NEW k \in 1 .. Len(queue'[w]), NEW q \in {queue'[w][k]}
      PROVE  EventOK(w, k, q)'
  <2>1. CASE k = l + 1
    BY <1>1, <1>3, <2>1
  <2>2. CASE k # l + 1
    <3>1. k \in 1 .. l /\ q = queue[w][k] /\ q \in Event /\ k \in Nat
      BY <1>1, <2>2
    <3>2. EventOK(w, k, q)
      BY <1>0, <1>l, <3>1 DEF QueueOK
    <3>3. \A j \in 1 .. Len(queue[w]) : queue'[w][j] = queue[w][j]
      BY <1>1, <1>l
    <3>4. k <= Len(queue[w]) + 1
      BY <1>1, <1>l, <3>1
    <3> QED BY <1>0, <3>1, <3>2, <3>3, <3>4, EventStays
  <2> QED BY <2>1, <2>2
<1> QED BY <1>5 DEF QueueOK

\* The steps of a worker that publishes.
LEMMA PollOK ==
    ASSUME WorkerAssumption, IInv, [Next]_vars, NEW w \in Workers, NEW p \in Partitions, Poll(w, p)
    PROVE  WorkerOK(w)'
<1>0. TypeOK /\ LoopOK(w) /\ PartitionOK(p)
  BY DEF IInv
<1>1. PICK i \in Nat \ {0}, l \in Nat, r \in RequestIds :
          /\ i = fetch[p] + 1 /\ l = Len(queue[w]) /\ r = jobs[p][i] /\ i <= Len(jobs[p])
  <2>1. fetch[p] + 1 \in Nat \ {0} /\ jobs[p] \in Seq(RequestIds) /\ queue[w] \in Seq(Event)
    BY <1>0 DEF TypeOK
  <2>2. fetch[p] + 1 <= Len(jobs[p])
    BY DEF Poll
  <2> QED BY <2>1, <2>2
<1>2. /\ pc[w] = "polling" /\ owner[p] = w /\ pc'[w] = "running"
      /\ hand'[w] = [part |-> p, off |-> i] /\ seq'[w] = 0 /\ jobs' = jobs
      /\ publish_token_event(w, r, "STARTED", 0)
  BY <1>0, <1>1 DEF Poll, TypeOK, LoopOK, jobVars
<1>3. /\ hand[w] = NoMessage
      /\ \A k \in 1 .. fetch[p] : Safe(jobs[p][k])
  <2>1. hand[w] = NoMessage
    BY <1>0, <1>2 DEF TypeOK
  <2>2. \A k \in 1 .. fetch[p] : [part |-> p, off |-> k] # NoMessage
    BY <1>0, <1>1 DEF WorkerAssumption, TypeOK
  <2> QED BY <1>0, <1>2, <2>1, <2>2 DEF PartitionOK, Up
<1>4. fetch[p] \in Nat /\ Len(jobs[p]) \in Nat /\ p \in Partitions
  BY <1>0, Grows DEF TypeOK
<1>5. InTopic(w)'
  BY <1>1, <1>2, <1>4 DEF InTopic
<1>6. HandOK(w)'
  <2>1. \A k \in 1 .. i - 1 : k \in 1 .. fetch[p] /\ k \in 1 .. Len(jobs[p])
    BY <1>1, <1>4
  <2>2. \A k \in 1 .. i - 1 : jobs'[p][k] = jobs[p][k] /\ Safe(jobs[p][k])'
    BY <1>0, <1>3, <2>1, Stays
  <2> QED BY <1>2, <2>2 DEF HandOK, Safe, Ended
<1>7. QueueOK(w)'
  BY <1>2, PublishQueue DEF TerminalTypes
<1>8. LoopOK(w)'
  <2>1. /\ Len(queue'[w]) = l + 1 /\ queue'[w][l + 1].id = r
        /\ queue'[w][l + 1].type = "STARTED" /\ queue'[w][l + 1].seq = 0
    BY SMTT(30), <1>0, <1>1, <1>2, PublishTyped DEF TerminalTypes
  <2>2. Got(w, l + 2, r, 0)'
    <3>1. l + 1 \in 1 .. (l + 2) - 1
      OBVIOUS
    <3> QED BY <2>1, <3>1 DEF Got
  <2>3. Job(w)' = r
    BY <1>1, <1>2 DEF Job
  <2> QED BY <1>2, <2>1, <2>2, <2>3 DEF LoopOK
<1> QED BY <1>5, <1>6, <1>7, <1>8 DEF WorkerOK

LEMMA TokenOK ==
    ASSUME WorkerAssumption, IInv, [Next]_vars, NEW w \in Workers, Token(w)
    PROVE  WorkerOK(w)'
<1>0. TypeOK /\ LoopOK(w) /\ MaxTokens \in Nat
  BY DEF IInv, WorkerAssumption
<1>1. /\ pc[w] = "running" /\ pc' = pc /\ hand' = hand /\ seq' = [seq EXCEPT ![w] = @ + 1]
      /\ publish_token_event(w, Job(w), "TOKEN", seq[w] + 1)
  BY DEF Token, loopVars
<1>2. hand[w] # NoMessage
  BY <1>0, <1>1 DEF TypeOK
<1>3. Job(w)' = Job(w) /\ Job(w) \in RequestIds /\ InTopic(w)' /\ HandOK(w)'
  BY <1>1, <1>2, JobStays
<1>4. PICK l \in Nat, n \in Nat, r \in RequestIds : l = Len(queue[w]) /\ n = seq[w] /\ r = Job(w)
  BY <1>0, <1>3 DEF TypeOK
<1>5. seq'[w] = n + 1 /\ (n + 1) - 1 = n /\ n + 1 >= 1 /\ n + 1 \in Nat
  BY <1>0, <1>1, <1>4 DEF TypeOK
<1>6. Got(w, l + 1, r, n)
  BY <1>0, <1>1, <1>4 DEF LoopOK
<1>7. QueueOK(w)'
  BY <1>1, <1>4, <1>5, <1>6, PublishQueue DEF TerminalTypes
<1>8. LoopOK(w)'
  <2>1. /\ Len(queue'[w]) = l + 1 /\ queue'[w][l + 1].id = r
        /\ queue'[w][l + 1].type = "TOKEN" /\ queue'[w][l + 1].seq = n + 1
    BY <1>0, <1>1, <1>4, <1>5, PublishTyped
  <2>2. Got(w, l + 2, r, n + 1)'
    <3>1. l + 1 \in 1 .. (l + 2) - 1
      OBVIOUS
    <3> QED BY <2>1, <3>1 DEF Got
  <2> QED BY <1>1, <1>3, <1>4, <1>5, <2>1, <2>2 DEF LoopOK
<1> QED BY <1>3, <1>7, <1>8 DEF WorkerOK

LEMMA FinishOK ==
    ASSUME WorkerAssumption, IInv, [Next]_vars, NEW w \in Workers, Finish(w)
    PROVE  WorkerOK(w)'
<1>0. TypeOK /\ LoopOK(w) /\ MaxTokens \in Nat
  BY DEF IInv, WorkerAssumption
<1>1. /\ pc[w] = "running" /\ hand' = hand /\ pc' = [pc EXCEPT ![w] = "flushing"]
  BY DEF Finish
<1>2. hand[w] # NoMessage /\ pc'[w] = "flushing"
  BY <1>0, <1>1 DEF TypeOK
<1>3. Job(w)' = Job(w) /\ Job(w) \in RequestIds /\ InTopic(w)' /\ HandOK(w)'
  BY <1>1, <1>2, JobStays
<1>4. PICK l \in Nat, n \in Nat, r \in RequestIds : l = Len(queue[w]) /\ n = seq[w] /\ r = Job(w)
  BY <1>0, <1>3 DEF TypeOK
<1>5. PICK type \in TerminalTypes : /\ type = "CANCELLED" => is_cancelled(w)
                                    /\ publish_token_event(w, r, type, n)
  BY <1>4 DEF Finish
<1>6. Got(w, l + 1, r, n)
  BY <1>0, <1>1, <1>4 DEF LoopOK
<1>7. type = "CANCELLED" => r \in control
  BY <1>0, <1>4, <1>5 DEF is_cancelled, TypeOK
<1>8. QueueOK(w)'
  BY <1>4, <1>5, <1>6, <1>7, PublishQueue DEF TerminalTypes
<1>9. LoopOK(w)'
  <2>1. /\ Len(queue'[w]) = l + 1 /\ queue'[w][l + 1].id = r /\ queue'[w][l + 1].type = type
    BY <1>0, <1>4, <1>5, PublishTyped
  <2>2. l + 1 \in 1 .. Len(queue'[w])
    BY <2>1
  <2> QED BY <1>2, <1>3, <1>4, <2>1, <2>2 DEF LoopOK
<1> QED BY <1>3, <1>8, <1>9 DEF WorkerOK

\* The other steps of a worker's loop.
LEMMA LoopStepOK ==
    ASSUME WorkerAssumption, IInv, [Next]_vars, NEW w \in Workers,
           Flush(w) \/ FlushTimeout(w) \/ Commit(w) \/ Restart(w)
    PROVE  WorkerOK(w)'
<1>0. TypeOK /\ LoopOK(w) /\ QueueOK(w) /\ queue[w] \in Seq(Event)
  BY DEF IInv, TypeOK
<1>1. queue' = queue
  BY DEF Flush, FlushTimeout, Commit, Restart
<1>2. QueueOK(w)'
  <2>1. Len(queue[w]) \in Nat /\ \A k \in 1 .. Len(queue[w]) : queue[w][k] \in Event
    BY <1>0
  <2> QED BY <1>0, <1>1, <2>1, EventStays DEF QueueOK
<1>3. ASSUME Flush(w) \/ FlushTimeout(w) PROVE WorkerOK(w)'
  <2>1. pc[w] = "flushing" /\ hand' = hand /\ pc' = [pc EXCEPT ![w] = "committing"]
    BY <1>3 DEF Flush, FlushTimeout
  <2>2. hand[w] # NoMessage /\ pc'[w] = "committing"
    BY <1>0, <2>1 DEF TypeOK
  <2>3. /\ Job(w)' = Job(w) /\ Job(w) \in RequestIds /\ InTopic(w)' /\ HandOK(w)'
        /\ Ended(Job(w)) => Ended(Job(w))'
    BY <2>1, <2>2, JobStays
  <2>4. CASE Flush(w)
    <3>1. Len(queue[w]) = 0
      BY <1>0, <2>4 DEF Flush, flushed
    <3>2. Ended(Job(w))
      BY <1>0, <2>1, <3>1 DEF LoopOK
    <3> QED BY <1>2, <2>2, <2>3, <3>2 DEF WorkerOK, LoopOK, Safe
  <2>5. CASE FlushTimeout(w)
    <3>1. Job(w)' \in unflushed'
      BY <2>3, <2>5 DEF FlushTimeout
    <3> QED BY <1>2, <2>2, <2>3, <3>1 DEF WorkerOK, LoopOK, Safe
  <2> QED BY <1>3, <2>4, <2>5
<1>4. CASE Commit(w)
  <2>1. pc'[w] = "polling" /\ hand'[w] = NoMessage /\ seq'[w] = 0
    BY <1>0, <1>4 DEF Commit, TypeOK
  <2> QED BY <1>2, <2>1 DEF WorkerOK, InTopic, HandOK, LoopOK
<1>5. CASE Restart(w)
  <2>1. pc[w] = "down" /\ pc'[w] = "polling" /\ hand' = hand /\ seq' = seq
    BY <1>0, <1>5 DEF Restart, TypeOK
  <2>2. hand[w] = NoMessage /\ seq[w] = 0
    BY <1>0, <2>1 DEF LoopOK, TypeOK
  <2> QED BY <1>2, <2>1, <2>2 DEF WorkerOK, InTopic, HandOK, LoopOK
<1> QED BY <1>3, <1>4, <1>5

LEMMA DeliverOK ==
    ASSUME WorkerAssumption, IInv, [Next]_vars, NEW w \in Workers, Deliver(w)
    PROVE  WorkerOK(w)'
<1>0. TypeOK /\ InTopic(w) /\ HandOK(w) /\ LoopOK(w) /\ QueueOK(w) /\ queue[w] \in Seq(Event)
  BY DEF IInv, TypeOK, HandInTopic
<1>1. pc' = pc /\ hand' = hand /\ seq' = seq
  BY DEF Deliver, loopVars
<1>d. /\ Len(queue'[w]) = Len(queue[w]) - 1 /\ Len(queue[w]) \in Nat \ {0}
      /\ \A k \in 1 .. Len(queue'[w]) : queue'[w][k] = queue[w][k + 1]
  <2>1. /\ Len(queue'[w]) = Len(queue[w]) - 1 /\ Len(queue[w]) \in Nat /\ Len(queue[w]) > 0
        /\ \A k \in 1 .. Len(queue'[w]) : queue'[w][k] = queue[w][k + 1]
    BY <1>0, Delivered
  <2> QED BY <2>1
<1>2. PICK l \in Nat \ {0} : l = Len(queue[w])
  BY <1>d
<1>3. /\ Len(queue'[w]) = l - 1
      /\ \A k \in 1 .. l - 1 : queue'[w][k] = queue[w][k + 1] /\ queue[w][k + 1] \in Event
  <2>1. \A k \in 1 .. l - 1 : k + 1 \in 1 .. Len(queue[w])
    BY <1>2
  <2> QED BY <1>0, <1>2, <1>d, <2>1
<1>4. \A k \in 1 .. l : \A r \in RequestIds : \A n : Got(w, k + 1, r, n) => Got(w, k, r, n)'
  <2>1. SUFFICES ASSUME NEW k \in 1 .. l, NEW r \in RequestIds, NEW n, Got(w, k + 1, r, n)
                 PROVE  Got(w, k, r, n)'
    OBVIOUS
  <2>2. k + 1 \in Nat \ {0} /\ k + 1 <= Len(queue[w]) + 1 /\ k + 1 > 1 /\ (k + 1) - 1 = k
    BY <1>2
  <2> QED BY <1>0, <2>1, <2>2, GotDelivered
<1>5. QueueOK(w)'
  <2>1. SUFFICES ASSUME NEW k \in 1 .. l - 1, NEW e \in {queue[w][k + 1]}
                 PROVE  EventOK(w, k, e)'
    BY <1>3 DEF QueueOK
  <2>2. k + 1 \in 1 .. Len(queue[w]) /\ k \in 1 .. l /\ e \in Event
    <3>1. k + 1 \in 1 .. Len(queue[w]) /\ k \in 1 .. l
      BY <1>2
    <3>2. e \in Event
      BY <1>3
    <3> QED BY <3>1, <3>2
  <2>3. EventOK(w, k + 1, e)
    BY <1>0, <2>2 DEF QueueOK
  <2>4. \A n : Got(w, k + 1, e.id, n) => Got(w, k, e.id, n)'
    BY <1>4, <2>2 DEF Event
  <2>5. control \subseteq control'
    BY <1>0, Grows
  <2> QED BY <2>3, <2>4, <2>5 DEF EventOK
<1>6. CASE hand[w] = NoMessage
  <2>1. pc[w] \in {"polling", "down"}
    BY <1>0, <1>6 DEF TypeOK
  <2> QED BY <1>0, <1>1, <1>5, <1>6, <2>1 DEF WorkerOK, InTopic, HandOK, LoopOK
<1>7. CASE hand[w] # NoMessage
  <2>1. /\ Job(w)' = Job(w) /\ Job(w) \in RequestIds
        /\ Safe(Job(w)) => Safe(Job(w))'
        /\ Ended(Job(w)) => Ended(Job(w))'
        /\ InTopic(w)' /\ HandOK(w)'
    BY <1>1, <1>7, JobStays
  <2>2. PICK r \in RequestIds : r = Job(w)
    BY <2>1
  <2>3. pc[w] = "running" => \A n \in {seq[w]} : Got(w, l, r, n)'
    BY <1>0, <1>2, <1>4, <2>2 DEF LoopOK
  <2>4. ASSUME pc[w] = "flushing"
        PROVE  \/ Ended(Job(w))'
               \/ \E k \in 1 .. Len(queue'[w]) :
                     queue'[w][k].id = Job(w)' /\ queue'[w][k].type \in TerminalTypes
    <3>1. CASE Ended(Job(w))
      BY <2>1, <3>1
    <3>2. ASSUME NEW k \in 1 .. Len(queue[w]), queue[w][k].id = r, queue[w][k].type \in TerminalTypes
          PROVE  \/ Ended(r)'
                 \/ \E j \in 1 .. Len(queue'[w]) :
                       queue'[w][j].id = r /\ queue'[w][j].type \in TerminalTypes
      <4>1. CASE k = 1
        <5> DEFINE m == [type |-> queue[w][1].type, seq |-> queue[w][1].seq]
                   Messages == [type : {"STARTED", "TOKEN"} \cup TerminalTypes, seq : Nat]
        <5>1. /\ topic' = [topic EXCEPT ![r] = Append(@, m)] /\ topic \in [RequestIds -> Seq(Messages)]
              /\ queue[w][1] \in Event
          BY <1>0, <3>2, <4>1, Delivered DEF TypeOK
        <5>2. m \in Messages /\ m.type \in TerminalTypes
          BY <3>2, <4>1, <5>1 DEF Event
        <5> HIDE DEF m, Messages
        <5>3. topic'[r] = Append(topic[r], m) /\ topic[r] \in Seq(Messages)
          BY <5>1
        <5>4. /\ Len(topic[r]) + 1 \in 1 .. Len(Append(topic[r], m))
              /\ Append(topic[r], m)[Len(topic[r]) + 1] = m
          BY <5>2, <5>3
        <5>5. \E i \in 1 .. Len(topic'[r]) : topic'[r][i] = m
          BY <5>3, <5>4
        <5> QED BY <5>2, <5>5 DEF Ended
      <4>2. CASE k > 1
        <5>1. k - 1 \in 1 .. l - 1 /\ (k - 1) + 1 = k
          BY <1>2, <4>2
        <5>2. queue'[w][k - 1] = queue[w][k] /\ k - 1 \in 1 .. Len(queue'[w])
          BY <1>3, <5>1
        <5> QED BY <3>2, <5>2
      <4> QED BY <4>1, <4>2
    <3>3. (\E k \in 1 .. Len(queue[w]) : queue[w][k].id = r /\ queue[w][k].type \in TerminalTypes)
          => Ended(r)' \/ \E j \in 1 .. Len(queue'[w]) :
                              queue'[w][j].id = r /\ queue'[w][j].type \in TerminalTypes
      BY <3>2
    <3>4. Ended(r)' => Ended(Job(w))'
      BY <2>1, <2>2 DEF Ended
    <3> QED BY <1>0, <2>1, <2>2, <2>4, <3>1, <3>3, <3>4 DEF LoopOK
  <2>5. LoopOK(w)'
    <3>1. pc[w] \notin {"polling", "down"}
      BY <1>0, <1>7 DEF TypeOK
    <3>2. pc[w] = "running" =>
              \A k \in {Len(queue'[w]) + 1}, q \in {Job(w)'}, n \in {seq'[w]} : Got(w, k, q, n)'
      BY <1>1, <1>2, <1>3, <2>1, <2>2, <2>3
    <3> QED BY <1>0, <1>1, <2>1, <2>4, <3>1, <3>2 DEF LoopOK
  <2> QED BY <1>5, <2>1, <2>5 DEF WorkerOK
<1> QED BY <1>6, <1>7

-----------------------------------------------------------------------------
(* Partitions                                                              *)

\* A partition that is not assigned, polled or committed, whose owner's hand only
\* loses what is safe.
LEMMA QuietPartition ==
    ASSUME WorkerAssumption, IInv, [Next]_vars, NEW p \in Partitions,
           committed'[p] = committed[p], fetch'[p] = fetch[p],
           \A w \in Workers : owner'[p] = w /\ Up(w)' =>
               /\ owner[p] = w /\ Up(w)
               /\ \A i \in 1 .. fetch[p] : hand[w] = [part |-> p, off |-> i] =>
                     hand'[w] = hand[w] \/ Safe(jobs[p][i])
    PROVE  PartitionOK(p)'
<1>0. TypeOK /\ PartitionOK(p) /\ committed[p] \in Nat /\ fetch[p] \in Nat
  BY DEF IInv, TypeOK
<1>1. /\ Len(jobs[p]) \in Nat /\ Len(jobs'[p]) \in Nat /\ Len(jobs[p]) <= Len(jobs'[p])
      /\ committed[p] <= Len(jobs[p]) /\ fetch[p] <= Len(jobs[p])
  BY <1>0, Grows DEF PartitionOK
<1>2. \A i \in 1 .. Len(jobs[p]) : Safe(jobs[p][i]) => Safe(jobs[p][i])'
  BY <1>0, Stays
<1>3. \A i \in 1 .. committed'[p] : Safe(jobs[p][i])'
  BY <1>0, <1>1, <1>2 DEF PartitionOK
<1>4. ASSUME NEW w \in Workers, owner'[p] = w, Up(w)', NEW i \in 1 .. fetch[p]
      PROVE  Safe(jobs[p][i])' \/ hand'[w] = [part |-> p, off |-> i]
  <2>1. i \in 1 .. Len(jobs[p])
    BY <1>0, <1>1
  <2>2. Safe(jobs[p][i]) \/ hand'[w] = [part |-> p, off |-> i]
    BY <1>0, <1>4 DEF PartitionOK
  <2> QED BY <1>2, <2>1, <2>2
<1>5. committed'[p] <= Len(jobs'[p]) /\ fetch'[p] <= Len(jobs'[p])
  BY <1>0, <1>1
<1> QED BY <1>3, <1>4, <1>5 DEF PartitionOK, Safe, Ended

LEMMA PollPartition ==
    ASSUME WorkerAssumption, IInv, [Next]_vars, NEW p \in Partitions,
           NEW w \in Workers, NEW q \in Partitions, Poll(w, q)
    PROVE  PartitionOK(p)'
<1>0. TypeOK /\ PartitionOK(p) /\ committed[p] \in Nat /\ fetch[p] \in Nat
  BY DEF IInv, TypeOK
<1>1. /\ pc[w] = "polling" /\ owner[q] = w /\ owner' = owner /\ committed' = committed
      /\ jobs' = jobs /\ fetch[q] + 1 <= Len(jobs[q])
      /\ fetch' = [fetch EXCEPT ![q] = fetch[q] + 1]
      /\ hand' = [hand EXCEPT ![w] = [part |-> q, off |-> fetch[q] + 1]]
      /\ pc' = [pc EXCEPT ![w] = "running"]
  BY DEF Poll, jobVars
<1>2. hand[w] = NoMessage /\ \A v \in Workers : Up(v)' => Up(v)
  BY <1>0, <1>1 DEF TypeOK, Up
<1>3. \A i \in 1 .. fetch[p] : hand[w] # [part |-> p, off |-> i]
  BY <1>0, <1>2 DEF WorkerAssumption
<1>4. CASE p # q
  <2>1. \A v \in Workers : v # w => hand'[v] = hand[v]
    BY <1>0, <1>1 DEF TypeOK
  <2> QED BY <1>0, <1>1, <1>2, <1>3, <1>4, <2>1, QuietPartition DEF TypeOK
<1>5. CASE p = q
  <2>1. /\ Len(jobs[p]) \in Nat /\ fetch'[p] = fetch[p] + 1
        /\ hand'[w] = [part |-> p, off |-> fetch[p] + 1]
    BY <1>0, <1>1, <1>5, Grows DEF TypeOK
  <2>2. \A i \in 1 .. Len(jobs[p]) : Safe(jobs[p][i]) => Safe(jobs[p][i])'
    BY <1>0, Stays
  <2>3. \A i \in 1 .. committed'[p] : Safe(jobs[p][i])'
    BY <1>0, <1>1, <2>1, <2>2 DEF PartitionOK
  <2>4. \A i \in 1 .. fetch[p] : Safe(jobs[p][i])'
    <3>1. \A i \in 1 .. fetch[p] : Safe(jobs[p][i])
      BY <1>0, <1>1, <1>3, <1>5 DEF PartitionOK, Up
    <3>2. \A i \in 1 .. fetch[p] : i \in 1 .. Len(jobs[p])
      BY <1>0, <2>1 DEF PartitionOK
    <3> QED BY <2>2, <3>1, <3>2
  <2>5. \A i \in 1 .. fetch'[p] : Safe(jobs[p][i])' \/ hand'[w] = [part |-> p, off |-> i]
    <3>1. \A i \in 1 .. fetch[p] + 1 : i \in 1 .. fetch[p] \/ i = fetch[p] + 1
      BY <1>0
    <3> QED BY <2>1, <2>4, <3>1
  <2>6. committed'[p] <= Len(jobs'[p]) /\ fetch'[p] <= Len(jobs'[p])
    BY <1>0, <1>1, <1>5, <2>1 DEF PartitionOK
  <2>7. \A v \in Workers : owner'[p] = v => v = w
    BY <1>1, <1>5
  <2> QED BY <2>3, <2>5, <2>6, <2>7 DEF PartitionOK, Safe, Ended
<1> QED BY <1>4, <1>5

LEMMA CommitPartition ==
    ASSUME WorkerAssumption, IInv, [Next]_vars, NEW p \in Partitions,
           NEW w \in Workers, Commit(w)
    PROVE  PartitionOK(p)'
<1>0. TypeOK /\ PartitionOK(p) /\ InTopic(w) /\ HandOK(w) /\ LoopOK(w)
      /\ committed[p] \in Nat /\ fetch[p] \in Nat
  BY DEF IInv, HandInTopic, TypeOK
<1> DEFINE q == hand[w].part
           o == hand[w].off
<1>1. /\ pc[w] = "committing" /\ owner' = owner /\ fetch' = fetch /\ jobs' = jobs
      /\ committed' = [committed EXCEPT ![q] = o]
      /\ pc' = [pc EXCEPT ![w] = "polling"] /\ hand' = [hand EXCEPT ![w] = NoMessage]
  BY DEF Commit, jobVars
<1>2. hand[w] # NoMessage /\ \A v \in Workers : Up(v)' => Up(v)
  BY <1>0, <1>1 DEF TypeOK, Up
<1>3. /\ q \in Partitions /\ o \in Nat /\ o >= 1 /\ o <= Len(jobs[q]) /\ Len(jobs[q]) \in Nat
      /\ Safe(jobs[q][o]) /\ \A i \in 1 .. o - 1 : Safe(jobs[q][i])
  <2>1. Safe(jobs[q][o])
    BY <1>0, <1>1 DEF LoopOK, Job
  <2> QED BY <1>0, <1>2, <2>1, Grows DEF InTopic, HandOK
<1>4. \A v \in Workers : \A i \in 1 .. fetch[p] : hand[v] = [part |-> p, off |-> i] =>
          hand'[v] = hand[v] \/ Safe(jobs[p][i])
  <2>1. SUFFICES ASSUME NEW i \in 1 .. fetch[p], hand[w] = [part |-> p, off |-> i]
                 PROVE  Safe(jobs[p][i])
    BY <1>0, <1>1 DEF TypeOK
  <2>2. q = p /\ o = i
    BY <2>1
  <2> QED BY <1>3, <2>2
<1>5. CASE p # q
  BY <1>0, <1>1, <1>2, <1>4, <1>5, QuietPartition DEF TypeOK
<1>6. CASE p = q
  <2>1. /\ Len(jobs[p]) \in Nat /\ committed'[p] = o /\ o \in Nat /\ o <= Len(jobs[p])
        /\ \A i \in 1 .. o : Safe(jobs[p][i])
    <3>1. \A i \in 1 .. o : i \in 1 .. o - 1 \/ i = o
      BY <1>3
    <3> QED BY <1>0, <1>1, <1>3, <1>6, <3>1 DEF TypeOK
  <2> HIDE DEF o, q
  <2>2. \A i \in 1 .. Len(jobs[p]) : Safe(jobs[p][i]) => Safe(jobs[p][i])'
    BY <1>0, Stays
  <2>3. \A i \in 1 .. committed'[p] : Safe(jobs[p][i])'
    BY <2>1, <2>2
  <2>4. ASSUME NEW v \in Workers, owner'[p] = v, Up(v)', NEW i \in 1 .. fetch[p]
        PROVE  Safe(jobs[p][i])' \/ hand'[v] = [part |-> p, off |-> i]
    <3>1. i \in 1 .. Len(jobs[p])
      BY <1>0, <2>1 DEF PartitionOK
    <3>2. Safe(jobs[p][i]) \/ hand[v] = [part |-> p, off |-> i]
      BY <1>0, <1>1, <1>2, <2>4 DEF PartitionOK
    <3> QED BY <1>4, <2>2, <3>1, <3>2
  <2>5. committed'[p] <= Len(jobs'[p]) /\ fetch'[p] <= Len(jobs'[p]) /\ fetch'[p] = fetch[p]
    BY <1>0, <1>1, <2>1 DEF PartitionOK
  <2> QED BY <2>3, <2>4, <2>5 DEF PartitionOK, Safe, Ended
<1> QED BY <1>5, <1>6

LEMMA ReassignPartition ==
    ASSUME WorkerAssumption, IInv, [Next]_vars, NEW p \in Partitions, Reassign
    PROVE  PartitionOK(p)'
<1>0. TypeOK /\ PartitionOK(p) /\ committed[p] \in Nat
  BY DEF IInv, TypeOK
<1>1. fetch'[p] = committed[p] /\ committed' = committed /\ jobs' = jobs
  BY DEF Reassign, start_offset, jobVars
<1>2. committed[p] <= Len(jobs[p]) /\ Len(jobs[p]) \in Nat
  BY <1>0, Grows DEF PartitionOK
<1>3. \A i \in 1 .. committed[p] : Safe(jobs[p][i])'
  <2>1. \A i \in 1 .. committed[p] : i \in 1 .. Len(jobs[p]) /\ Safe(jobs[p][i])
    BY <1>0, <1>2 DEF PartitionOK
  <2> QED BY <1>0, <2>1, Stays
<1> QED BY <1>1, <1>2, <1>3 DEF PartitionOK, Safe, Ended

-----------------------------------------------------------------------------
(* Every step                                                              *)

LEMMA LeaveKeeps ==
    ASSUME WorkerAssumption, IInv, [Next]_vars, NEW w \in Workers, Leave(w),
           UNCHANGED <<committed, owner, fetch>>
    PROVE  /\ \A v \in Workers : WorkerOK(v)'
           /\ \A p \in Partitions : PartitionOK(p)'
<1>0. TypeOK
  BY DEF IInv
<1>1. \A v \in Workers : v # w =>
          pc'[v] = pc[v] /\ hand'[v] = hand[v] /\ seq'[v] = seq[v] /\ queue'[v] = queue[v]
  BY <1>0 DEF Leave, TypeOK
<1>2. \A v \in Workers : WorkerOK(v)'
  BY <1>0, <1>1, IdleWorker, GoneWorker
<1>3. \A v \in Workers : Up(v)' => v # w /\ Up(v)
  BY <1>0, <1>1 DEF Leave, TypeOK, Up
<1>4. \A p \in Partitions : PartitionOK(p)'
  BY <1>1, <1>3, QuietPartition
<1> QED BY <1>2, <1>4

\* A step that changes at most w's loop and queue, keeps every process up that was,
\* and every hand unless it becomes full.
LEMMA LoopKeeps ==
    ASSUME WorkerAssumption, IInv, [Next]_vars, NEW w \in Workers,
           \/ Token(w) \/ Finish(w) \/ Flush(w) \/ FlushTimeout(w) \/ Deliver(w)
           \/ Evict(w) \/ \E r \in RequestIds : Hear(w, r)
    PROVE  /\ \A v \in Workers : WorkerOK(v)'
           /\ \A p \in Partitions : PartitionOK(p)'
<1>0. TypeOK
  BY DEF IInv
<1>1. /\ committed' = committed /\ owner' = owner /\ fetch' = fetch /\ hand' = hand
      /\ \A v \in Workers : Up(v)' => Up(v)
      /\ \A v \in Workers : v # w => pc'[v] = pc[v] /\ seq'[v] = seq[v]
  BY <1>0 DEF Token, Finish, Flush, FlushTimeout, Deliver, Evict, Hear, groupVars, loopVars,
              TypeOK, Up
<1>2. \A v \in Workers : v # w => queue'[v] = queue[v]
  BY <1>0, Delivered DEF Token, Finish, Flush, FlushTimeout, Evict, Hear, publish_token_event,
              loopVars, TypeOK
<1>3. \A p \in Partitions : PartitionOK(p)'
  BY <1>1, QuietPartition
<1>4. WorkerOK(w)'
  <2>1. CASE Evict(w) \/ \E r \in RequestIds : Hear(w, r)
    BY <2>1, IdleWorker DEF Evict, Hear, loopVars
  <2> QED BY <2>1, TokenOK, FinishOK, LoopStepOK, DeliverOK
<1> QED BY <1>1, <1>2, <1>3, <1>4, IdleWorker

LEMMA StepKeeps == ASSUME WorkerAssumption, IInv, [Next]_vars PROVE IInv'
<1>0. TypeOK /\ HandInTopic /\ \A p \in Partitions : PartitionOK(p)
  BY DEF IInv
<1> DEFINE Kept == /\ \A v \in Workers : WorkerOK(v)'
                   /\ \A p \in Partitions : PartitionOK(p)'
<1>1. ASSUME UNCHANGED <<committed, owner, fetch, pc, hand, seq, queue>> PROVE Kept
  BY <1>1, IdleWorker, QuietPartition DEF Up
<1>2. ASSUME NEW w \in Workers, NEW p \in Partitions, Poll(w, p) PROVE Kept
  <2>1. \A v \in Workers : v # w =>
            pc'[v] = pc[v] /\ hand'[v] = hand[v] /\ seq'[v] = seq[v] /\ queue'[v] = queue[v]
    BY <1>0, <1>2 DEF Poll, publish_token_event, TypeOK
  <2> QED BY <1>2, <2>1, IdleWorker, PollOK, PollPartition
<1>3. ASSUME NEW w \in Workers, Commit(w) PROVE Kept
  <2>1. \A v \in Workers : v # w =>
            pc'[v] = pc[v] /\ hand'[v] = hand[v] /\ seq'[v] = seq[v] /\ queue'[v] = queue[v]
    BY <1>0, <1>3 DEF Commit, TypeOK
  <2> QED BY <1>3, <2>1, IdleWorker, LoopStepOK, CommitPartition
<1>4. ASSUME NEW w \in Workers,
             Crash(w) \/ CommitError(w) \/ \E p \in Partitions : PollUnreadable(w, p)
      PROVE  Kept
  <2>1. Leave(w) /\ UNCHANGED <<committed, owner, fetch>>
    BY <1>4 DEF Crash, CommitError, PollUnreadable, groupVars
  <2> QED BY <2>1, LeaveKeeps
<1>5. ASSUME NEW w \in Workers, Restart(w) PROVE Kept
  <2>1. \A v \in Workers : v # w =>
            pc'[v] = pc[v] /\ hand'[v] = hand[v] /\ seq'[v] = seq[v] /\ queue'[v] = queue[v]
    BY <1>0, <1>5 DEF Restart, TypeOK
  <2>2. \A p \in Partitions : PartitionOK(p)'
    <3>1. ASSUME NEW p \in Partitions, NEW v \in Workers, owner'[p] = v, Up(v)'
          PROVE  owner[p] = v /\ Up(v) /\ hand'[v] = hand[v]
      <4>1. owner[p] = v /\ v # w
        BY <1>0, <1>5, <3>1 DEF Restart, TypeOK, WorkerAssumption
      <4> QED BY <2>1, <3>1, <4>1 DEF Up
    <3> QED BY <1>5, <3>1, QuietPartition DEF Restart
  <2> QED BY <1>5, <2>1, <2>2, IdleWorker, LoopStepOK
<1>6. ASSUME Reassign PROVE Kept
  <2>1. UNCHANGED <<pc, hand, seq, queue>>
    BY <1>6 DEF Reassign, loopVars
  <2>2. \A v \in Workers : WorkerOK(v)'
    BY <2>1, IdleWorker
  <2>3. \A p \in Partitions : PartitionOK(p)'
    BY <1>6, ReassignPartition
  <2> QED BY <2>2, <2>3
<1>7. ASSUME UNCHANGED vars PROVE Kept
  BY <1>1, <1>7 DEF vars, groupVars, loopVars
<1>8. ASSUME NEW r \in RequestIds, Ask(r) \/ \E p \in Partitions : Produce(r, p) PROVE Kept
  BY <1>1, <1>8 DEF Ask, Produce, groupVars, loopVars
<1>9. ASSUME Rebalance \/ Reshuffle PROVE Kept
  BY <1>6, <1>9 DEF Rebalance, Reshuffle
<1> HIDE DEF Kept
<1>10. ASSUME NEW w \in Workers,
              \/ MainLoop(w) \/ FlushTimeout(w) \/ Deliver(w) \/ Resend(w)
              \/ Crash(w) \/ Restart(w) \/ Evict(w)
              \/ \E r \in RequestIds : Hear(w, r)
       PROVE  Kept
  <2>1. CASE \/ Token(w) \/ Finish(w) \/ Flush(w) \/ FlushTimeout(w) \/ Deliver(w)
             \/ Evict(w) \/ \E r \in RequestIds : Hear(w, r)
    BY <2>1, LoopKeeps DEF Kept
  <2>2. CASE \E p \in Partitions : Poll(w, p) \/ PollUnreadable(w, p)
    BY <1>2, <1>4, <2>2
  <2>3. CASE Commit(w) \/ CommitError(w) \/ Crash(w) \/ Restart(w)
    BY <1>3, <1>4, <1>5, <2>3
  <2>4. CASE Resend(w)
    BY <1>1, <2>4 DEF Resend, groupVars, loopVars
  <2> QED BY <1>10, <2>1, <2>2, <2>3, <2>4 DEF MainLoop
<1>11. Kept
  BY <1>7, <1>8, <1>9, <1>10 DEF Next
<1>12. TypeOK'
  BY <1>0, StepTyped
<1> QED BY <1>11, <1>12 DEF Kept, IInv, WorkerOK, HandInTopic

LEMMA InitKeeps == ASSUME WorkerAssumption, Init PROVE IInv
<1>1. TypeOK
  BY InitTyped
<1>2. \A p \in Partitions : PartitionOK(p)
  BY DEF Init, PartitionOK
<1>3. \A w \in Workers : InTopic(w) /\ HandOK(w) /\ LoopOK(w) /\ QueueOK(w)
  BY DEF Init, InTopic, HandOK, LoopOK, QueueOK
<1> QED BY <1>1, <1>2, <1>3 DEF IInv, HandInTopic

LEMMA AlwaysIInv == Spec => []IInv
<1>1. Init => IInv
  BY WorkerAssumption, InitKeeps
<1>2. IInv /\ [Next]_vars => IInv'
  BY WorkerAssumption, StepKeeps
<1> QED BY <1>1, <1>2, PTL DEF Spec

\* Every variable keeps its type.
THEOREM WorkersTyped == Spec => []TypeOK
<1>1. IInv => TypeOK
  BY DEF IInv
<1> QED BY <1>1, AlwaysIInv, PTL

SettledEnded == CommittedHasEnded /\ Settled \subseteq RequestIds

LEMMA SettledSafe == ASSUME IInv PROVE SettledEnded
<1>1. SUFFICES ASSUME NEW p \in Partitions, NEW i \in 1 .. committed[p]
               PROVE  Safe(jobs[p][i]) /\ jobs[p][i] \in RequestIds
  BY <1>1 DEF SettledEnded, CommittedHasEnded, Settled, Safe
<1>2. TypeOK /\ PartitionOK(p)
  BY DEF IInv
<1>3. jobs[p] \in Seq(RequestIds) /\ committed[p] \in Nat /\ committed[p] <= Len(jobs[p])
  BY <1>2 DEF TypeOK, PartitionOK
<1>4. i \in 1 .. Len(jobs[p])
  BY <1>3
<1> QED BY <1>2, <1>3, <1>4 DEF PartitionOK

\* However workers crash, are thrown out and work on beside a new owner: a job is
\* committed, and processed no more, only when its end is in the token topic, or
\* flush(10) gave up on it (main, process_job, KafkaIO.commit).
THEOREM OnlyEndedCommitted == Spec => []CommittedHasEnded
<1>1. IInv => CommittedHasEnded
  BY SettledSafe DEF SettledEnded
<1> QED BY <1>1, AlwaysIInv, PTL

-----------------------------------------------------------------------------
(* The contract                                                            *)

\* Nobody reports on what is not a job.
OfJobs == \A w \in Workers : \A k \in 1 .. Len(queue[w]) : queue[w][k].id \in Produced

\* Jobs stay in the request topic; only the gateway puts any there.
LEMMA ProducedGrows ==
    ASSUME WorkerAssumption, TypeOK, [Next]_vars PROVE Produced \subseteq Produced'
<1>1. \A p \in Partitions : /\ Len(jobs[p]) \in Nat /\ Len(jobs'[p]) \in Nat
                            /\ Len(jobs[p]) <= Len(jobs'[p])
                            /\ \A i \in 1 .. Len(jobs[p]) : jobs'[p][i] = jobs[p][i]
  BY Grows
<1>2. SUFFICES ASSUME NEW p \in Partitions, NEW i \in 1 .. Len(jobs[p])
               PROVE  jobs[p][i] \in Produced'
  BY DEF Produced
<1>3. i \in 1 .. Len(jobs'[p]) /\ jobs'[p][i] = jobs[p][i]
  BY <1>1
<1> QED BY <1>3 DEF Produced

\* Publishing about a job.
LEMMA PublishOfJobs ==
    ASSUME TypeOK, OfJobs, Produced \subseteq Produced', NEW w \in Workers,
           NEW r \in RequestIds, r \in Produced,
           NEW type \in {"STARTED", "TOKEN"} \cup TerminalTypes, NEW n \in Nat,
           publish_token_event(w, r, type, n)
    PROVE  OfJobs'
<1>1. /\ \A v \in Workers : v # w => queue'[v] = queue[v]
      /\ Len(queue'[w]) = Len(queue[w]) + 1 /\ Len(queue[w]) \in Nat
      /\ \A k \in 1 .. Len(queue[w]) : queue'[w][k] = queue[w][k]
      /\ queue'[w][Len(queue[w]) + 1].id = r
  BY PublishTyped
<1>2. ASSUME NEW k \in 1 .. Len(queue'[w]) PROVE queue'[w][k].id \in Produced'
  <2>1. CASE k = Len(queue[w]) + 1
    BY <1>1, <2>1
  <2>2. CASE k \in 1 .. Len(queue[w])
    BY <1>1, <2>2 DEF OfJobs
  <2> QED BY <1>1, <2>1, <2>2
<1>3. ASSUME NEW v \in Workers, v # w, NEW k \in 1 .. Len(queue'[v])
      PROVE  queue'[v][k].id \in Produced'
  BY <1>1, <1>3 DEF OfJobs
<1> QED BY <1>2, <1>3 DEF OfJobs

LEMMA OfJobsKept == ASSUME WorkerAssumption, IInv, OfJobs, [Next]_vars PROVE OfJobs'
<1>0. /\ TypeOK /\ HandInTopic /\ Produced \subseteq Produced'
      /\ seq \in [Workers -> 0 .. MaxTokens] /\ MaxTokens \in Nat
  BY ProducedGrows DEF IInv, TypeOK, WorkerAssumption
<1>1. ASSUME queue' = queue PROVE OfJobs'
  BY <1>0, <1>1 DEF OfJobs
<1>2. ASSUME NEW w \in Workers, Leave(w) PROVE OfJobs'
  <2>1. /\ \A v \in Workers : v # w => queue'[v] = queue[v]
        /\ queue'[w] = <<>>
    BY <1>0, <1>2 DEF Leave, TypeOK
  <2>2. \A k \in 1 .. Len(queue'[w]) : queue'[w][k].id \in Produced'
    BY <2>1
  <2> QED BY <1>0, <2>1, <2>2 DEF OfJobs
<1>3. ASSUME NEW w \in Workers, NEW p \in Partitions, Poll(w, p) PROVE OfJobs'
  <2> DEFINE i == fetch[p] + 1
  <2>1. /\ i \in 1 .. Len(jobs[p]) /\ jobs[p] \in Seq(RequestIds)
        /\ publish_token_event(w, jobs[p][i], "STARTED", 0)
    BY <1>0, <1>3 DEF Poll, TypeOK
  <2>2. jobs[p][i] \in RequestIds /\ jobs[p][i] \in Produced
    BY <2>1 DEF Produced
  <2> HIDE DEF i
  <2> QED BY <1>0, <2>1, <2>2, PublishOfJobs
<1>4. ASSUME NEW w \in Workers, Token(w) \/ Finish(w) PROVE OfJobs'
  <2>1. pc[w] = "running"
    BY <1>4 DEF Token, Finish
  <2>2. hand[w] # NoMessage
    BY <1>0, <2>1 DEF TypeOK
  <2>3. Job(w) \in RequestIds
    BY <1>0, <2>2, JobInRequests
  <2>4. Job(w) \in Produced
    BY <1>0, <2>2 DEF HandInTopic, InTopic, Job, Produced
  <2>5. seq[w] \in Nat /\ seq[w] + 1 \in Nat
    BY <1>0
  <2>6. \E type \in {"STARTED", "TOKEN"} \cup TerminalTypes : \E n \in Nat :
            publish_token_event(w, Job(w), type, n)
    BY <1>4, <2>5 DEF Token, Finish
  <2> QED BY <1>0, <2>3, <2>4, <2>6, PublishOfJobs
<1>5. ASSUME NEW w \in Workers, Deliver(w) PROVE OfJobs'
  <2>1. /\ \A v \in Workers : v # w => queue'[v] = queue[v]
        /\ Len(queue'[w]) = Len(queue[w]) - 1 /\ Len(queue[w]) \in Nat
        /\ \A k \in 1 .. Len(queue'[w]) : queue'[w][k] = queue[w][k + 1]
    BY <1>0, <1>5, Delivered
  <2>2. ASSUME NEW k \in 1 .. Len(queue'[w]) PROVE queue'[w][k].id \in Produced'
    <3>1. k + 1 \in 1 .. Len(queue[w])
      BY <2>1
    <3> QED BY <1>0, <2>1, <3>1 DEF OfJobs
  <2> QED BY <1>0, <2>1, <2>2 DEF OfJobs
<1>6. ASSUME NEW w \in Workers,
             \/ MainLoop(w) \/ FlushTimeout(w) \/ Deliver(w) \/ Resend(w)
             \/ Crash(w) \/ Restart(w) \/ Evict(w)
             \/ \E r \in RequestIds : Hear(w, r)
      PROVE  OfJobs'
  <2>1. CASE MainLoop(w)
    BY <1>1, <1>2, <1>3, <1>4, <2>1 DEF MainLoop, PollUnreadable, Flush, Commit, CommitError
  <2>2. CASE \/ FlushTimeout(w) \/ Resend(w) \/ Restart(w) \/ Evict(w)
             \/ \E r \in RequestIds : Hear(w, r)
    BY <1>1, <2>2 DEF FlushTimeout, Resend, Restart, Evict, Hear, loopVars
  <2> QED BY <1>2, <1>5, <1>6, <2>1, <2>2 DEF Crash
<1>7. CASE UNCHANGED vars \/ Rebalance \/ Reshuffle
  BY <1>1, <1>7 DEF vars, Rebalance, Reshuffle, Reassign
<1>8. ASSUME NEW r \in RequestIds, Ask(r) \/ \E p \in Partitions : Produce(r, p) PROVE OfJobs'
  BY <1>1, <1>8 DEF Ask, Produce
<1> QED BY <1>6, <1>7, <1>8 DEF Next

LEMMA ArrivalKeepsLog ==
    ASSUME WorkerAssumption, IInv, OfJobs, NEW w \in Workers, Deliver(w) \/ Resend(w)
    PROVE  Contract!Next
<1>0. TypeOK /\ QueueOK(w) /\ queue[w] \in Seq(Event) /\ Arrive(w)
  BY DEF IInv, TypeOK, Deliver, Resend
<1>d. /\ queue[w][1] \in Event /\ Len(queue[w]) \in Nat /\ Len(queue[w]) > 0
      /\ topic' = [topic EXCEPT ![queue[w][1].id] =
                       Append(@, [type |-> queue[w][1].type, seq |-> queue[w][1].seq])]
  BY <1>0, Arrived
<1>e. PICK e : e = queue[w][1]
  OBVIOUS
<1>1. /\ e \in Event /\ e = queue[w][1] /\ 1 \in 1 .. Len(queue[w])
      /\ topic' = [topic EXCEPT ![e.id] = Append(@, [type |-> e.type, seq |-> e.seq])]
  BY <1>d, <1>e
<1>2. EventOK(w, 1, e)
  BY <1>0, <1>1 DEF QueueOK
<1>3. \A n : Got(w, 1, e.id, n) => Reached(e.id, n)
  BY DEF Got
<1>4. /\ e.id \in RequestIds /\ e.seq \in Nat /\ e.type \in {"STARTED", "TOKEN"} \cup TerminalTypes
  BY <1>1 DEF Event
<1>5. /\ control' = control /\ Settled' = Settled /\ unflushed' = unflushed
      /\ Produced' = Produced /\ e.id \in Produced
      /\ Contract!Publish(e.id, e.type, e.seq)
  BY SMTT(30), <1>1 DEF Deliver, Resend, jobVars, groupVars, Settled, Produced, OfJobs, Contract!Publish
<1>6. CASE e.type = "STARTED"
  BY <1>2, <1>4, <1>5, <1>6 DEF EventOK, Contract!Start, Contract!Next
<1>7. CASE e.type = "TOKEN"
  <2>1. e.seq >= 1 /\ Reached(e.id, e.seq - 1) /\ (e.seq - 1) + 1 = e.seq
    BY <1>2, <1>3, <1>4, <1>7 DEF EventOK
  <2>2. Contract!Token(e.id)
    BY <1>5, <1>7, <2>1 DEF Reached, Contract!Token, Contract!Progress
  <2> QED BY <1>4, <2>2 DEF Contract!Next
<1>8. CASE e.type \in TerminalTypes
  <2>1. Reached(e.id, e.seq) /\ (e.type = "CANCELLED" => e.id \in control)
    BY <1>2, <1>3, <1>8 DEF EventOK
  <2>2. Contract!End(e.id)
    BY <1>5, <1>8, <2>1 DEF Reached, Contract!End, Contract!Progress, Contract!TerminalTypes,
                            TerminalTypes
  <2> QED BY <1>4, <2>2 DEF Contract!Next
<1> QED BY <1>4, <1>6, <1>7, <1>8

LEMMA StepKeepsLog ==
    ASSUME WorkerAssumption, IInv, OfJobs, SettledEnded', [Next]_vars
    PROVE  [Contract!Next]_(Contract!vars)
<1>1. ASSUME topic' = topic, control' = control, Produced' = Produced PROVE Contract!Next
  <2>1. (Settled \ unflushed)' \subseteq {r \in RequestIds : Ended(r)'}
    BY DEF SettledEnded, CommittedHasEnded
  <2>2. \A r \in RequestIds : Ended(r)' => Contract!Ended(r)
    BY <1>1 DEF Ended, Contract!Ended, TerminalTypes, Contract!TerminalTypes
  <2> QED BY <1>1, <2>1, <2>2 DEF Contract!Settle, Contract!Next
<1>2. ASSUME NEW r \in RequestIds, Ask(r) PROVE Contract!Next
  <2>1. Contract!Ask(r)
    BY <1>2 DEF Ask, jobVars, groupVars, Settled, Produced, Contract!Ask
  <2> QED BY <2>1 DEF Contract!Next
<1>3. ASSUME NEW w \in Workers, NEW r \in RequestIds, Hear(w, r) PROVE Contract!Next
  BY <1>1, <1>3 DEF Hear, jobVars, Produced
<1>4. ASSUME NEW r \in RequestIds, NEW p \in Partitions, Produce(r, p) PROVE Contract!Next
  <2>1. Produced \subseteq Produced' /\ Produced' \subseteq RequestIds
    <3>1. TypeOK /\ TypeOK'
      BY StepTyped, <1>4 DEF IInv, Next
    <3>2. \A q \in Partitions : \A i \in 1 .. Len(jobs'[q]) : jobs'[q][i] \in RequestIds
      <4>1. \A q \in Partitions : jobs'[q] \in Seq(RequestIds)
        BY <3>1 DEF TypeOK
      <4> QED BY <4>1
    <3>3. Produced \subseteq Produced'
      BY <3>1, ProducedGrows
    <3>4. Produced' \subseteq RequestIds
      BY <3>2 DEF Produced
    <3> QED BY <3>3, <3>4
  <2>2. UNCHANGED <<topic, control, Settled \ unflushed>>
    <3>1. Settled' = Settled
      <4>1. \A q \in Partitions : /\ committed[q] <= Len(jobs[q]) /\ committed[q] \in Nat
                                 /\ Len(jobs[q]) \in Nat /\ committed'[q] = committed[q]
                                 /\ \A i \in 1 .. Len(jobs[q]) : jobs'[q][i] = jobs[q][i]
        BY <1>4, Grows DEF IInv, PartitionOK, TypeOK, Produce, groupVars
      <4>2. \A q \in Partitions : \A i \in 1 .. committed[q] : jobs'[q][i] = jobs[q][i]
        BY <4>1
      <4>3. \A q \in Partitions : {jobs'[q][i] : i \in 1 .. committed'[q]} =
                                 {jobs[q][i] : i \in 1 .. committed[q]}
        BY <4>1, <4>2
      <4> QED BY <4>3 DEF Settled
    <3> QED BY <1>4, <3>1 DEF Produce
  <2> QED BY <2>1, <2>2 DEF Contract!Give, Contract!Next
<1>5. ASSUME NEW w \in Workers, MainLoop(w) PROVE Contract!Next
  BY <1>1, <1>5 DEF MainLoop, Poll, PollUnreadable, Token, Finish, Flush, Commit, CommitError,
                  jobVars, Produced
<1>6. ASSUME NEW w \in Workers, FlushTimeout(w) \/ Crash(w) \/ Restart(w) \/ Evict(w)
      PROVE  Contract!Next
  BY <1>1, <1>6 DEF FlushTimeout, Crash, Restart, Evict, jobVars, Produced
<1>7. ASSUME Rebalance \/ Reshuffle \/ UNCHANGED vars PROVE Contract!Next
  BY <1>1, <1>7 DEF Rebalance, Reshuffle, Reassign, vars, jobVars, Produced
<1> QED BY <1>2, <1>3, <1>4, <1>5, <1>6, <1>7, ArrivalKeepsLog DEF Next

LEMMA InitLog == ASSUME Init PROVE Contract!Init /\ OfJobs
<1>1. Produced = {} /\ Settled = {}
  BY DEF Init, Produced, Settled
<1> QED BY <1>1 DEF Init, Contract!Init, OfJobs

\* The workers implement the token log: through every crash, eviction, rebalance
\* and retry, events build on events, only asked requests are cancelled, and
\* commits reach ended requests only (process_job, publish_token_event, main).
THEOREM KeepsContract == Spec => KeepsTokenLog
<1>1. Init => Contract!Init /\ OfJobs
  BY InitLog
<1>2. IInv => SettledEnded
  BY SettledSafe
<1>4. IInv /\ OfJobs /\ [Next]_vars => OfJobs'
  BY WorkerAssumption, OfJobsKept
<1>3. IInv /\ OfJobs /\ SettledEnded' /\ [Next]_vars => [Contract!Next]_(Contract!vars)
  BY WorkerAssumption, StepKeepsLog
<1> QED BY <1>1, <1>2, <1>3, <1>4, AlwaysIInv, PTL DEF Spec, KeepsTokenLog, Contract!Spec
=============================================================================
