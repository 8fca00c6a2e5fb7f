---------------------------- MODULE GatewayContract ----------------------------
(***************************************************************************)
(* The gateway and its workers' contract, for every set of calls and ids,   *)
(* every choice of faults and every bound.  Gateway's own workers keep the  *)
(* contract; whoever keeps it can take their place; and so the gateway      *)
(* keeps its promises with the workers of module Worker.                   *)
(***************************************************************************)
EXTENDS GatewayStreams, Cluster

\* In a log, an attempt had got to n; an attempt had ended.
Reached(log, n) ==
    \E i \in 1 .. Len(log) : log[i].type \in {"STARTED", "TOKEN"} /\ log[i].seq = n
HasEnd(log) == \E i \in 1 .. Len(log) : log[i].type \in TerminalTypes

\* A job's state is backed by the log: what a running worker counts from is there,
\* and so is the end of an attempt that published one.
JobsBacked ==
    \A c \in Calls :
        /\ job[c] = "running" => Reached(topic[call[c].id], seq[c])
        /\ job[c] \in {"emitted", "done"} => HasEnd(topic[call[c].id])

LogInv == CallInv /\ LogsBegun /\ JobsBacked

\* What is in the log stays there.
LEMMA LogGrows ==
    ASSUME GatewayAssumption, TypeOK, [Next]_vars, NEW r \in RequestIds
    PROVE  /\ \A n : Reached(topic[r], n) => Reached(topic'[r], n)
           /\ HasEnd(topic[r]) => HasEnd(topic'[r])
<1>1. /\ Len(topic[r]) \in Nat /\ Len(topic'[r]) \in Nat
      /\ Len(topic[r]) <= Len(topic'[r])
      /\ \A i \in 1 .. Len(topic[r]) : topic'[r][i] = topic[r][i]
  <2>1. topic[r] \in Seq(Event)
    BY DEF TypeOK
  <2>2. Len(topic[r]) <= Len(topic'[r])
    BY TopicGrows
  <2> QED BY <2>1, <2>2, TopicGrows
<1>2. \A i \in 1 .. Len(topic[r]) : i \in 1 .. Len(topic'[r])
  BY <1>1
<1> QED BY <1>1, <1>2 DEF Reached, HasEnd

\* A publication puts its event into the log.
LEMMA PublishedThere ==
    ASSUME TypeOK, NEW c \in Calls, NEW type \in EventTypes, NEW n \in Nat, Publish(c, type, n)
    PROVE  /\ type \in {"STARTED", "TOKEN"} => Reached(topic'[call[c].id], n)
           /\ type \in TerminalTypes => HasEnd(topic'[call[c].id])
<1> DEFINE r == call[c].id
           e == [type |-> type, seq |-> n]
           i == Len(topic[r]) + 1
<1>1. r \in RequestIds /\ topic \in [RequestIds -> Seq(Event)]
  BY DEF TypeOK
<1>2. topic' = [topic EXCEPT ![r] = Append(@, e)]
  BY DEF Publish
<1>3. topic'[r] = Append(topic[r], e)
  BY <1>1, <1>2
<1>4. e \in Event /\ topic[r] \in Seq(Event) /\ e.type = type /\ e.seq = n
  BY <1>1 DEF Event
<1> HIDE DEF e
<1>5. Len(Append(topic[r], e)) = i /\ Append(topic[r], e)[i] = e /\ i \in 1 .. i
  BY <1>4
<1>6. i \in 1 .. Len(topic'[r]) /\ topic'[r][i].type = type /\ topic'[r][i].seq = n
  BY <1>3, <1>4, <1>5
<1> HIDE DEF i, r
<1>7. \E k \in 1 .. Len(topic'[r]) : topic'[r][k].type = type /\ topic'[r][k].seq = n
  BY <1>6
<1> QED BY <1>7 DEF Reached, HasEnd, r

\* Every step keeps the jobs' states backed.
LEMMA JobsBackedKept ==
    ASSUME GatewayAssumption, LogInv, [Next]_vars
    PROVE  JobsBacked'
<1> USE DEF mapVars, chanVars, taskVars, metricVars, consVars, workerVars, cancelVars
<1>0. /\ TypeOK /\ JobsBacked /\ call' = call
      /\ job \in [Calls -> JobStates] /\ seq \in [Calls -> 0 .. MaxTokens]
      /\ \A c \in Calls : call[c].id \in RequestIds
  BY WorkerSteps DEF LogInv, CallInv, TypeInv, TypeOK
<1> DEFINE Log(c) == topic'[call[c].id]
<1>k. \A c \in Calls : /\ job[c] = "running" => Reached(Log(c), seq[c])
                       /\ job[c] \in {"emitted", "done"} => HasEnd(Log(c))
  BY <1>0, LogGrows DEF JobsBacked
<1>g. SUFFICES \A c \in Calls : /\ job'[c] = "running" => Reached(Log(c), seq'[c])
                                /\ job'[c] \in {"emitted", "done"} => HasEnd(Log(c))
  BY <1>0 DEF JobsBacked
<1>1. ASSUME NEW c \in Calls, WorkerStart(c)
      PROVE  Reached(Log(c), 0) /\ seq' = [seq EXCEPT ![c] = 0] /\ job' = [job EXCEPT ![c] = "running"]
  <2>1. Publish(c, "STARTED", 0) /\ seq' = [seq EXCEPT ![c] = 0]
        /\ job' = [job EXCEPT ![c] = "running"]
    BY <1>1 DEF WorkerStart
  <2>2. 0 \in Nat /\ "STARTED" \in EventTypes
    BY DEF EventTypes
  <2>3. Reached(Log(c), 0)
    BY <1>0, <2>1, <2>2, PublishedThere
  <2> QED BY <2>1, <2>3
<1>2. ASSUME NEW c \in Calls, WorkerToken(c)
      PROVE  /\ Reached(Log(c), seq[c] + 1) /\ seq' = [seq EXCEPT ![c] = seq[c] + 1] /\ job' = job
  <2>1. Publish(c, "TOKEN", seq[c] + 1) /\ seq' = [seq EXCEPT ![c] = seq[c] + 1] /\ job' = job
    BY <1>2 DEF WorkerToken
  <2>2. seq[c] + 1 \in Nat /\ "TOKEN" \in EventTypes
    BY <1>0 DEF GatewayAssumption, EventTypes
  <2>3. Reached(Log(c), seq[c] + 1)
    BY <1>0, <2>1, <2>2, PublishedThere
  <2> QED BY <2>1, <2>3
<1>3. ASSUME NEW c \in Calls, WorkerFinish(c)
      PROVE  HasEnd(Log(c)) /\ job' = [job EXCEPT ![c] = "emitted"] /\ seq' = seq
  <2>1. PICK type \in TerminalTypes : Publish(c, type, seq[c])
    BY <1>3 DEF WorkerFinish
  <2>2. job' = [job EXCEPT ![c] = "emitted"] /\ seq' = seq
    BY <1>3 DEF WorkerFinish
  <2>3. seq[c] \in Nat /\ type \in EventTypes
    BY <1>0 DEF GatewayAssumption, EventTypes
  <2>4. HasEnd(Log(c))
    BY <1>0, <2>1, <2>3, PublishedThere
  <2> QED BY <2>2, <2>4
<1>4. ASSUME NEW c \in Calls, WorkerCommit(c)
      PROVE  job[c] = "emitted" /\ job' = [job EXCEPT ![c] = "done"] /\ seq' = seq
  BY <1>4 DEF WorkerCommit
<1>5. ASSUME NEW r \in RequestIds, PublishCancel(r) PROVE job' = job /\ seq' = seq
  BY <1>5 DEF PublishCancel
<1>6. ASSUME NEW c \in Calls, StrayEvent(c) PROVE job' = job /\ seq' = seq
  BY <1>6 DEF StrayEvent
<1> HIDE DEF Log
<1> QED BY <1>0, <1>k, <1>1, <1>2, <1>3, <1>4, <1>5, <1>6, WorkerSteps

LEMMA LogInvKept == ASSUME GatewayAssumption, LogInv, [Next]_vars PROVE LogInv'
  BY JobsBackedKept, CallInvKept, LogsBegunKept DEF LogInv

\* Every step of the system is one of the log's, or leaves it alone.
LEMMA StepKeepsContract ==
    ASSUME GatewayAssumption, LogInv, LogInv', [Next]_vars
    PROVE  [Contract!Next]_(Contract!vars)
<1> USE DEF mapVars, chanVars, taskVars, metricVars, consVars, workerVars, cancelVars
<1> DEFINE done == {call[c].id : c \in {d \in Calls : job[d] = "done"}}
           given == {call[c].id : c \in {d \in Calls : Delivered(d)}}
<1>0. TypeOK /\ JobsBacked /\ JobsBacked' /\ call' = call
  BY WorkerSteps DEF LogInv, CallInv, TypeInv
<1>6. \A c \in Calls : call[c].id \in RequestIds
  BY <1>0 DEF TypeOK
<1>d. \A c \in Calls : Delivered(c) <=> job[c] \in HasReached
  BY DEF Delivered, HasReached
<1>g. ASSUME topic' = topic, control' = control,
             \A c \in Calls : job'[c] \in {"running", "emitted", "done"} => job'[c] = job[c]
      PROVE  Contract!Give
  <2>1. \A c \in Calls : /\ job[c] \in HasReached => job'[c] \in HasReached
                         /\ job'[c] = "done" <=> job[c] = "done"
    BY <1>g, JobsStay DEF LogInv
  <2>2. done' = done
    BY <1>0, <2>1
  <2>3. given \subseteq given' /\ given' \subseteq RequestIds
    BY <1>0, <1>6, <2>1 DEF Delivered, HasReached
  <2> QED BY <1>g, <2>2, <2>3 DEF Contract!Give
<1>s. ASSUME topic' = topic, control' = control, given' = given PROVE Contract!Settle
  <2>1. \A c \in Calls : job'[c] = "done" => HasEnd(topic[call[c].id])
    BY <1>0, <1>s DEF JobsBacked
  <2>2. done' \subseteq {r \in RequestIds : HasEnd(topic[r])}
    BY <1>0, <1>6, <2>1
  <2> QED BY <1>s, <2>2 DEF Contract!Settle, Contract!Ended, HasEnd, Contract!TerminalTypes,
                            TerminalTypes
<1>1. ASSUME NEW c \in Calls, WorkerStart(c) PROVE Contract!Start(call[c].id)
  <2>1. Publish(c, "STARTED", 0) /\ control' = control
    BY <1>1 DEF WorkerStart
  <2>2. job[c] = "queued" /\ job' = [job EXCEPT ![c] = "running"]
    BY <1>1 DEF WorkerStart
  <2>3. done' = done
    BY <1>0, <2>2 DEF TypeOK
  <2>4. given' = given /\ call[c].id \in given
    <3>1. Delivered(c) /\ \A d \in Calls : Delivered(d)' <=> Delivered(d)
      BY <1>0, <2>2 DEF TypeOK, Delivered
    <3> QED BY <1>0, <3>1
  <2> QED BY <1>0, <2>1, <2>3, <2>4 DEF Contract!Start, Contract!Publish, Publish
<1>2. ASSUME NEW c \in Calls, WorkerToken(c) PROVE Contract!Token(call[c].id)
  <2>1. Publish(c, "TOKEN", seq[c] + 1) /\ control' = control /\ job' = job
    BY <1>2 DEF WorkerToken
  <2>2. Reached(topic[call[c].id], seq[c])
    BY <1>0, <1>2 DEF WorkerToken, JobsBacked
  <2>3. given' = given
    BY <1>0, <2>1 DEF Delivered
  <2> QED BY <1>0, <2>1, <2>2, <2>3 DEF Contract!Token, Contract!Publish, Publish, Reached,
                                       Contract!Progress
<1>3. ASSUME NEW c \in Calls, WorkerFinish(c) PROVE Contract!End(call[c].id)
  <2>1. PICK type \in TerminalTypes :
            (type = "CANCELLED" => call[c].id \in control) /\ Publish(c, type, seq[c])
    BY <1>3 DEF WorkerFinish
  <2>4. job[c] = "running" /\ job' = [job EXCEPT ![c] = "emitted"] /\ control' = control
    BY <1>3 DEF WorkerFinish
  <2>5. \A d \in Calls : /\ job'[d] = "done" <=> job[d] = "done"
                         /\ Delivered(d)' <=> Delivered(d)
    BY <1>0, <2>4 DEF TypeOK, Delivered
  <2>2. done' = done /\ given' = given
    BY <1>0, <2>5
  <2>3. Reached(topic[call[c].id], seq[c])
    BY <1>0, <1>3 DEF WorkerFinish, JobsBacked
  <2> QED BY <1>0, <2>1, <2>2, <2>3, <2>4 DEF Contract!End, Contract!Publish, Publish, Reached,
                Contract!Progress, Contract!TerminalTypes, TerminalTypes
<1>4. ASSUME NEW c \in Calls, WorkerCommit(c) PROVE Contract!Settle
  <2>1. job[c] = "emitted" /\ job' = [job EXCEPT ![c] = "done"]
        /\ topic' = topic /\ control' = control
    BY <1>4 DEF WorkerCommit
  <2>2. given' = given
    BY <1>0, <2>1 DEF TypeOK, Delivered
  <2> QED BY <1>s, <2>1, <2>2
<1>5. ASSUME NEW r \in RequestIds, PublishCancel(r) PROVE Contract!Ask(r)
  <2>1. job' = job /\ topic' = topic /\ control' = control \cup {r}
    BY <1>5 DEF PublishCancel
  <2>2. given' = given
    BY <1>0, <2>1 DEF Delivered
  <2> QED BY <1>0, <2>1, <2>2 DEF Contract!Ask
<1>8. ASSUME NEW c \in Calls, StrayEvent(c)
      PROVE  Contract!Start(call[c].id) \/ Contract!Token(call[c].id) \/ Contract!End(call[c].id)
  <2> DEFINE r == call[c].id
  <2>a. /\ control' = control /\ job' = job /\ tries[c] > 0
        /\ topic \in [RequestIds -> Seq(Event)] /\ r \in RequestIds
    BY <1>0, <1>8 DEF StrayEvent, TypeOK
  <2>b. Delivered(c)
    BY <1>d, <2>a DEF LogInv, LogsBegun
  <2>1. /\ control' = control /\ done' = done /\ given' = given /\ r \in given
        /\ topic \in [RequestIds -> Seq(Event)] /\ r \in RequestIds
    BY <1>0, <2>a, <2>b DEF Delivered
  <2>2. ASSUME NEW i \in 1 .. Len(topic[r]), ~IsTerminalAt(r, i)
        PROVE  topic[r][i].type \in {"STARTED", "TOKEN"}
    <3>1. topic[r][i] \in Event
      BY <2>1, <2>2
    <3>2. \A e \in Event : e.type \in TerminalTypes \/ e.type \in {"STARTED", "TOKEN"}
      BY DEF Event, EventTypes
    <3> QED BY <2>2, <3>1, <3>2 DEF IsTerminalAt, EventAt
  <2>3. \/ Publish(c, "STARTED", 0)
        \/ \E i \in 1 .. Len(topic[r]) :
              /\ topic[r][i].type \in {"STARTED", "TOKEN"}
              /\ \/ Publish(c, "TOKEN", topic[r][i].seq + 1)
                 \/ \E type \in TerminalTypes : /\ type = "CANCELLED" => r \in control
                                               /\ Publish(c, type, topic[r][i].seq)
    <3> DEFINE Progress == {i \in 1 .. Len(topic[r]) : ~IsTerminalAt(r, i)}
    <3>1. \/ Publish(c, "STARTED", 0)
          \/ \E i \in Progress : Publish(c, "TOKEN", topic[r][i].seq + 1)
          \/ \E i \in Progress : \E type \in TerminalTypes :
                /\ type = "CANCELLED" => r \in control
                /\ Publish(c, type, topic[r][i].seq)
      BY <1>8 DEF StrayEvent, EventAt
    <3>2. \A i \in Progress :
              i \in 1 .. Len(topic[r]) /\ topic[r][i].type \in {"STARTED", "TOKEN"}
      BY <2>2
    <3> HIDE DEF Progress
    <3> QED BY <3>1, <3>2
  <2>4. CASE Publish(c, "STARTED", 0)
    BY <2>1, <2>4 DEF Contract!Start, Contract!Publish, Publish
  <2>5. ASSUME NEW i \in 1 .. Len(topic[r]), topic[r][i].type \in {"STARTED", "TOKEN"},
               Publish(c, "TOKEN", topic[r][i].seq + 1)
        PROVE  Contract!Token(r)
    BY <2>1, <2>5 DEF Contract!Token, Contract!Publish, Publish, Contract!Progress
  <2>6. ASSUME NEW i \in 1 .. Len(topic[r]), topic[r][i].type \in {"STARTED", "TOKEN"},
               NEW type \in TerminalTypes, type = "CANCELLED" => r \in control,
               Publish(c, type, topic[r][i].seq)
        PROVE  Contract!End(r)
    BY <2>1, <2>6 DEF Contract!End, Contract!Publish, Publish, Contract!Progress,
                      Contract!TerminalTypes, TerminalTypes
  <2> QED BY <2>3, <2>4, <2>5, <2>6
<1>7. \/ Contract!Settle \/ Contract!Give
      \/ \E r \in RequestIds :
            Contract!Start(r) \/ Contract!Token(r) \/ Contract!End(r) \/ Contract!Ask(r)
  <2> DEFINE IsStep == \/ Contract!Settle \/ Contract!Give
                       \/ \E r \in RequestIds : \/ Contract!Start(r) \/ Contract!Token(r)
                                               \/ Contract!End(r) \/ Contract!Ask(r)
  <2>1. ASSUME NEW c \in Calls,
               WorkerStart(c) \/ WorkerToken(c) \/ WorkerFinish(c) \/ WorkerCommit(c)
        PROVE  IsStep
    <3>1. call[c].id \in RequestIds
      BY <1>6
    <3>2. \/ Contract!Start(call[c].id) \/ Contract!Token(call[c].id)
          \/ Contract!End(call[c].id) \/ Contract!Settle
      BY <2>1, <1>1, <1>2, <1>3, <1>4
    <3> QED BY <3>1, <3>2
  <2>2. ASSUME NEW r \in RequestIds, PublishCancel(r) PROVE IsStep
    BY <1>5, <2>2
  <2>3. ASSUME topic' = topic, control' = control,
               \A c \in Calls : job'[c] \in {"running", "emitted", "done"} => job'[c] = job[c]
        PROVE  IsStep
    BY <1>g, <2>3
  <2>5. ASSUME NEW c \in Calls, StrayEvent(c) PROVE IsStep
    BY <1>6, <1>8, <2>5
  <2> HIDE DEF IsStep
  <2>4. IsStep
    BY <2>1, <2>2, <2>3, <2>5, <1>0, WorkerSteps
  <2> QED BY <2>4 DEF IsStep
<1> QED BY <1>7 DEF Contract!Next

LEMMA InitLog == ASSUME GatewayAssumption, Init PROVE LogInv /\ Contract!Init
<1>1. CallInv /\ LogsBegun
  BY StreamInvInitially DEF StreamInv
<1>2. JobsBacked
  BY DEF Init, JobsBacked
<1>3. Contract!Init
  <2>1. {c \in Calls : Delivered(c)} = {}
    BY DEF Init, Delivered
  <2> QED BY <2>1 DEF Init, Contract!Init
<1> QED BY <1>1, <1>2, <1>3 DEF LogInv

\* Whatever is lost, retried, cancelled or restarted, the workers this gateway is
\* checked with keep the contract that module Worker's workers keep.
THEOREM KeepsContract == Spec => KeepsTokenLog
<1>1. Init => LogInv /\ Contract!Init
  BY GatewayAssumption, InitLog
<1>2. LogInv /\ [Next]_vars => LogInv'
  BY GatewayAssumption, LogInvKept
<1>3. LogInv /\ LogInv' /\ [Next]_vars => [Contract!Next]_(Contract!vars)
  BY GatewayAssumption, StepKeepsContract
<1> QED BY <1>1, <1>2, <1>3, PTL DEF Spec, KeepsTokenLog, Contract!Spec

-----------------------------------------------------------------------------
(* Any workers that keep the contract                                      *)

\* A publication adds one event to one log, that of a request with a job or with
\* events, and changes nothing else.
LEMMA PublicationGrows ==
    ASSUME TypeOK, NEW r \in RequestIds, Published(r)
    PROVE  /\ UNCHANGED <<call, pc, records, events, registry, sent, read, task, snap, router,
                          cancelling, control, activeStreams, cancelledRequests, position,
                          joined, job, seq, tries, restarts, displaced>>
           /\ topic' \in [RequestIds -> Seq(Event)]
           /\ \A q \in RequestIds :
                 /\ Len(topic[q]) \in Nat /\ Len(topic'[q]) \in Nat
                 /\ Len(topic[q]) <= Len(topic'[q])
                 /\ \A i \in 1 .. Len(topic[q]) : topic'[q][i] = topic[q][i]
                 /\ q # r => topic'[q] = topic[q]
           /\ Len(topic'[r]) = Len(topic[r]) + 1
           /\ topic[r] # <<>> \/ \E c \in Calls : call[c].id = r /\ Delivered(c)
<1>1. topic \in [RequestIds -> Seq(Event)] /\ topic[r] \in Seq(Event)
  BY DEF TypeOK
<1>2. PICK e : /\ e \in Event /\ topic' = [topic EXCEPT ![r] = Append(@, e)]
               /\ topic[r] # <<>> \/ \E c \in Calls : call[c].id = r /\ Delivered(c)
  <2>1. CASE Contract!Start(r)
    <3>1. r \in {call[c].id : c \in {d \in Calls : Delivered(d)}}
          /\ topic' = [topic EXCEPT ![r] = Append(@, [type |-> "STARTED", seq |-> 0])]
      BY <2>1 DEF Contract!Start, Contract!Publish
    <3>2. [type |-> "STARTED", seq |-> 0] \in Event
      BY DEF Event, EventTypes
    <3> QED BY <3>1, <3>2
  <2>2. ASSUME NEW i \in 1 .. Len(topic[r])
        PROVE  topic[r] # <<>> /\ topic[r][i].seq \in Nat
    <3>1. topic[r][i] \in Event /\ topic[r] # <<>>
      BY <1>1, <2>2
    <3> QED BY <3>1 DEF Event
  <2>3. CASE Contract!Token(r)
    <3>1. PICK i \in 1 .. Len(topic[r]) :
              topic' = [topic EXCEPT ![r] = Append(@, [type |-> "TOKEN", seq |-> topic[r][i].seq + 1])]
      BY <2>3 DEF Contract!Token, Contract!Publish
    <3>2. topic[r] # <<>> /\ topic[r][i].seq + 1 \in Nat
      BY <2>2
    <3>3. [type |-> "TOKEN", seq |-> topic[r][i].seq + 1] \in Event
      BY <3>2 DEF Event, EventTypes
    <3> QED BY <3>1, <3>2, <3>3
  <2>4. CASE Contract!End(r)
    <3>1. PICK type \in TerminalTypes, i \in 1 .. Len(topic[r]) :
              topic' = [topic EXCEPT ![r] = Append(@, [type |-> type, seq |-> topic[r][i].seq])]
      BY <2>4 DEF Contract!End, Contract!Publish, Contract!TerminalTypes, TerminalTypes
    <3>2. topic[r] # <<>> /\ topic[r][i].seq \in Nat
      BY <2>2
    <3>3. [type |-> type, seq |-> topic[r][i].seq] \in Event
      BY <3>2 DEF Event, EventTypes
    <3> QED BY <3>1, <3>2, <3>3
  <2> QED BY <2>1, <2>3, <2>4 DEF Published
<1>3. /\ Append(topic[r], e) \in Seq(Event) /\ Len(Append(topic[r], e)) = Len(topic[r]) + 1
      /\ Len(topic[r]) \in Nat
      /\ \A i \in 1 .. Len(topic[r]) : Append(topic[r], e)[i] = topic[r][i]
  BY <1>1, <1>2
<1>4. /\ topic' \in [RequestIds -> Seq(Event)] /\ topic'[r] = Append(topic[r], e)
      /\ \A q \in RequestIds : q # r => topic'[q] = topic[q]
  BY <1>1, <1>2, <1>3
<1>5. \A q \in RequestIds :
          /\ Len(topic[q]) \in Nat /\ Len(topic'[q]) \in Nat
          /\ Len(topic[q]) <= Len(topic'[q])
          /\ \A i \in 1 .. Len(topic[q]) : topic'[q][i] = topic[q][i]
  <2>1. SUFFICES ASSUME NEW q \in RequestIds
                 PROVE  /\ Len(topic[q]) \in Nat /\ Len(topic'[q]) \in Nat
                        /\ Len(topic[q]) <= Len(topic'[q])
                        /\ \A i \in 1 .. Len(topic[q]) : topic'[q][i] = topic[q][i]
    OBVIOUS
  <2>2. topic[q] \in Seq(Event) /\ Len(topic[q]) \in Nat
    BY <1>1
  <2>3. CASE q = r
    BY <1>3, <1>4, <2>3
  <2>4. CASE q # r
    BY <1>4, <2>2, <2>4
  <2> QED BY <2>3, <2>4
<1>6. UNCHANGED gatewayVars
  BY DEF Published
<1> QED BY <1>2, <1>3, <1>4, <1>5, <1>6
        DEF gatewayVars, mapVars, chanVars, taskVars, cancelVars, metricVars, consVars

\* So an event that is in a log, and what is said of it, stays.
LEMMA PublicationKeepsEvents ==
    ASSUME TypeOK, NEW r \in RequestIds, Published(r),
           NEW q \in RequestIds, NEW i \in 1 .. Len(topic[q])
    PROVE  /\ EventAt(q, i)' = EventAt(q, i) /\ IsTerminalAt(q, i)' = IsTerminalAt(q, i)
           /\ i \in 1 .. Len(topic'[q])
  BY PublicationGrows DEF EventAt, IsTerminalAt

\* Who only holds offsets and bounds them by a log may see it grow.
LEMMA PublicationKeepsCalls ==
    ASSUME CallInv, NEW r \in RequestIds, Published(r)
    PROVE  CallInv'
<1>0. TypeOK /\ HeldOffsets /\ KindsApart /\ JobsFollow /\ SendersKnown /\ RouterPlaced
  BY DEF CallInv, TypeInv
<1>1. TypeOK'
  BY <1>0, PublicationGrows DEF TypeOK
<1>2. HeldOffsets'
  <2>1. task' = task /\ snap' = snap /\ router' = router
    BY <1>0, PublicationGrows
  <2>2. router.pc # "poll" => router.id \in RequestIds /\ router.off \in 1 .. Len(topic'[router.id])
    BY <1>0, PublicationKeepsEvents DEF HeldOffsets
  <2> QED BY <1>0, <2>1, <2>2 DEF HeldOffsets
<1>3. KindsApart' /\ JobsFollow' /\ SendersKnown'
  <2>1. UNCHANGED <<call, pc, registry, task, router, job>>
    BY <1>0, PublicationGrows
  <2> QED BY <1>0, <2>1 DEF KindsApart, JobsFollow, SendersKnown
<1>4. RouterPlaced'
  <2>1. UNCHANGED <<router, position, joined>>
        /\ \A q \in RequestIds : /\ Len(topic[q]) \in Nat /\ Len(topic'[q]) \in Nat
                                 /\ Len(topic[q]) <= Len(topic'[q])
    BY <1>0, PublicationGrows
  <2> QED BY <1>0, <2>1 DEF RouterPlaced, TypeOK
<1> QED BY <1>1, <1>2, <1>3, <1>4 DEF CallInv, TypeInv

\* The streams are in order and tell what they told.
LEMMA PublicationKeepsStreams ==
    ASSUME StreamInv, NEW r \in RequestIds, Published(r)
    PROVE  StreamInv'
<1>0. /\ TypeOK /\ HeldOffsets /\ RouterPlaced /\ LogsBegun /\ Assigned /\ StreamsInOrder
      /\ NoOrphanStream /\ StreamsTell
  BY DEF StreamInv, CallInv, TypeInv
<1>u. UNCHANGED <<call, pc, registry, sent, task, router, position, joined, job, tries, restarts>>
  BY <1>0, PublicationGrows
<1>t. /\ \A c \in Calls : call[c].id \in RequestIds /\ Len(sent[c]) \in Nat
      /\ \A q \in RequestIds : /\ Len(topic[q]) \in Nat /\ position[q] \in Nat
                               /\ position[q] <= Len(topic[q])
  <2>1. \A c \in Calls : call[c].id \in RequestIds /\ sent[c] \in Seq(Nat)
    BY <1>0 DEF TypeOK
  <2>2. \A q \in RequestIds : topic[q] \in Seq(Event)
    BY <1>0 DEF TypeOK
  <2> QED BY <1>0, <2>1, <2>2 DEF TypeOK, RouterPlaced
<1>1. CallInv'
  BY PublicationKeepsCalls DEF StreamInv
<1>2. LogsBegun'
  <2>1. \A q \in RequestIds : topic'[q] # <<>> =>
            topic[q] # <<>> \/ \E c \in Calls : call[c].id = q /\ Delivered(c)
    BY <1>0, PublicationGrows
  <2> QED BY <1>0, <1>u, <2>1 DEF LogsBegun, Delivered, HasReached
<1>3. Assigned' /\ StreamsInOrder'
  BY <1>0, <1>u DEF Assigned, MissedNothing, StreamsInOrder, NoReplay, Linked, ReceiverAlive, Routed
<1>e. \A q \in RequestIds : \A i \in 1 .. Len(topic[q]) :
          i \in 1 .. Len(topic'[q]) /\ IsTerminalAt(q, i)' = IsTerminalAt(q, i)
  BY <1>0, PublicationKeepsEvents
<1>4. NoOrphanStream'
  <2>1. \A q \in RequestIds : \A off \in 1 .. position[q] :
            IsTerminalAt(q, off)' = IsTerminalAt(q, off)
    BY <1>t, <1>e
  <2> QED BY <1>0, <1>u, <2>1 DEF NoOrphanStream, SoleJob, MissedNothing
<1>5. StreamsTell'
  <2>1. SUFFICES ASSUME NEW c \in Calls, SoleUser(c), call[c].kind # "replay", MissedNothing
                 PROVE  Tells(c)'
    BY <1>u DEF StreamsTell, SoleUser, MissedNothing
  <2>2. Tells(c)
    BY <1>0, <2>1 DEF StreamsTell
  <2> DEFINE q == call[c].id
  <2>3. /\ q \in RequestIds /\ Len(topic[q]) \in Nat /\ Len(topic'[q]) \in Nat
        /\ Len(topic[q]) <= Len(topic'[q])
        /\ \A i \in 1 .. Len(topic[q]) : topic'[q][i] = topic[q][i]
    BY <1>0, <1>t, PublicationGrows
  <2>4. \A i \in 1 .. Len(topic[q]) : IsTerminalAt(q, i)' <=> IsTerminalAt(q, i)
    BY <1>u, <2>3 DEF IsTerminalAt, EventAt
  <2>5. Told(c) => Told(c)'
    <3>1. SUFFICES ASSUME Told(c) PROVE Told(c)'
      OBVIOUS
    <3>2. \A i \in 1 .. Len(sent[c]) : i \in 1 .. Len(topic[q])
      BY <1>t, <2>3, <3>1 DEF Told
    <3> QED BY <1>u, <1>t, <2>3, <2>4, <3>1, <3>2 DEF Told
  <2>6. Telling(c) => Telling(c)'
    <3>1. Routed(q)' = Routed(q)
      BY <1>u DEF Routed
    <3>2. Routed(q) <= Len(topic[q])
      <4>1. router.pc # "poll" /\ router.id = q => router.off \in 1 .. Len(topic[q])
        BY <1>0 DEF HeldOffsets
      <4> QED BY <1>t, <4>1 DEF Routed
    <3>3. SUFFICES ASSUME Telling(c) PROVE Telling(c)'
      OBVIOUS
    <3>4. \A i \in 1 .. Len(sent[c]) : i \in 1 .. Len(topic[q])
      BY <1>t, <3>2, <3>3 DEF Telling
    <3> QED BY <1>u, <2>4, <3>1, <3>3, <3>4 DEF Telling, Unregistering
  <2> HIDE DEF q
  <2> QED BY <1>u, <2>2, <2>5, <2>6 DEF Tells, Unregistering, q
<1> QED BY <1>1, <1>2, <1>3, <1>4, <1>5 DEF StreamInv

\* What the records claim is still backed.
LEMMA PublicationKeepsBacked ==
    ASSUME BackedInv, CallInv, NEW r \in RequestIds, Published(r)
    PROVE  BackedInv'
<1>0. TypeOK /\ Cached /\ Applying /\ StatusBackedByLog
  BY DEF BackedInv, TypeInv
<1>u. UNCHANGED <<records, events, router>>
  BY <1>0, PublicationGrows
<1>e. \A q \in RequestIds : \A i \in 1 .. Len(topic[q]) :
          i \in 1 .. Len(topic'[q]) /\ EventAt(q, i)' = EventAt(q, i)
  BY <1>0, PublicationKeepsEvents
<1>1. Cached' /\ Applying'
  BY <1>0, <1>u, <1>e DEF Cached, Applying
<1>2. StatusBackedByLog'
  <2>1. \A q \in RequestIds : \A i \in 1 .. Len(events[q]) : LoggedAt(q, i)' = LoggedAt(q, i)
    BY <1>0, <1>u, <1>e DEF Cached, LoggedAt, EventAt
  <2> QED BY <1>0, <1>u, <2>1 DEF StatusBackedByLog
<1> QED BY <1>1, <1>2, PublicationKeepsCalls DEF BackedInv, CallInv


\* The records are left alone.
LEMMA PublicationKeepsRecords ==
    ASSUME TypeOK, NEW r \in RequestIds, Published(r)
    PROVE  \A q \in RequestIds : records'[q].emitted_tokens >= records[q].emitted_tokens
<1>1. records' = records
  BY PublicationGrows
<1>2. \A q \in RequestIds : records[q].emitted_tokens \in Nat
  <2>1. \A q \in RequestIds : records[q] \in Slot
    BY DEF TypeOK
  <2> QED BY <2>1 DEF Slot, RequestRecord, NoRecord
<1> QED BY <1>1, <1>2

\* A replay follows the stream it agrees with.
LEMMA PublicationKeepsReplays ==
    ASSUME AgreeInv, NEW r \in RequestIds, Published(r)
    PROVE  AgreeInv'
<1>0. /\ TypeOK /\ CallInv /\ LogsBegun /\ Assigned /\ HeldOffsets /\ RouterPlaced
      /\ MissedNothing => CacheExact /\ EndsUnregister /\ Followed
  BY DEF AgreeInv, CallInv, TypeInv
<1>u. UNCHANGED <<call, pc, records, events, registry, sent, task, snap, router, position,
                  joined, job, tries, restarts, displaced>>
  BY <1>0, PublicationGrows
<1>1. CallInv'
  BY <1>0, PublicationKeepsCalls
<1>2. LogsBegun'
  <2>1. \A q \in RequestIds : topic'[q] # <<>> =>
            topic[q] # <<>> \/ \E c \in Calls : call[c].id = q /\ Delivered(c)
    BY <1>0, PublicationGrows
  <2> QED BY <1>0, <1>u, <2>1 DEF LogsBegun, Delivered, HasReached
<1>3. Assigned' /\ MissedNothing' = MissedNothing
  BY <1>0, <1>u DEF Assigned, MissedNothing
<1>c. CacheExact => CacheExact'
  BY <1>u DEF CacheExact
<1>4. EndsUnregister => EndsUnregister'
  <2>1. router.pc = "unregister" =>
            IsTerminalAt(router.id, router.off)' = IsTerminalAt(router.id, router.off)
    <3>1. ASSUME router.pc = "unregister"
          PROVE  router.id \in RequestIds /\ router.off \in 1 .. Len(topic[router.id])
      BY <1>0, <3>1 DEF HeldOffsets
    <3>2. ASSUME router.pc = "unregister"
          PROVE  topic'[router.id][router.off] = topic[router.id][router.off]
      BY <1>0, <3>1, <3>2, PublicationGrows
    <3> QED BY <1>u, <3>2 DEF IsTerminalAt, EventAt
  <2> QED BY <1>0, <1>u, <2>1 DEF EndsUnregister
<1>5. Followed => Followed'
  <2>1. SUFFICES ASSUME NEW c \in Calls, NEW d \in Calls, Follows(c, d)
                 PROVE  Follows(c, d)'
    BY <1>u DEF Followed, Replays
  <2> DEFINE q == call[d].id
  <2>2. /\ q \in RequestIds /\ Len(topic[q]) \in Nat /\ Len(topic'[q]) \in Nat
        /\ Len(topic[q]) <= Len(topic'[q]) /\ position[q] \in Nat
        /\ position[q] <= Len(topic[q])
        /\ \A i \in 1 .. Len(topic[q]) : topic'[q][i] = topic[q][i]
    <3>1. q \in RequestIds
      BY <1>0 DEF TypeOK
    <3> QED BY <1>0, <3>1, PublicationGrows DEF RouterPlaced, TypeOK
  <2>3. Serving(c, d) => Serving(c, d)'
    BY <1>u DEF Serving, Routed
  <2>4. Served(c, d) => Served(c, d)'
    <3>1. SUFFICES ASSUME Served(c, d) PROVE Served(c, d)'
      OBVIOUS
    <3> DEFINE n == Len(sent[d])
    <3>2. n \in 1 .. position[q] /\ IsTerminalAt(q, n) /\ n \in Nat
      BY <2>2, <3>1 DEF Served
    <3>3. topic'[q][n] = topic[q][n]
      BY <2>2, <3>2
    <3>4. IsTerminalAt(call[d].id, Len(sent[d]))'
      BY <1>u, <3>2, <3>3 DEF IsTerminalAt, EventAt
    <3>5. Len(topic'[q]) = n => Len(topic[q]) = n
      BY <2>2, <3>2
    <3>6. Copied(c, n)' <=> Copied(c, n)
      BY <1>u DEF Copied
    <3>7. /\ registry[q] # d /\ router.chan # d /\ task[c].chan # d
          /\ Len(topic[q]) = n => router.id # q /\ Copied(c, n)
      BY <3>1 DEF Served
    <3> QED BY <1>u, <3>2, <3>4, <3>5, <3>6, <3>7 DEF Served
  <2> QED BY <1>u, <2>1, <2>3, <2>4 DEF Follows
<1> QED BY <1>0, <1>1, <1>2, <1>3, <1>c, <1>4, <1>5 DEF AgreeInv

\* The logs and jobs go on as the contract has it.
LEMMA PublicationKeepsLog ==
    ASSUME LogInv, NEW r \in RequestIds, Published(r)
    PROVE  JobsBacked' /\ Contract!Next
<1>0. TypeOK /\ JobsBacked
  BY DEF LogInv, CallInv, TypeInv
<1>u. UNCHANGED <<call, job, seq>>
  BY <1>0, PublicationGrows
<1>1. JobsBacked'
  <2>1. \A c \in Calls : call[c].id \in RequestIds
    BY <1>0 DEF TypeOK
  <2>2. \A q \in RequestIds : \A i \in 1 .. Len(topic[q]) :
            i \in 1 .. Len(topic'[q]) /\ topic'[q][i] = topic[q][i]
    BY <1>0, PublicationGrows
  <2>3. ASSUME NEW c \in Calls
        PROVE  /\ job[c] = "running" => Reached(topic'[call[c].id], seq[c])
               /\ job[c] \in {"emitted", "done"} => HasEnd(topic'[call[c].id])
    <3> DEFINE old == topic[call[c].id]
               new == topic'[call[c].id]
    <3>1. \A i \in 1 .. Len(old) : i \in 1 .. Len(new) /\ new[i] = old[i]
      BY <2>1, <2>2
    <3> HIDE DEF old, new
    <3>2. Reached(old, seq[c]) => Reached(new, seq[c])
      BY <3>1 DEF Reached
    <3>3. HasEnd(old) => HasEnd(new)
      BY <3>1 DEF HasEnd
    <3>4. /\ job[c] = "running" => Reached(old, seq[c])
          /\ job[c] \in {"emitted", "done"} => HasEnd(old)
      BY <1>0 DEF JobsBacked, old
    <3> QED BY <3>2, <3>3, <3>4 DEF new
  <2>5. \A c \in Calls : /\ job'[c] = "running" => Reached(topic'[call'[c].id], seq'[c])
                         /\ job'[c] \in {"emitted", "done"} => HasEnd(topic'[call'[c].id])
    BY <1>u, <2>3
  <2> QED BY <2>5 DEF JobsBacked
<1>2. Contract!Next
  BY DEF Published, Contract!Next
<1> QED BY <1>1, <1>2

Log == INSTANCE TokenLogProofs WITH
    log <- topic, asked <- control,
    given <- {call[c].id : c \in {d \in Calls : Delivered(d)}},
    settled <- {call[c].id : c \in {d \in Calls : job[d] = "done"}}

LEMMA SameLog ==
    /\ Contract!Init => Log!Init
    /\ [Contract!Next]_(Contract!vars) => [Log!Next]_(Log!vars)
BY DEF Contract!Init, Contract!Next, Contract!vars, Contract!Start, Contract!Token, Contract!End,
       Contract!Ask, Contract!Give, Contract!Settle, Contract!Ended, Contract!Publish,
       Contract!Progress, Contract!TerminalTypes, Log!Init, Log!Next, Log!vars, Log!Start,
       Log!Token, Log!End, Log!Ask, Log!Give, Log!Settle, Log!Ended, Log!Publish, Log!Progress,
       Log!TerminalTypes

\* All that is kept by the gateway's steps and by a publication alike.
OpenInv == StreamInv /\ BackedInv /\ AgreeInv /\ JobsBacked /\ Log!ContractInv

LEMMA OpenInvInitially == ASSUME GatewayAssumption, Init PROVE OpenInv
<1>1. StreamInv /\ LogInv /\ Contract!Init
  BY StreamInvInitially, InitLog
<1>2. BackedInv
  <2>1. Cached /\ Applying /\ StatusBackedByLog
    BY DEF Init, Cached, Applying, StatusBackedByLog, IdleRouter, NoRecord
  <2> QED BY <2>1, TypeInvInitially DEF BackedInv
<1>3. AgreeInv
  BY AgreeInvInitially
<1>4. Log!ContractInv
  BY <1>1, SameLog, Log!InitContract
<1> QED BY <1>1, <1>2, <1>3, <1>4 DEF OpenInv, LogInv

LEMMA OpenInvKept == ASSUME GatewayAssumption, OpenInv, [OpenNext]_vars PROVE OpenInv'
<1>0. /\ StreamInv /\ BackedInv /\ TypeInv /\ TypeOK /\ AgreeInv /\ LogInv
      /\ CallInv /\ Log!ContractInv
  BY DEF OpenInv, StreamInv, BackedInv, LogInv, CallInv, TypeInv
<1>1. CASE [Next]_vars
  <2>1. StreamInv' /\ AgreeInv' /\ LogInv'
    BY <1>0, <1>1, StreamInvKept, AgreeInvKept, LogInvKept
  <2>2. BackedInv'
    BY <1>0, <1>1, TypeInvKept, CachedKept, ApplyingKept, BackedKept DEF BackedInv
  <2>3. [Log!Next]_(Log!vars)
    BY <1>0, <1>1, <2>1, StepKeepsContract, SameLog
  <2>4. Log!ContractInv'
    BY <1>0, <2>3, Log!ContractKept
  <2> QED BY <2>1, <2>2, <2>4 DEF OpenInv, LogInv
<1>2. ASSUME NEW r \in RequestIds, Published(r) PROVE OpenInv'
  <2>1. StreamInv' /\ BackedInv' /\ AgreeInv' /\ JobsBacked' /\ Contract!Next
    BY <1>0, <1>2, PublicationKeepsStreams, PublicationKeepsBacked, PublicationKeepsReplays,
       PublicationKeepsLog
  <2>2. [Log!Next]_(Log!vars)
    BY <2>1, SameLog
  <2>3. Log!ContractInv'
    BY <1>0, <2>2, Log!ContractKept
  <2> QED BY <2>1, <2>3 DEF OpenInv
<1> QED BY <1>1, <1>2 DEF OpenNext

\* The tokens of a stream are without a gap because those of the log are, and the
\* stream is a copy of its beginning.
LEMMA ToldTokens == OpenInv => NoTokenMissing
<1> SUFFICES ASSUME OpenInv, NEW c \in Calls, pc[c] \in {"streaming", "ended"}, SoleUser(c),
                    call[c].kind # "replay", MissedNothing,
                    NEW i \in 1 .. Len(sent[c]),
                    NEW m \in 1 .. EventAt(call[c].id, sent[c][i]).seq
             PROVE  \E k \in 1 .. i :
                        EventAt(call[c].id, sent[c][k]) = [type |-> "TOKEN", seq |-> m]
  BY DEF NoTokenMissing
<1> DEFINE q == call[c].id
<1>0. /\ TypeOK /\ HeldOffsets /\ RouterPlaced /\ StreamsTell /\ Log!NoGap
  BY DEF OpenInv, StreamInv, CallInv, TypeInv, Log!ContractInv
<1>1. q \in RequestIds /\ Len(sent[c]) \in Nat /\ Len(topic[q]) \in Nat /\ position[q] \in Nat
  <2>1. sent[c] \in Seq(Nat) /\ q \in RequestIds
    BY <1>0 DEF TypeOK
  <2>2. topic[q] \in Seq(Event)
    BY <1>0, <2>1 DEF TypeOK
  <2> QED BY <1>0, <2>1, <2>2 DEF TypeOK
<1>2. Len(sent[c]) <= Len(topic[q]) /\ \A j \in 1 .. Len(sent[c]) : sent[c][j] = j
  <2>1. Told(c) \/ Telling(c)
    BY <1>0 DEF StreamsTell, Tells
  <2>2. Routed(q) <= Len(topic[q])
    <3>1. router.pc # "poll" /\ router.id = q => router.off \in 1 .. Len(topic[q])
      BY <1>0 DEF HeldOffsets
    <3> QED BY <1>0, <1>1, <3>1 DEF Routed, RouterPlaced
  <2> QED BY <2>1, <2>2 DEF Told, Telling
<1>3. i \in 1 .. Len(topic[q]) /\ m \in 1 .. topic[q][i].seq
  BY <1>1, <1>2 DEF EventAt
<1>4. PICK k \in 1 .. i : topic[q][k] = [type |-> "TOKEN", seq |-> m]
  BY <1>0, <1>1, <1>3 DEF Log!NoGap, Log!HasToken
<1>5. k \in 1 .. Len(sent[c]) /\ sent[c][k] = k
  BY <1>1, <1>2
<1> QED BY <1>4, <1>5 DEF EventAt

\* What the gateway promises of its streams and records.
Promises ==
    /\ TypeOK /\ StatusBackedByLog /\ StreamContiguous /\ NoOrphanStream
    /\ EndedToldWhy /\ NoTokenMissing /\ ReplayAgrees

LEMMA PromisesFollow == OpenInv => Promises
<1>1. OpenInv => TypeOK /\ StatusBackedByLog /\ NoOrphanStream
  BY DEF OpenInv, StreamInv, CallInv, TypeInv, BackedInv
<1>2. OpenInv => StreamContiguous
  BY DEF OpenInv, StreamInv, StreamsInOrder, StreamContiguous
<1>3. OpenInv => EndedToldWhy
  BY DEF OpenInv, StreamInv, StreamsTell, Tells, Told, EndedToldWhy
<1>4. OpenInv => ReplayAgrees
  BY AgreeingReplays DEF OpenInv
<1> QED BY <1>1, <1>2, <1>3, <1>4, ToldTokens DEF Promises

\* With the gateway's own workers, whatever a client got of its stream has no token
\* missing: the workers' contract and the relaying of the log together.
THEOREM NoTokenIsMissing == Spec => []NoTokenMissing
<1>1. Init => OpenInv
  BY GatewayAssumption, OpenInvInitially
<1>2. OpenInv /\ [Next]_vars => OpenInv'
  BY GatewayAssumption, OpenInvKept DEF OpenNext
<1>3. OpenInv => NoTokenMissing
  BY ToldTokens
<1> QED BY <1>1, <1>2, <1>3, PTL DEF Spec

\* The gateway keeps its promises with any workers that keep the contract, as many
\* and as long as they like: no bound on attempts and tokens is needed.
THEOREM AnyWorkersDo == OpenSpec => []Promises /\ EmittedMonotone
<1>1. Init => OpenInv
  BY GatewayAssumption, OpenInvInitially
<1>2. OpenInv /\ [OpenNext]_vars => OpenInv'
  BY GatewayAssumption, OpenInvKept
<1>3. OpenInv => Promises
  BY PromisesFollow
<1>4. OpenInv /\ [OpenNext]_vars =>
        [\A r \in RequestIds :
            \/ records'[r].emitted_tokens >= records[r].emitted_tokens
            \/ records'[r] = queued
            \/ restarts' # restarts]_vars
  <2>1. OpenInv => TypeInv /\ TypeOK
    BY DEF OpenInv, BackedInv, TypeInv
  <2>2. ASSUME OpenInv, [Next]_vars, NEW r \in RequestIds
        PROVE  \/ records'[r].emitted_tokens >= records[r].emitted_tokens
               \/ records'[r] = queued
               \/ restarts' # restarts
    BY <2>1, <2>2, GatewayAssumption, StepMonotone
  <2>3. ASSUME OpenInv, NEW q \in RequestIds, Published(q), NEW r \in RequestIds
        PROVE  records'[r].emitted_tokens >= records[r].emitted_tokens
    BY <2>1, <2>3, PublicationKeepsRecords
  <2> QED BY <2>2, <2>3 DEF OpenNext
<1> QED BY <1>1, <1>2, <1>3, <1>4, PTL DEF OpenSpec, EmittedMonotone

-----------------------------------------------------------------------------
(* The workers of module Worker                                            *)

\* What the workers were given the gateway's producer delivered.
Fed == W!Produced \subseteq {call[c].id : c \in {d \in Calls : Delivered(d)}}

ClusterInv == OpenInv /\ W!IInv /\ W!OfJobs /\ Fed

LEMMA ClusterInvInitially ==
    ASSUME GatewayAssumption, W!WorkerAssumption, Init, W!Init PROVE ClusterInv
<1>1. OpenInv /\ W!IInv /\ W!OfJobs
  BY OpenInvInitially, W!InitKeeps, W!InitLog
<1>2. Fed
  BY DEF W!Init, W!Produced, Fed
<1> QED BY <1>1, <1>2 DEF ClusterInv

\* The control plane writes to neither topic the workers use, it publishes and it
\* delivers.
LEMMA ControlPlaneSteps ==
    ASSUME ControlPlane PROVE Next /\ topic' = topic /\ control' = control
<1> USE DEF mapVars, chanVars, taskVars, metricVars, consVars, workerVars, cancelVars
<1>1. ASSUME NEW c \in Calls, \/ SubmitCheck(c) \/ InferInsert(c) \/ DropHandler(c) \/ Lose(c)
                              \/ ClientRead(c) \/ StreamEnd(c) \/ Disconnect(c)
      PROVE  Next /\ topic' = topic /\ control' = control
  <2>1. topic' = topic /\ control' = control
    BY <1>1 DEF SubmitCheck, InferInsert, InsertRecord, DropHandler, ClientRead, StreamEnd,
                Disconnect, Lose
  <2> QED BY <1>1, <2>1 DEF Next
<1>2. ASSUME NEW c \in Calls, Handler(c)
      PROVE  Next /\ topic' = topic /\ control' = control
  <2>1. topic' = topic /\ control' = control
    BY <1>2 DEF Handler, SubmitInsert, InsertRecord, RegisterCheck, FinishConflict,
                RegisterInsert, ProduceAck, ProduceError, EnqueueUnregister, EnqueueFinish,
                ReplayLookup, Snapshot
  <2> QED BY <1>2, <2>1 DEF Next
<1>3. ASSUME NEW c \in Calls, Task(c)
      PROVE  Next /\ topic' = topic /\ control' = control
  <2>1. topic' = topic /\ control' = control
    BY <1>3 DEF Task, TaskLookup, TaskSend, TaskFinish
  <2> QED BY <1>3, <2>1 DEF Next
<1>4. ASSUME NEW r \in RequestIds, Cancel(r) \/ InferCancel(r) \/ LosePublish(r)
      PROVE  Next /\ topic' = topic /\ control' = control
  <2>1. topic' = topic /\ control' = control
    BY <1>4 DEF Cancel, InferCancel, AcceptCancel, LosePublish
  <2> QED BY <1>4, <2>1 DEF Next
<1>5. ASSUME Router \/ Assign \/ GatewayRestart
      PROVE  Next /\ topic' = topic /\ control' = control
  <2>1. topic' = topic /\ control' = control
    BY <1>5 DEF Router, RouterPoll, RouterUpdate, RouterLookup, RouterSend, RouterUnregister,
                Assign, GatewayRestart
  <2> QED BY <1>5, <2>1 DEF Next
<1> QED BY <1>1, <1>2, <1>3, <1>4, <1>5 DEF ControlPlane

\* A step of the cluster is one of the workers' module, or none of theirs.
LEMMA FleetSteps ==
    ASSUME TypeOK, [ClusterNext]_<<vars, fleetVars>>
    PROVE  [W!Next]_(W!vars)
<1> USE DEF W!vars, W!jobVars, W!groupVars, W!loopVars, fleetVars
<1>1. CASE ControlPlane /\ UNCHANGED fleetVars
  BY <1>1, ControlPlaneSteps
<1>2. ASSUME NEW c \in Calls, NEW p \in Partitions, DeliverJob(c, p) PROVE W!Next
  <2>1. call[c].id \in RequestIds
    BY DEF TypeOK
  <2> QED BY <1>2, <2>1 DEF DeliverJob, W!Next
<1>3. ASSUME NEW r \in RequestIds, DeliverCancel(r) PROVE W!Next
  BY <1>3 DEF DeliverCancel, W!Next
<1>4. CASE Fleet
  BY <1>4 DEF Fleet
<1>5. CASE UNCHANGED <<vars, fleetVars>>
  BY <1>5 DEF vars, workerVars, cancelVars
<1> QED BY <1>1, <1>2, <1>3, <1>4, <1>5 DEF ClusterNext

\* What the workers do is to the gateway a publication, or nothing.
LEMMA FleetPublishes ==
    ASSUME W!WorkerAssumption, ClusterInv, W!SettledEnded', Fleet
    PROVE  [\E r \in RequestIds : Published(r)]_vars
<1>0. TypeOK /\ W!IInv /\ W!OfJobs /\ Fed
  BY DEF ClusterInv, OpenInv, BackedInv, TypeInv
<1>u. UNCHANGED gatewayVars /\ W!Next
  BY DEF Fleet
<1>1. [W!Contract!Next]_(W!Contract!vars)
  BY <1>0, <1>u, W!StepKeepsLog
<1>2. CASE topic' = topic
  BY <1>u, <1>2 DEF vars, gatewayVars, workerVars
<1>g. UNCHANGED <<control, {call[c].id : c \in {d \in Calls : Delivered(d)}},
                  {call[c].id : c \in {d \in Calls : job[d] = "done"}}>>
  BY <1>u DEF gatewayVars, cancelVars, Delivered
<1>3. ASSUME NEW r \in RequestIds, W!Contract!Start(r) PROVE Published(r)
  <2>1. r \in {call[c].id : c \in {d \in Calls : Delivered(d)}}
    BY <1>0, <1>3 DEF W!Contract!Start, Fed
  <2> QED BY <1>g, <1>u, <1>3, <2>1
          DEF W!Contract!Start, W!Contract!Publish, Contract!Start, Contract!Publish, Published
<1>4. ASSUME NEW r \in RequestIds, W!Contract!Token(r) PROVE Published(r)
  BY <1>g, <1>u, <1>4 DEF W!Contract!Token, W!Contract!Publish, W!Contract!Progress,
                          Contract!Token, Contract!Publish, Contract!Progress, Published
<1>5. ASSUME NEW r \in RequestIds, W!Contract!End(r) PROVE Published(r)
  BY <1>g, <1>u, <1>5 DEF W!Contract!End, W!Contract!Publish, W!Contract!Progress,
                          W!Contract!TerminalTypes, Contract!End, Contract!Publish,
                          Contract!Progress, Contract!TerminalTypes, Published
<1>6. ASSUME \/ W!Contract!Give \/ W!Contract!Settle \/ UNCHANGED W!Contract!vars
             \/ \E r \in RequestIds : W!Contract!Ask(r)
      PROVE  topic' = topic
  BY <1>6 DEF W!Contract!Give, W!Contract!Settle, W!Contract!Ask, W!Contract!vars
<1> QED BY <1>1, <1>2, <1>3, <1>4, <1>5, <1>6 DEF W!Contract!Next

LEMMA ClusterSteps ==
    ASSUME W!WorkerAssumption, ClusterInv, W!SettledEnded', [ClusterNext]_<<vars, fleetVars>>
    PROVE  [OpenNext]_vars
<1>1. CASE ControlPlane /\ UNCHANGED fleetVars
  BY <1>1, ControlPlaneSteps DEF OpenNext
<1>2. ASSUME NEW c \in Calls, NEW p \in Partitions, DeliverJob(c, p) PROVE OpenNext
  BY <1>2 DEF DeliverJob, OpenNext, Next
<1>3. ASSUME NEW r \in RequestIds, DeliverCancel(r) PROVE OpenNext
  BY <1>3 DEF DeliverCancel, OpenNext, Next
<1>4. CASE Fleet
  BY <1>4, FleetPublishes DEF OpenNext
<1>5. CASE UNCHANGED <<vars, fleetVars>>
  BY <1>5
<1> QED BY <1>1, <1>2, <1>3, <1>4, <1>5 DEF ClusterNext

\* Nobody but the gateway's producer feeds the workers, and what it delivered it
\* goes on having delivered.
LEMMA FedKept ==
    ASSUME GatewayAssumption, ClusterInv, [OpenNext]_vars, [ClusterNext]_<<vars, fleetVars>>
    PROVE  Fed'
<1> DEFINE given == {call[c].id : c \in {d \in Calls : Delivered(d)}}
<1>0. TypeOK /\ CallInv /\ Fed /\ W!TypeOK
  BY DEF ClusterInv, OpenInv, StreamInv, CallInv, TypeInv, W!IInv
<1>1. call' = call /\ \A c \in Calls : Delivered(c) => Delivered(c)'
  <2>1. CASE [Next]_vars
    BY <1>0, <2>1, JobsStay, WorkerSteps DEF Delivered, HasReached
  <2>2. ASSUME NEW r \in RequestIds, Published(r)
        PROVE  call' = call /\ job' = job
    BY <1>0, <2>2, PublicationGrows
  <2> QED BY <2>1, <2>2 DEF OpenNext, Delivered
<1>2. given \subseteq given'
  BY <1>1
<1>3. ASSUME jobs' = jobs PROVE Fed'
  <2>1. W!Produced' = W!Produced
    BY <1>3 DEF W!Produced
  <2> QED BY <1>0, <1>2, <2>1 DEF Fed
<1>4. ASSUME NEW c \in Calls, NEW p \in Partitions, DeliverJob(c, p) PROVE Fed'
  <2>1. /\ jobs' = [jobs EXCEPT ![p] = Append(@, call[c].id)]
        /\ jobs \in [Partitions -> Seq(RequestIds)] /\ call[c].id \in RequestIds
    BY <1>0, <1>4 DEF DeliverJob, W!Produce, W!TypeOK, TypeOK
  <2>2. ASSUME NEW q \in Partitions, NEW i \in 1 .. Len(jobs'[q])
        PROVE  jobs'[q][i] \in W!Produced \cup {call[c].id}
    <3>1. CASE q # p
      BY <2>1, <2>2, <3>1 DEF W!Produced
    <3>2. CASE q = p /\ i = Len(jobs[p]) + 1
      BY <2>1, <3>2
    <3>3. CASE q = p /\ i # Len(jobs[p]) + 1
      <4>1. i \in 1 .. Len(jobs[p]) /\ jobs'[p][i] = jobs[p][i]
        BY <2>1, <2>2, <3>3
      <4> QED BY <3>3, <4>1 DEF W!Produced
    <3> QED BY <3>1, <3>2, <3>3
  <2>3. call[c].id \in given'
    <3>1. job' = [job EXCEPT ![c] = "queued"] /\ job \in [Calls -> JobStates]
      BY <1>0, <1>4 DEF DeliverJob, Deliver, TypeOK
    <3>2. Delivered(c)'
      BY <3>1 DEF Delivered
    <3> QED BY <1>1, <3>2
  <2>4. W!Produced' \subseteq W!Produced \cup {call[c].id}
    BY <2>2 DEF W!Produced
  <2> QED BY <1>0, <1>2, <2>3, <2>4 DEF Fed
<1>5. ASSUME NEW r \in RequestIds, DeliverCancel(r) PROVE jobs' = jobs
  BY <1>5 DEF DeliverCancel, W!Ask, W!jobVars
<1>6. ASSUME \/ ControlPlane /\ UNCHANGED fleetVars
             \/ Fleet \/ UNCHANGED <<vars, fleetVars>>
      PROVE  jobs' = jobs
  BY <1>6 DEF Fleet, fleetVars
<1> HIDE DEF given
<1> QED BY <1>3, <1>4, <1>5, <1>6 DEF ClusterNext

\* The gateway with the workers of module Worker is a gateway with workers that keep
\* the contract, and the workers run as module Worker has them: what either side
\* assumes of the other is what that one keeps.
THEOREM ClusterIsOpen ==
    ASSUME W!WorkerAssumption
    PROVE  ClusterSpec => OpenSpec /\ W!Spec /\ []ClusterInv
<1>1. Init /\ W!Init => ClusterInv
  BY GatewayAssumption, ClusterInvInitially
<1>2. W!IInv => W!SettledEnded
  BY W!SettledSafe
<1>3. ClusterInv /\ [ClusterNext]_<<vars, fleetVars>> => W!IInv' /\ W!OfJobs'
  <2>1. ClusterInv => W!IInv /\ W!OfJobs /\ TypeOK
    BY DEF ClusterInv, OpenInv, BackedInv, TypeInv
  <2>2. ASSUME ClusterInv, [ClusterNext]_<<vars, fleetVars>> PROVE W!IInv' /\ W!OfJobs'
    <3>1. [W!Next]_(W!vars)
      BY <2>1, <2>2, FleetSteps
    <3> QED BY <2>1, <2>2, <3>1, W!StepKeeps, W!OfJobsKept
  <2> QED BY <2>2
<1>4. ClusterInv /\ W!SettledEnded' /\ [ClusterNext]_<<vars, fleetVars>> => [OpenNext]_vars
  BY ClusterSteps
<1>5. ClusterInv /\ [OpenNext]_vars /\ [ClusterNext]_<<vars, fleetVars>> => OpenInv' /\ Fed'
  BY GatewayAssumption, OpenInvKept, FedKept DEF ClusterInv
<1>6. ClusterInv <=> OpenInv /\ W!IInv /\ W!OfJobs /\ Fed
  BY DEF ClusterInv
<1>7. ClusterInv /\ [ClusterNext]_<<vars, fleetVars>> => [W!Next]_(W!vars)
  BY FleetSteps DEF ClusterInv, OpenInv, BackedInv, TypeInv
<1> QED BY <1>1, <1>2, <1>3, <1>4, <1>5, <1>6, <1>7, PTL DEF ClusterSpec, OpenSpec, W!Spec

\* So the system made of both keeps the gateway's promises to its clients and the
\* workers' rule for their commits.
THEOREM ClusterKeepsPromises ==
    ASSUME W!WorkerAssumption
    PROVE  ClusterSpec => [](Promises /\ W!CommittedHasEnded) /\ EmittedMonotone
<1>1. ClusterInv => W!CommittedHasEnded
  <2>1. ClusterInv => W!IInv
    BY DEF ClusterInv
  <2> QED BY <2>1, W!SettledSafe DEF W!SettledEnded
<1>2. ClusterSpec => OpenSpec /\ []ClusterInv
  BY ClusterIsOpen
<1> QED BY <1>1, <1>2, AnyWorkersDo, PTL

=============================================================================
