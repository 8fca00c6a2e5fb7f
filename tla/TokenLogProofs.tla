---------------------------- MODULE TokenLogProofs ----------------------------
(***************************************************************************)
(* What TokenLog's contract is worth to a reader of the token topic, for    *)
(* every set of ids and however long the logs get.                         *)
(***************************************************************************)
EXTENDS TokenLog, TLAPS

\* Appending keeps what is there and puts one event behind it.
LEMMA Appended ==
    ASSUME NEW s \in Seq(Event), NEW e \in Event
    PROVE  /\ Append(s, e) \in Seq(Event) /\ Len(Append(s, e)) = Len(s) + 1
           /\ \A i \in 1 .. Len(s) : Append(s, e)[i] = s[i]
           /\ Append(s, e)[Len(s) + 1] = e
OBVIOUS

\* Everything the contract promises, which is inductive as it stands.
ContractInv == TypeOK /\ NothingUngiven /\ NoGap /\ CancelledWasAsked /\ SettledHasEnded

LEMMA InitContract == Init => ContractInv
<1> SUFFICES ASSUME Init PROVE ContractInv
  OBVIOUS
<1>1. \A r \in RequestIds : log[r] = <<>> /\ Len(log[r]) = 0
  BY DEF Init
<1> QED BY <1>1 DEF Init, ContractInv, TypeOK, NothingUngiven, NoGap, CancelledWasAsked, SettledHasEnded

\* The events in a log are events.
LEMMA LoggedTyped ==
    ASSUME ContractInv, NEW r \in RequestIds, NEW i \in 1 .. Len(log[r])
    PROVE  /\ log[r] \in Seq(Event) /\ log[r][i] \in Event /\ log[r][i].seq \in Nat
<1>1. log[r] \in Seq(Event)
  BY DEF ContractInv, TypeOK
<1>2. log[r][i] \in Event
  BY <1>1
<1> QED BY <1>1, <1>2 DEF Event

\* Publishing an event e of r that has every token up to its number at or before
\* it, and is a cancellation only if asked, keeps the contract.
LEMMA PublishKeeps ==
    ASSUME ContractInv, NEW r \in given, NEW e \in Event,
           log' = [log EXCEPT ![r] = Append(@, e)], UNCHANGED <<given, asked, settled>>,
           \A m \in 1 .. e.seq :
              HasToken(r, m, Len(log[r])) \/ e = [type |-> "TOKEN", seq |-> m],
           e.type = "CANCELLED" => r \in asked
    PROVE  ContractInv'
<1> DEFINE s == log[r]
<1>0. r \in RequestIds
  BY DEF ContractInv, TypeOK
<1>1. s \in Seq(Event) /\ Len(s) \in Nat
  BY <1>0 DEF ContractInv, TypeOK
<1>2. /\ \A i \in 1 .. Len(s) : log'[r][i] = s[i]
      /\ log'[r][Len(s) + 1] = e /\ Len(log'[r]) = Len(s) + 1
  BY <1>0, <1>1, Appended DEF ContractInv, TypeOK
<1>3. \A q \in RequestIds \ {r} : log'[q] = log[q]
  BY <1>0 DEF ContractInv, TypeOK
<1>4. TypeOK'
  BY <1>0, <1>1, Appended DEF ContractInv, TypeOK
<1>5. ASSUME NEW q \in RequestIds, NEW i \in 1 .. Len(log'[q]), NEW m \in 1 .. log'[q][i].seq
      PROVE  HasToken(q, m, i)'
  <2>1. CASE q # r
    BY <1>3, <1>5, <2>1 DEF ContractInv, NoGap, HasToken
  <2>2. CASE q = r /\ i \in 1 .. Len(s)
    <3>1. HasToken(r, m, i)
      BY <1>2, <1>5, <2>2 DEF ContractInv, NoGap
    <3> QED BY <1>1, <1>2, <2>2, <3>1 DEF HasToken
  <2>3. CASE q = r /\ i = Len(s) + 1
    <3>1. CASE HasToken(r, m, Len(s))
      <4>1. PICK k \in 1 .. Len(s) : s[k] = [type |-> "TOKEN", seq |-> m]
        BY <3>1 DEF HasToken
      <4> QED BY <1>1, <1>2, <2>3, <4>1 DEF HasToken
    <3>2. CASE e = [type |-> "TOKEN", seq |-> m]
      BY <1>1, <1>2, <2>3, <3>2 DEF HasToken
    <3> QED BY <1>2, <1>5, <2>3, <3>1, <3>2
  <2> QED BY <1>1, <1>2, <1>5, <2>1, <2>2, <2>3
<1>6. NoGap'
  BY <1>5 DEF NoGap
<1>7. CancelledWasAsked'
  <2> SUFFICES ASSUME NEW q \in RequestIds, NEW i \in 1 .. Len(log'[q]),
                      log'[q][i].type = "CANCELLED"
               PROVE  q \in asked'
    BY DEF CancelledWasAsked
  <2>1. CASE q # r
    BY <1>3, <2>1 DEF ContractInv, CancelledWasAsked
  <2>2. CASE q = r /\ i \in 1 .. Len(s)
    BY <1>2, <2>2 DEF ContractInv, CancelledWasAsked
  <2>3. CASE q = r /\ i = Len(s) + 1
    BY <1>2, <2>3
  <2> QED BY <1>1, <1>2, <2>1, <2>2, <2>3
<1>8. SettledHasEnded'
  <2> SUFFICES ASSUME NEW q \in settled' PROVE Ended(q)'
    BY DEF SettledHasEnded
  <2>1. q \in RequestIds /\ Ended(q)
    BY DEF ContractInv, TypeOK, SettledHasEnded
  <2>2. PICK i \in 1 .. Len(log[q]) : log[q][i].type \in TerminalTypes
    BY <2>1 DEF Ended
  <2>3. i \in 1 .. Len(log'[q]) /\ log'[q][i] = log[q][i]
    BY <1>1, <1>2, <1>3, <2>1, <2>2
  <2> QED BY <2>2, <2>3 DEF Ended
<1>9. NothingUngiven'
  BY <1>3 DEF ContractInv, NothingUngiven
<1> QED BY <1>4, <1>6, <1>7, <1>8, <1>9 DEF ContractInv

LEMMA BegunGiven ==
    ASSUME ContractInv, NEW r \in RequestIds, NEW i \in 1 .. Len(log[r])
    PROVE  r \in given
<1>1. log[r] # <<>>
  OBVIOUS
<1> QED BY <1>1 DEF ContractInv, NothingUngiven

LEMMA ContractKept == ContractInv /\ [Next]_vars => ContractInv'
<1> SUFFICES ASSUME ContractInv, [Next]_vars PROVE ContractInv'
  OBVIOUS
<1>1. ASSUME NEW r \in RequestIds, Start(r) PROVE ContractInv'
  <2> DEFINE e == [type |-> "STARTED", seq |-> 0]
  <2>1. e \in Event
    BY DEF Event, Progress
  <2>2. /\ r \in given /\ log' = [log EXCEPT ![r] = Append(@, e)]
        /\ UNCHANGED <<given, asked, settled>>
    BY <1>1 DEF Start, Publish
  <2>3. \A m \in 1 .. e.seq : FALSE
    OBVIOUS
  <2>4. e.type # "CANCELLED"
    OBVIOUS
  <2> HIDE DEF e
  <2> QED BY <2>1, <2>2, <2>3, <2>4, PublishKeeps
<1>2. ASSUME NEW r \in RequestIds, Token(r) PROVE ContractInv'
  <2>1. PICK i \in 1 .. Len(log[r]) :
            log[r][i].type \in Progress /\ Publish(r, "TOKEN", log[r][i].seq + 1)
    BY <1>2 DEF Token
  <2> DEFINE n == log[r][i].seq
             e == [type |-> "TOKEN", seq |-> n + 1]
  <2>2. log[r] \in Seq(Event) /\ log[r][i] \in Event /\ n \in Nat
    BY LoggedTyped
  <2>3. e \in Event
    BY <2>2 DEF Event, Progress
  <2>4. log' = [log EXCEPT ![r] = Append(@, e)] /\ UNCHANGED <<given, asked, settled>>
    BY <1>2, <2>1 DEF Token, Publish
  <2>5. ASSUME NEW m \in 1 .. e.seq
        PROVE  HasToken(r, m, Len(log[r])) \/ e = [type |-> "TOKEN", seq |-> m]
    <3>1. CASE m \in 1 .. n
      <4>1. HasToken(r, m, i)
        BY <3>1 DEF ContractInv, NoGap
      <4> QED BY <2>2, <4>1 DEF HasToken
    <3>2. CASE m = n + 1
      BY <3>2
    <3> QED BY <2>2, <3>1, <3>2
  <2>6. e.type # "CANCELLED"
    OBVIOUS
  <2>7. r \in given
    BY <2>1, BegunGiven
  <2> HIDE DEF e
  <2> QED BY <2>3, <2>4, <2>5, <2>6, <2>7, PublishKeeps
<1>3. ASSUME NEW r \in RequestIds, End(r) PROVE ContractInv'
  <2>1. PICK type \in TerminalTypes, i \in 1 .. Len(log[r]) :
            /\ type = "CANCELLED" => r \in asked
            /\ Publish(r, type, log[r][i].seq)
    BY <1>3 DEF End
  <2> DEFINE e == [type |-> type, seq |-> log[r][i].seq]
  <2>2. log[r] \in Seq(Event) /\ log[r][i] \in Event /\ e \in Event
    BY LoggedTyped DEF Event
  <2>3. log' = [log EXCEPT ![r] = Append(@, e)] /\ UNCHANGED <<given, asked, settled>>
    BY <1>3, <2>1 DEF End, Publish
  <2>4. \A m \in 1 .. e.seq : HasToken(r, m, Len(log[r]))
    <3> SUFFICES ASSUME NEW m \in 1 .. log[r][i].seq PROVE HasToken(r, m, Len(log[r]))
      OBVIOUS
    <3>1. HasToken(r, m, i)
      BY DEF ContractInv, NoGap
    <3> QED BY <2>2, <3>1 DEF HasToken
  <2>5. e.type = "CANCELLED" => r \in asked
    BY <2>1
  <2>6. r \in given
    BY <2>1, BegunGiven
  <2> HIDE DEF e
  <2> QED BY <2>2, <2>3, <2>4, <2>5, <2>6, PublishKeeps
<1>4. ASSUME log' = log, given \subseteq given', given' \subseteq RequestIds,
             asked \subseteq asked', asked' \subseteq RequestIds,
             settled' \subseteq {r \in RequestIds : Ended(r)}
      PROVE  ContractInv'
  <2>1. TypeOK'
    BY <1>4 DEF ContractInv, TypeOK
  <2>2. NoGap'
    BY <1>4 DEF ContractInv, NoGap, HasToken
  <2>3. CancelledWasAsked'
    BY <1>4 DEF ContractInv, CancelledWasAsked
  <2>4. SettledHasEnded'
    BY <1>4 DEF SettledHasEnded, Ended
  <2>5. NothingUngiven'
    BY <1>4 DEF ContractInv, NothingUngiven
  <2> QED BY <2>1, <2>2, <2>3, <2>4, <2>5 DEF ContractInv
<1>5. /\ given \subseteq RequestIds /\ asked \subseteq RequestIds
      /\ settled \subseteq {r \in RequestIds : Ended(r)}
  BY DEF ContractInv, TypeOK, SettledHasEnded
<1>6. ASSUME NEW r \in RequestIds, Ask(r) PROVE ContractInv'
  BY <1>4, <1>5, <1>6 DEF Ask
<1>9. CASE Give
  BY <1>4, <1>5, <1>9 DEF Give
<1>7. CASE Settle
  BY <1>4, <1>5, <1>7 DEF Settle
<1>8. CASE UNCHANGED vars
  BY <1>4, <1>5, <1>8 DEF vars
<1> QED BY <1>1, <1>2, <1>3, <1>6, <1>7, <1>8, <1>9 DEF Next

\* Whoever keeps the contract reports on given jobs only, leaves a log without gaps,
\* cancels only what was asked for and settles only what ended.
THEOREM ContractHolds == Spec => []ContractInv
<1> QED BY InitContract, ContractKept, PTL DEF Spec
=============================================================================
