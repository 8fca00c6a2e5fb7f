------------------------------- MODULE TokenLog -------------------------------
(***************************************************************************)
(* What the workers promise everybody who reads the token topic, whatever  *)
(* crashes, retries, reassignments and cancellations happen on the way: an *)
(* append-only log per request which begins when there is a job, in which  *)
(* every event builds on an earlier one, a request is cancelled only when  *)
(* asked, and a job is committed only when its log says how it ended.      *)
(*                                                                         *)
(* The workers of module Worker implement it.  The brokers and workers      *)
(* that Gateway assumes keep to it too, so that no counterexample found    *)
(* there is owed to an event no worker would publish.                      *)
(***************************************************************************)
EXTENDS Naturals, Sequences

CONSTANT RequestIds

VARIABLES
    log,        \* the token topic, one log per request id
    given,      \* ids with a job in the request topic
    asked,      \* ids with a cancellation event in the control topic
    settled     \* ids with a committed job

vars == <<log, given, asked, settled>>

TerminalTypes == {"COMPLETED", "FAILED", "CANCELLED"}
Progress == {"STARTED", "TOKEN"}
Event == [type : Progress \cup TerminalTypes, seq : Nat]

\* Some attempt at r has ended.
Ended(r) == \E i \in 1 .. Len(log[r]) : log[r][i].type \in TerminalTypes

Publish(r, type, n) == log' = [log EXCEPT ![r] = Append(@, [type |-> type, seq |-> n])]

Init ==
    /\ log = [r \in RequestIds |-> <<>>]
    /\ given = {} /\ asked = {} /\ settled = {}

\* An attempt at a job begins,
Start(r) == r \in given /\ Publish(r, "STARTED", 0) /\ UNCHANGED <<given, asked, settled>>

\* gets one token further than it, or another attempt, had got,
Token(r) ==
    /\ \E i \in 1 .. Len(log[r]) :
          log[r][i].type \in Progress /\ Publish(r, "TOKEN", log[r][i].seq + 1)
    /\ UNCHANGED <<given, asked, settled>>

\* or ends where it had got.
End(r) ==
    /\ \E type \in TerminalTypes :
          /\ type = "CANCELLED" => r \in asked
          /\ \E i \in 1 .. Len(log[r]) :
                log[r][i].type \in Progress /\ Publish(r, type, log[r][i].seq)
    /\ UNCHANGED <<given, asked, settled>>

\* Jobs are only ever added to the request topic.
Give ==
    /\ given \subseteq given' /\ given' \subseteq RequestIds
    /\ UNCHANGED <<log, asked, settled>>

Ask(r) == asked' = asked \cup {r} /\ UNCHANGED <<log, given, settled>>

\* Commits reach ended requests only.  They may go back: a worker that lost its
\* partition can overwrite the commit of the worker that took over.
Settle ==
    /\ settled' \subseteq {r \in RequestIds : Ended(r)}
    /\ UNCHANGED <<log, given, asked>>

Next == Give \/ Settle \/ \E r \in RequestIds : Start(r) \/ Token(r) \/ End(r) \/ Ask(r)

Spec == Init /\ [][Next]_vars

TypeOK ==
    /\ log \in [RequestIds -> Seq(Event)]
    /\ given \subseteq RequestIds /\ asked \subseteq RequestIds /\ settled \subseteq RequestIds

\* Nobody reports on a job that there is not.
NothingUngiven == \A r \in RequestIds \ given : log[r] = <<>>

\* Token m of r is at an offset up to i.
HasToken(r, m, i) == \E k \in 1 .. i : log[r][k] = [type |-> "TOKEN", seq |-> m]

\* Whatever event a reader has got to, every token up to its number is at or
\* before it: de-duplicated by number, the tokens of a request processed any
\* number of times have no gap.
NoGap ==
    \A r \in RequestIds : \A i \in 1 .. Len(log[r]) :
        \A m \in 1 .. log[r][i].seq : HasToken(r, m, i)

\* A request is reported cancelled only after a cancellation was published.
CancelledWasAsked ==
    \A r \in RequestIds : \A i \in 1 .. Len(log[r]) :
        log[r][i].type = "CANCELLED" => r \in asked

\* A committed job, which no worker will get again, has ended in the log.
SettledHasEnded == \A r \in settled : Ended(r)
=============================================================================
