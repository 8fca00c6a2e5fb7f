------------------------------ MODULE MCGateway ------------------------------
(***************************************************************************)
(* Instances of Gateway for TLC: the endpoints and faults of each run, and  *)
(* the symmetry of calls and of request ids (safety runs only).            *)
(***************************************************************************)
EXTENDS Gateway, TLC

SubmitOnly == {"submit"}
SubmitCancels == {"submit", "cancel", "infer_cancel"}
SubmitReplay == {"submit", "replay"}
OneCancel == AllEndpoints \ {"infer_cancel"}

Hangups == {"lost", "disconnect"}
CrashingWorkers == {"lost", "ambiguous", "disconnect", "worker_crash"}
LateOnly == {"late_assignment"}
LostOrCrash == {"lost", "worker_crash"}
RestartFaults == {"lost", "dropped", "worker_crash", "stray"}

Symmetry == Permutations(Calls) \cup Permutations(RequestIds)

\* Two calls race, or the one that is made is cancelled and its job done again: all
\* of it at once has too many states for liveness.  Only calls, cancellations and
\* crashes wait for each other, none of which has to happen.
Retried(c) == tries[c] > 1 \/ (tries[c] = 1 /\ job[c] = "queued")
Troubled == cancelledRequests > 0 \/ \E c \in Calls : Retried(c)
OneAtOnce == Troubled => \A c, d \in Calls : c # d => "idle" \in {pc[c], pc[d]}

LiveSpec == Init /\ [][Next /\ OneAtOnce']_vars /\ Fairness
=============================================================================
