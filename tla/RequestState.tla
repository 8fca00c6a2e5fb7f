---------------------------- MODULE RequestState ----------------------------
(***************************************************************************)
(* The per-request record the gateway keeps (control-plane/src/state) and  *)
(* the mutators RequestState applies to it.  Only the fields a decision or *)
(* a property depends on are kept: the status and the emitted-token count. *)
(* The worker id, error text, cancellation reason and the two timestamps   *)
(* are write-only for the gateway's own logic and are left out.            *)
(*                                                                         *)
(* Every operator maps one record to the record the mutator leaves behind; *)
(* a step of Gateway applies it to one DashMap entry, which is how long    *)
(* the entry's shard lock is held in the code.                             *)
(***************************************************************************)
EXTENDS Integers

RequestStatusInternal == {"Queued", "Running", "Completed", "Failed", "Cancelled"}

RequestRecord == [status : RequestStatusInternal, emitted_tokens : Nat]

\* The map has no entry for the request id.
NoRecord == [status |-> "Absent", emitted_tokens |-> 0]

\* What the map holds at an id: a record, or no entry.
Slot == RequestRecord \cup {NoRecord}

Present(rec) == rec.status # "Absent"

\* RequestRecord::queued, the value `insert` stores whatever was there before.
queued == [status |-> "Queued", emitted_tokens |-> 0]

is_terminal(rec) == rec.status \in {"Completed", "Failed", "Cancelled"}

\* What active_count counts: entries that are present and not terminal.
IsActive(rec) == Present(rec) /\ ~is_terminal(rec)

MaxOf(a, b) == IF a >= b THEN a ELSE b

mark_running(rec) == [rec EXCEPT !.status = "Running"]

\* A mutated note_token that trusts the last sequence number it saw.
note_token_last_wins(rec, n) ==
    [rec EXCEPT !.status = "Running", !.emitted_tokens = n]

note_token(rec, n) ==
    [rec EXCEPT !.status = "Running", !.emitted_tokens = MaxOf(@, n)]

finish_completed(rec, n) ==
    [rec EXCEPT !.status = "Completed", !.emitted_tokens = MaxOf(@, n)]

finish_failed(rec) == [rec EXCEPT !.status = "Failed"]

finish_cancelled(rec) == [rec EXCEPT !.status = "Cancelled"]

\* `cancel` tests and sets under one shard lock; Gateway's actions take it only
\* where it answers true.  The caller's reason is not kept.
accepts_cancel(rec) == IsActive(rec)
cancel(rec) == [rec EXCEPT !.status = "Cancelled"]

\* `update` finds no entry and does nothing when the id is unknown.
update(rec, new) == IF Present(rec) THEN new ELSE rec

\* A mutated match that leaves CANCELLED to the cancel handlers.
ApplyEvent_not_cancelled(rec, ev) ==
    update(rec,
        CASE ev.type = "STARTED"   -> mark_running(rec)
          [] ev.type = "TOKEN"     -> note_token(rec, ev.seq)
          [] ev.type = "COMPLETED" -> finish_completed(rec, ev.seq)
          [] ev.type = "FAILED"    -> finish_failed(rec)
          [] ev.type = "CANCELLED" -> rec)

\* route_one's match on the event type.
ApplyEvent(rec, ev) ==
    update(rec,
        CASE ev.type = "STARTED"   -> mark_running(rec)
          [] ev.type = "TOKEN"     -> note_token(rec, ev.seq)
          [] ev.type = "COMPLETED" -> finish_completed(rec, ev.seq)
          [] ev.type = "FAILED"    -> finish_failed(rec)
          [] ev.type = "CANCELLED" -> finish_cancelled(rec))
=============================================================================
