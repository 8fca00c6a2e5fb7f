------------------------------ MODULE WebConsole ------------------------------
(***************************************************************************)
(* The web console (App.tsx, lib/api.ts): one page, one request on display, *)
(* and the handlers of its buttons, each of which awaits the BFF while the  *)
(* user goes on clicking.  The parts of a handler between two awaits are    *)
(* one step: the page has one thread.                                      *)
(*                                                                         *)
(* A request is the number of its submission (crypto.randomUUID).  The     *)
(* models are loaded and there is a prompt.                                *)
(***************************************************************************)
EXTENDS Naturals

CONSTANTS
    MaxSubmits,     \* requests the user submits (bound of the model)
    MaxClicks,      \* clicks on Cancel per request (bound of the model)
    Failures,       \* TRUE: the BFF may answer with errors, connections break
    Pauses          \* TRUE: ten seconds may pass without a token event

ASSUME ConsoleAssumption ==
    /\ MaxSubmits \in Nat \ {0} /\ MaxClicks \in Nat
    /\ Failures \in BOOLEAN /\ Pauses \in BOOLEAN

VARIABLES
    streamState,    \* as the code's: what the page says of the request
    requestId,      \* the request on display
    shown,          \* the requests whose events are in `events` and `output`
    status,         \* the request whose record is in `status`
    ref,            \* streamAbortRef.current: whose controller it is
    fetch,          \* streamInference for each request
    told,           \* requests whose terminal event came
    cancels,        \* cancelInference calls awaited, for each request
    asks,           \* requests with a fetchInferenceStatus call awaited
    submits,        \* requests submitted so far
    crossed,        \* history: a request was submitted while a call for an
                    \* earlier one was still awaited
    failed          \* history: requests that failed, or had a call that did

pageVars == <<streamState, requestId, shown, status, ref>>
callVars == <<fetch, told, cancels, asks>>
vars == <<pageVars, callVars, submits, crossed, failed>>

None == 0
Requests == 1 .. MaxSubmits
StreamStates == {"idle", "streaming", "completed", "cancelled", "error"}

isStreaming == streamState = "streaming"

\* Some call for a request so far is awaited.
Awaiting == asks # {} \/ \E k \in Requests : fetch[k] = "open" \/ cancels[k] > 0

Init ==
    /\ streamState = "idle" /\ requestId = None
    /\ shown = {} /\ status = None /\ ref = None
    /\ fetch = [k \in Requests |-> "none"]
    /\ told = {} /\ asks = {}
    /\ cancels = [k \in Requests |-> 0]
    /\ submits = 0 /\ crossed = FALSE /\ failed = {}

-----------------------------------------------------------------------------
(* handleSubmit and streamInference                                        *)

\* A mutated handleSubmit that does not clear the page.
cleared_not(events) == events

cleared(events) == {}

handleSubmit ==
    LET k == submits + 1 IN
    /\ k \in Requests /\ ~isStreaming
    /\ submits' = k /\ crossed' = (crossed \/ Awaiting)
    /\ ref' = k /\ requestId' = k /\ fetch' = [fetch EXCEPT ![k] = "open"]
    /\ shown' = cleared(shown) /\ status' = None
    /\ streamState' = "streaming"
    /\ UNCHANGED <<told, cancels, asks, failed>>

\* onEvent: every event names the request on display, also one that is not.
onEvent(k) ==
    /\ fetch[k] = "open" /\ k \notin told
    /\ shown' = shown \cup {k} /\ requestId' = k
    /\ \/ UNCHANGED <<streamState, told, failed>>
       \/ /\ told' = told \cup {k}
          /\ streamState' \in {"completed", "cancelled", "error"}
          /\ failed' = IF streamState' = "error" THEN failed \cup {k} ELSE failed
    /\ UNCHANGED <<status, ref, fetch, cancels, asks, submits, crossed>>

\* A mutated finally that leaves the controller.
finally_keeps_ref(k) == fetch' = [fetch EXCEPT ![k] = "closed"] /\ UNCHANGED ref

\* Whatever controller is there by now goes with the stream that closes.
finally(k) == fetch' = [fetch EXCEPT ![k] = "closed"] /\ ref' = None

\* A mutated end that leaves the label to terminal events.
label_after_end_same(label) == label

label_after_end(label) == IF label = "streaming" THEN "completed" ELSE label

\* The response's body ends.
StreamDone(k) ==
    /\ fetch[k] = "open" /\ finally(k)
    /\ streamState' = label_after_end(streamState)
    /\ UNCHANGED <<requestId, shown, status, told, cancels, asks, submits, crossed, failed>>

\* streamInference throws, and nobody aborted it.
StreamThrows(k) ==
    /\ fetch[k] = "open" /\ finally(k)
    /\ streamState' = "error"
    /\ UNCHANGED <<requestId, shown, status, told, cancels, asks, submits, crossed>>

\* The BFF refuses the request, or the connection breaks.
StreamFails(k) == Failures /\ StreamThrows(k) /\ failed' = failed \cup {k}

\* After ten seconds without an event the BFF sends a comment, ": keep-alive".
\* parseSseChunk finds no data in it and takes it for a bare JSON text.
KeepAlive(k) == Pauses /\ StreamThrows(k) /\ UNCHANGED failed

-----------------------------------------------------------------------------
(* handleCancel                                                            *)

CancelClick ==
    /\ requestId # None /\ isStreaming /\ cancels[requestId] < MaxClicks
    /\ cancels' = [cancels EXCEPT ![requestId] = @ + 1]
    /\ UNCHANGED <<pageVars, fetch, told, asks, submits, crossed, failed>>

\* A mutated handleCancel that only changes the label.
abort_nobody(stream) == UNCHANGED <<fetch, ref>>

\* Aborting rejects what streamInference awaits; its catch returns at once.
abort(stream) == IF stream = None THEN UNCHANGED <<fetch, ref>> ELSE finally(stream)

\* The BFF answered, whether or not it accepted: abort whatever stream there is.
CancelDone(k) ==
    /\ cancels[k] > 0 /\ cancels' = [cancels EXCEPT ![k] = @ - 1]
    /\ abort(ref)
    /\ streamState' = "cancelled"
    /\ UNCHANGED <<requestId, shown, status, told, asks, submits, crossed, failed>>

CancelFails(k) ==
    /\ Failures /\ cancels[k] > 0 /\ cancels' = [cancels EXCEPT ![k] = @ - 1]
    /\ streamState' = "error" /\ failed' = failed \cup {k}
    /\ UNCHANGED <<requestId, shown, status, ref, fetch, told, asks, submits, crossed>>

-----------------------------------------------------------------------------
(* handleStatus                                                            *)

StatusClick ==
    /\ requestId # None /\ ~isStreaming /\ asks = {}
    /\ asks' = {requestId}
    /\ UNCHANGED <<pageVars, fetch, told, cancels, submits, crossed, failed>>

\* An error leaves the old status.
StatusDone(k) ==
    /\ k \in asks /\ asks' = asks \ {k}
    /\ status' = k \/ (Failures /\ UNCHANGED status)
    /\ UNCHANGED <<streamState, requestId, shown, ref, fetch, told, cancels, submits, crossed,
                   failed>>

-----------------------------------------------------------------------------

Next ==
    \/ handleSubmit \/ CancelClick \/ StatusClick
    \/ \E k \in Requests :
          \/ onEvent(k) \/ StreamDone(k) \/ StreamFails(k) \/ KeepAlive(k)
          \/ CancelDone(k) \/ CancelFails(k) \/ StatusDone(k)

\* Responses end (Gateway's StreamEnds); the user need not do anything.
Spec == Init /\ [][Next]_vars /\ \A k \in Requests : WF_vars(StreamDone(k))

-----------------------------------------------------------------------------

\* Types; and a stored controller is that of a stream which is still open: Cancel
\* never aborts one that is over.
TypeOK ==
    /\ streamState \in StreamStates
    /\ {requestId, status, ref} \subseteq Requests \cup {None}
    /\ shown \subseteq Requests /\ told \subseteq Requests /\ asks \subseteq Requests
    /\ fetch \in [Requests -> {"none", "open", "closed"}]
    /\ cancels \in [Requests -> 0 .. MaxClicks]
    /\ submits \in 0 .. MaxSubmits /\ crossed \in BOOLEAN /\ failed \subseteq Requests
    /\ ref # None => fetch[ref] = "open"

\* As long as the user waits for every answer before the next submission, the
\* page shows the events and the status of the request it names, and no other's,
\* although the id comes with the events.  (After a crossing it may not: nothing
\* in onEvent and handleStatus tests whose answer it is.)
ShowsOneRequest ==
    ~crossed => shown \subseteq {requestId} /\ status \in {None, requestId}

\* Nor do more events come under the label "Cancelled": either the request's own
\* CANCELLED event came, which is its last, or its stream was aborted.
CancelledIsSilent ==
    (~crossed /\ streamState = "cancelled") =>
        fetch[requestId] # "open" \/ requestId \in told

\* The page never says "Streaming" (and refuses to submit) when there is nothing
\* left that could make it say something else, however calls cross.
StreamingIsLive == isStreaming => \E k \in Requests : fetch[k] = "open" /\ k \notin told

\* The user can submit again, sooner or later, however calls cross and fail.
StreamingStops == isStreaming ~> ~isStreaming

-----------------------------------------------------------------------------
(* What the page says and the code does not keep; refuted by a run          *)

\* App.tsx: "watch token events arrive over SSE, and keep control with status and
\* cancellation actions": the page reports an error, which takes the events and
\* the Cancel button away, only for a request that failed or whose calls did.
ErrorMeansFailure == streamState = "error" => requestId \in failed
=============================================================================
