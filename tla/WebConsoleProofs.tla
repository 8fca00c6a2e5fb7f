--------------------------- MODULE WebConsoleProofs ---------------------------
(***************************************************************************)
(* What the web console keeps for every number of submissions and clicks,  *)
(* whatever fails or pauses: the safety properties of module WebConsole.   *)
(***************************************************************************)
EXTENDS WebConsole, TLAPS

\* A request that was not submitted has no calls and no events.
FreshRequests ==
    /\ requestId <= submits
    /\ \A k \in Requests : k > submits =>
          fetch[k] = "none" /\ cancels[k] = 0 /\ k \notin told

\* Unless calls crossed, every call that is awaited is for the request on
\* display, and an open stream is the one Cancel would abort.
OnlyDisplayed ==
    ~crossed => \A k \in Requests :
        /\ fetch[k] = "open" => k = requestId /\ ref = k
        /\ cancels[k] > 0 => k = requestId
        /\ k \in asks => k = requestId

IInv ==
    /\ TypeOK /\ FreshRequests /\ OnlyDisplayed
    /\ StreamingIsLive /\ ShowsOneRequest /\ CancelledIsSilent

LEMMA InitEstablishes == ASSUME ConsoleAssumption, Init PROVE IInv
<1>1. TypeOK
  <2>1. /\ fetch \in [Requests -> {"none", "open", "closed"}]
        /\ cancels \in [Requests -> 0 .. MaxClicks]
    BY DEF ConsoleAssumption, Init
  <2>2. submits \in 0 .. MaxSubmits
    BY DEF ConsoleAssumption, Init
  <2>3. /\ crossed \in BOOLEAN
        /\ shown \subseteq Requests /\ told \subseteq Requests /\ asks \subseteq Requests
        /\ failed \subseteq Requests /\ ref = None
    BY DEF Init
  <2>4. streamState \in StreamStates /\ {requestId, status, ref} \subseteq {None}
    BY DEF Init, StreamStates
  <2> QED BY <2>1, <2>2, <2>3, <2>4 DEF TypeOK
<1>2. FreshRequests /\ OnlyDisplayed
  BY DEF Init, FreshRequests, OnlyDisplayed, None
<1>3. StreamingIsLive /\ ShowsOneRequest /\ CancelledIsSilent
  BY DEF Init, StreamingIsLive, ShowsOneRequest, CancelledIsSilent, isStreaming
<1> QED BY <1>1, <1>2, <1>3 DEF IInv

LEMMA SubmitKeeps == ASSUME ConsoleAssumption, IInv, handleSubmit PROVE IInv'
<1> DEFINE k == submits + 1
<1>0. TypeOK /\ FreshRequests /\ OnlyDisplayed /\ MaxSubmits \in Nat /\ MaxClicks \in Nat
  BY DEF IInv, ConsoleAssumption
<1>1. /\ k \in Requests /\ k \in Nat /\ k # None /\ k \notin told /\ cancels[k] = 0
      /\ submits' = k /\ crossed' = (crossed \/ Awaiting) /\ ref' = k /\ requestId' = k
      /\ fetch' = [fetch EXCEPT ![k] = "open"] /\ shown' = {} /\ status' = None
      /\ streamState' = "streaming"
      /\ told' = told /\ cancels' = cancels /\ asks' = asks /\ failed' = failed
  BY <1>0 DEF handleSubmit, cleared, FreshRequests, TypeOK, Requests, None
<1> HIDE DEF k
<1>2. fetch' \in [Requests -> {"none", "open", "closed"}] /\ fetch'[k] = "open"
  BY <1>0, <1>1 DEF TypeOK
<1>3. TypeOK'
  BY <1>0, <1>1, <1>2 DEF TypeOK, StreamStates, Requests
<1>4. FreshRequests'
  BY <1>0, <1>1 DEF TypeOK, FreshRequests, Requests, k
<1>5. OnlyDisplayed'
  BY <1>0, <1>1 DEF TypeOK, OnlyDisplayed, Awaiting
<1>6. StreamingIsLive' /\ ShowsOneRequest' /\ CancelledIsSilent'
  BY <1>1, <1>2 DEF StreamingIsLive, ShowsOneRequest, CancelledIsSilent, None
<1> QED BY <1>3, <1>4, <1>5, <1>6 DEF IInv

LEMMA EventKeeps ==
    ASSUME ConsoleAssumption, IInv, NEW k \in Requests, onEvent(k) PROVE IInv'
<1>0. TypeOK /\ FreshRequests /\ OnlyDisplayed /\ None \notin Requests
  BY DEF IInv, Requests, None
<1>1. /\ fetch[k] = "open" /\ k \notin told
      /\ shown' = shown \cup {k} /\ requestId' = k
      /\ status' = status /\ ref' = ref /\ fetch' = fetch /\ cancels' = cancels
      /\ asks' = asks /\ submits' = submits /\ crossed' = crossed
      /\ told' \in {told, told \cup {k}} /\ failed' \subseteq failed \cup {k}
      /\ streamState' = streamState => told' = told \/ streamState' # "streaming"
      /\ streamState' # streamState => k \in told' /\ streamState' \in StreamStates \ {"streaming"}
      /\ streamState' = "cancelled" => streamState = "cancelled" \/ k \in told'
  BY DEF onEvent, StreamStates
<1>2. TypeOK'
  BY <1>0, <1>1 DEF TypeOK
<1>3. FreshRequests'
  BY <1>0, <1>1 DEF FreshRequests, TypeOK, Requests
<1>4. OnlyDisplayed'
  BY <1>0, <1>1 DEF OnlyDisplayed
<1>5. StreamingIsLive'
  BY <1>0, <1>1 DEF IInv, StreamingIsLive, isStreaming
<1>6. ShowsOneRequest' /\ CancelledIsSilent'
  BY <1>0, <1>1 DEF IInv, OnlyDisplayed, ShowsOneRequest, CancelledIsSilent
<1> QED BY <1>2, <1>3, <1>4, <1>5, <1>6 DEF IInv

\* A stream that closes, for whatever reason, with a label that is not "streaming".
LEMMA CloseKeeps ==
    ASSUME ConsoleAssumption, IInv, NEW k \in Requests, fetch[k] = "open", finally(k),
           streamState' \in StreamStates \ {"streaming"},
           failed' \subseteq failed \cup {k},
           cancels' \in [Requests -> 0 .. MaxClicks],
           \A j \in Requests : cancels[j] = 0 => cancels'[j] = 0,
           UNCHANGED <<requestId, shown, status, told, asks, submits, crossed>>
    PROVE  IInv'
<1>0. TypeOK /\ FreshRequests /\ OnlyDisplayed /\ MaxClicks \in Nat
  BY DEF IInv, ConsoleAssumption
<1>1. /\ fetch' = [fetch EXCEPT ![k] = "closed"] /\ ref' = None
      /\ fetch' \in [Requests -> {"none", "open", "closed"}]
      /\ \A j \in Requests : fetch'[j] = IF j = k THEN "closed" ELSE fetch[j]
  BY <1>0 DEF finally, TypeOK
<1>2. TypeOK'
  BY <1>0, <1>1 DEF TypeOK
<1>3. FreshRequests'
  BY <1>0, <1>1 DEF FreshRequests
<1>4. ~crossed' => \A j \in Requests : fetch'[j] # "open"
  BY <1>0, <1>1 DEF OnlyDisplayed
<1>5. OnlyDisplayed'
  <2>1. \A j \in Requests : cancels'[j] > 0 => cancels[j] > 0
    BY <1>0 DEF TypeOK
  <2> QED BY <1>0, <1>4, <2>1 DEF OnlyDisplayed
<1>6. StreamingIsLive' /\ ShowsOneRequest'
  BY DEF IInv, StreamingIsLive, isStreaming, ShowsOneRequest
<1>7. CancelledIsSilent'
  <2>1. requestId \in Requests \/ requestId = None
    BY <1>0 DEF TypeOK
  <2>2. ASSUME ~crossed PROVE requestId = k
    BY <1>0, <2>2 DEF OnlyDisplayed
  <2> QED BY <1>1, <2>2 DEF CancelledIsSilent
<1> QED BY <1>2, <1>3, <1>5, <1>6, <1>7 DEF IInv

LEMMA CancelDoneKeeps ==
    ASSUME ConsoleAssumption, IInv, NEW k \in Requests, CancelDone(k) PROVE IInv'
<1>0. TypeOK /\ FreshRequests /\ OnlyDisplayed /\ MaxClicks \in Nat /\ None \notin Requests
  BY DEF IInv, ConsoleAssumption, Requests, None
<1>1. /\ cancels[k] > 0 /\ cancels' = [cancels EXCEPT ![k] = @ - 1] /\ abort(ref)
      /\ streamState' = "cancelled" /\ failed' = failed
      /\ UNCHANGED <<requestId, shown, status, told, asks, submits, crossed>>
  BY DEF CancelDone
<1>2. /\ cancels' \in [Requests -> 0 .. MaxClicks]
      /\ \A j \in Requests : cancels[j] = 0 => cancels'[j] = 0
      /\ \A j \in Requests : cancels'[j] > 0 => cancels[j] > 0
  BY <1>0, <1>1 DEF TypeOK
<1>3. CASE ref # None
  <2>1. ref \in Requests /\ fetch[ref] = "open" /\ finally(ref)
    BY <1>0, <1>1, <1>3 DEF TypeOK, abort
  <2> QED BY <1>1, <1>2, <2>1, CloseKeeps DEF StreamStates
<1>4. CASE ref = None
  <2>1. fetch' = fetch /\ ref' = ref
    BY <1>1, <1>4 DEF abort
  <2>2. TypeOK'
    BY <1>0, <1>1, <1>2, <2>1 DEF TypeOK, StreamStates
  <2>3. FreshRequests' /\ OnlyDisplayed'
    BY <1>0, <1>1, <1>2, <2>1 DEF FreshRequests, OnlyDisplayed
  <2>4. StreamingIsLive' /\ ShowsOneRequest'
    BY <1>1 DEF IInv, StreamingIsLive, isStreaming, ShowsOneRequest
  <2>5. CancelledIsSilent'
    BY <1>0, <1>1, <1>4, <2>1 DEF OnlyDisplayed, CancelledIsSilent
  <2> QED BY <2>2, <2>3, <2>4, <2>5 DEF IInv
<1> QED BY <1>3, <1>4

LEMMA CancelFailsKeeps ==
    ASSUME ConsoleAssumption, IInv, NEW k \in Requests, CancelFails(k) PROVE IInv'
<1>0. TypeOK /\ FreshRequests /\ OnlyDisplayed /\ MaxClicks \in Nat
  BY DEF IInv, ConsoleAssumption
<1>1. /\ cancels' \in [Requests -> 0 .. MaxClicks]
      /\ \A j \in Requests : cancels[j] = 0 => cancels'[j] = 0
      /\ \A j \in Requests : cancels'[j] > 0 => cancels[j] > 0
  BY <1>0 DEF TypeOK, CancelFails
<1>2. TypeOK'
  BY <1>0, <1>1 DEF TypeOK, StreamStates, CancelFails
<1>3. FreshRequests' /\ OnlyDisplayed'
  BY <1>0, <1>1 DEF FreshRequests, OnlyDisplayed, CancelFails
<1>4. StreamingIsLive' /\ ShowsOneRequest' /\ CancelledIsSilent'
  BY DEF IInv, StreamingIsLive, isStreaming, ShowsOneRequest, CancelledIsSilent, CancelFails
<1> QED BY <1>2, <1>3, <1>4 DEF IInv

LEMMA ClickKeeps ==
    ASSUME ConsoleAssumption, IInv, CancelClick \/ StatusClick PROVE IInv'
<1>0. TypeOK /\ FreshRequests /\ OnlyDisplayed /\ MaxClicks \in Nat /\ requestId \in Requests
      /\ pageVars' = pageVars /\ fetch' = fetch /\ told' = told
      /\ submits' = submits /\ crossed' = crossed /\ failed' = failed
  BY DEF IInv, ConsoleAssumption, CancelClick, StatusClick, TypeOK
<1>1. StreamingIsLive' /\ ShowsOneRequest' /\ CancelledIsSilent'
  BY <1>0 DEF IInv, pageVars, StreamingIsLive, isStreaming, ShowsOneRequest, CancelledIsSilent
<1>2. CASE CancelClick
  <2>1. /\ cancels' \in [Requests -> 0 .. MaxClicks] /\ asks' = asks
        /\ \A j \in Requests : j # requestId => cancels'[j] = cancels[j]
    BY <1>0, <1>2 DEF CancelClick, TypeOK
  <2>2. TypeOK'
    BY <1>0, <2>1 DEF pageVars, TypeOK
  <2>3. requestId <= submits /\ FreshRequests'
    BY <1>0, <2>1 DEF pageVars, FreshRequests, TypeOK, Requests
  <2>4. OnlyDisplayed'
    BY <1>0, <2>1 DEF pageVars, OnlyDisplayed
  <2> QED BY <1>1, <2>2, <2>3, <2>4 DEF IInv
<1>3. CASE StatusClick
  <2>1. cancels' = cancels /\ asks' = {requestId}
    BY <1>3 DEF StatusClick
  <2>2. TypeOK'
    BY <1>0, <2>1 DEF pageVars, TypeOK
  <2>3. FreshRequests'
    BY <1>0, <2>1 DEF pageVars, FreshRequests
  <2>4. OnlyDisplayed'
    BY <1>0, <2>1 DEF pageVars, OnlyDisplayed
  <2> QED BY <1>1, <2>2, <2>3, <2>4 DEF IInv
<1> QED BY <1>2, <1>3

LEMMA StatusDoneKeeps ==
    ASSUME ConsoleAssumption, IInv, NEW k \in Requests, StatusDone(k) PROVE IInv'
<1>0. TypeOK /\ FreshRequests /\ OnlyDisplayed
  BY DEF IInv
<1>1. status' \in {status, k} /\ k \in asks /\ asks' = asks \ {k}
      /\ UNCHANGED <<streamState, requestId, shown, ref, fetch, told, cancels, submits, crossed,
                     failed>>
  BY DEF StatusDone
<1>2. TypeOK'
  BY <1>0, <1>1 DEF TypeOK
<1>3. FreshRequests' /\ OnlyDisplayed'
  BY <1>0, <1>1 DEF FreshRequests, OnlyDisplayed
<1>4. StreamingIsLive' /\ CancelledIsSilent'
  BY <1>1 DEF IInv, StreamingIsLive, isStreaming, CancelledIsSilent
<1>5. ShowsOneRequest'
  BY <1>0, <1>1 DEF IInv, OnlyDisplayed, ShowsOneRequest
<1> QED BY <1>2, <1>3, <1>4, <1>5 DEF IInv

LEMMA StepKeeps == ASSUME ConsoleAssumption, IInv, [Next]_vars PROVE IInv'
<1>0. TypeOK /\ MaxClicks \in Nat
  BY DEF IInv, ConsoleAssumption
<1>1. ASSUME NEW k \in Requests, StreamDone(k) \/ StreamFails(k) \/ KeepAlive(k) PROVE IInv'
  <2>1. fetch[k] = "open" /\ finally(k) /\ failed' \subseteq failed \cup {k}
        /\ streamState' \in {label_after_end(streamState), "error"}
        /\ UNCHANGED <<requestId, shown, status, told, cancels, asks, submits, crossed>>
    BY <1>1 DEF StreamDone, StreamFails, KeepAlive, StreamThrows
  <2>2. streamState' \in StreamStates \ {"streaming"}
    BY <1>0, <2>1 DEF TypeOK, StreamStates, label_after_end
  <2>3. cancels' \in [Requests -> 0 .. MaxClicks]
    BY <1>0, <2>1 DEF TypeOK
  <2> QED BY <2>1, <2>2, <2>3, CloseKeeps
<1>2. CASE UNCHANGED vars
  <2>1. TypeOK'
    BY <1>2 DEF IInv, vars, pageVars, callVars, TypeOK
  <2>2. FreshRequests' /\ OnlyDisplayed'
    BY <1>2 DEF IInv, vars, pageVars, callVars, FreshRequests, OnlyDisplayed
  <2>3. StreamingIsLive' /\ ShowsOneRequest' /\ CancelledIsSilent'
    BY <1>2 DEF IInv, vars, pageVars, callVars, StreamingIsLive, isStreaming, ShowsOneRequest,
                CancelledIsSilent
  <2> QED BY <2>1, <2>2, <2>3 DEF IInv
<1> QED BY <1>1, <1>2, SubmitKeeps, EventKeeps, CancelDoneKeeps, CancelFailsKeeps, ClickKeeps,
           StatusDoneKeeps DEF Next

\* The console's invariant, from its assumption on the constants alone.
LEMMA AlwaysIInv == Spec => []IInv
<1>1. Init => IInv
  BY ConsoleAssumption, InitEstablishes
<1>2. IInv /\ [Next]_vars => IInv'
  BY ConsoleAssumption, StepKeeps
<1> QED BY <1>1, <1>2, PTL DEF Spec

\* Every variable keeps its type, and Cancel never aborts a stream that is over
\* (App.tsx, streamAbortRef).
THEOREM ConsoleTyped == Spec => []TypeOK
<1>1. IInv => TypeOK
  BY DEF IInv
<1> QED BY <1>1, AlwaysIInv, PTL

\* However calls cross and fail, the page never says "Streaming" without a stream
\* that can still make it say something else (App.tsx, streamState).
THEOREM NeverStuckStreaming == Spec => []StreamingIsLive
<1>1. IInv => StreamingIsLive
  BY DEF IInv
<1> QED BY <1>1, AlwaysIInv, PTL

\* Until calls of two requests cross, the page shows the events and the status of one
\* request only (App.tsx, handleSubmit, onEvent, handleStatus).
THEOREM ShowsOne == Spec => []ShowsOneRequest
<1>1. IInv => ShowsOneRequest
  BY DEF IInv
<1> QED BY <1>1, AlwaysIInv, PTL

\* Until then, no more events come under the label "Cancelled": the stream has been
\* aborted or has brought its terminal event (App.tsx, handleCancel, onEvent).
THEOREM CancelledSilent == Spec => []CancelledIsSilent
<1>1. IInv => CancelledIsSilent
  BY DEF IInv
<1> QED BY <1>1, AlwaysIInv, PTL
=============================================================================
