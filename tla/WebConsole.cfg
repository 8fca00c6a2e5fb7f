SPECIFICATION Spec
CONSTANTS
    MaxSubmits = 3
    MaxClicks = 1
    Failures = TRUE
    Pauses = TRUE
INVARIANTS
    TypeOK
    ShowsOneRequest
    CancelledIsSilent
    StreamingIsLive
PROPERTY
    StreamingStops
CHECK_DEADLOCK FALSE
