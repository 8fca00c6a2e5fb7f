SPECIFICATION Spec
CONSTANTS
    c1 = c1
    c2 = c2
    r1 = r1
    NoCall = NoCall
    NoRequest = NoRequest
    Calls = {c1, c2}
    RequestIds = {r1}
    Endpoints <- SubmitCancels
    Faults <- Hangups
    UniqueIds = FALSE
    MaxActive = 2
    Capacity = 1
    Threads = 2
    MaxTokens = 0
    MaxAttempts = 1
    MaxRestarts = 0
INVARIANTS
    TypeOK
    StatusBackedByLog
    StreamContiguous
    NoLeakedSlot
    GaugeTracksStreams
SYMMETRY Symmetry
CHECK_DEADLOCK FALSE
