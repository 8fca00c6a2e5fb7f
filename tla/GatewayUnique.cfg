SPECIFICATION Spec
CONSTANTS
    c1 = c1
    c2 = c2
    r1 = r1
    r2 = r2
    NoCall = NoCall
    NoRequest = NoRequest
    Calls = {c1, c2}
    RequestIds = {r1, r2}
    Endpoints <- SubmitReplay
    Faults <- CrashingWorkers
    UniqueIds = TRUE
    MaxActive = 2
    Capacity = 1
    Threads = 2
    MaxTokens = 0
    MaxAttempts = 2
    MaxRestarts = 0
INVARIANTS
    EndedToldWhy
    NoOrphanStream
    ReplayAgrees
SYMMETRY Symmetry
CHECK_DEADLOCK FALSE
