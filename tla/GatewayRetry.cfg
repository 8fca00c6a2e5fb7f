SPECIFICATION Spec
CONSTANTS
    c1 = c1
    r1 = r1
    NoCall = NoCall
    NoRequest = NoRequest
    Calls = {c1}
    RequestIds = {r1}
    Endpoints <- OneCancel
    Faults <- RestartFaults
    UniqueIds = FALSE
    MaxActive = 1
    Capacity = 1
    Threads = 1
    MaxTokens = 2
    MaxAttempts = 2
    MaxRestarts = 1
INVARIANTS
    StatusBackedByLog
    StreamContiguous
    NoTokenMissing
    KnownLeaksOnly
PROPERTIES
    EmittedMonotone
    KeepsTokenLog
CHECK_DEADLOCK FALSE
