SPECIFICATION LiveSpec
CONSTANTS
    c1 = c1
    c2 = c2
    r1 = r1
    NoCall = NoCall
    NoRequest = NoRequest
    Calls = {c1, c2}
    RequestIds = {r1}
    Endpoints <- OneCancel
    Faults <- LostOrCrash
    UniqueIds = FALSE
    MaxActive = 2
    Capacity = 1
    Threads = 2
    MaxTokens = 0
    MaxAttempts = 2
    MaxRestarts = 0
INVARIANT KnownLeaksOnly
PROPERTIES
    StreamEnds
    ReplayEnds
CHECK_DEADLOCK FALSE
