SPECIFICATION FairSpec
CONSTANTS
    c1 = c1
    r1 = r1
    NoCall = NoCall
    NoRequest = NoRequest
    Calls = {c1}
    RequestIds = {r1}
    Endpoints <- SubmitOnly
    Faults <- LateOnly
    UniqueIds = FALSE
    MaxActive = 1
    Capacity = 1
    Threads = 1
    MaxTokens = 1
    MaxAttempts = 1
    MaxRestarts = 0
PROPERTY
    TokensReachStream
CHECK_DEADLOCK FALSE
