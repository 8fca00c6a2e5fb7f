SPECIFICATION Spec
CONSTANTS
    c1 = c1
    c2 = c2
    c3 = c3
    r1 = r1
    r2 = r2
    r3 = r3
    NoCall = NoCall
    NoRequest = NoRequest
    Calls = {c1, c2, c3}
    RequestIds = {r1, r2, r3}
    Endpoints <- SubmitOnly
    Faults <- Hangups
    UniqueIds = TRUE
    MaxActive = 1
    Capacity = 1
    Threads = 2
    MaxTokens = 0
    MaxAttempts = 1
    MaxRestarts = 0
INVARIANT
    AdmissionBound
SYMMETRY Symmetry
CHECK_DEADLOCK FALSE
