SPECIFICATION FairSpec
CONSTANTS
    w1 = w1
    w2 = w2
    r1 = r1
    r2 = r2
    p1 = p1
    NoWorker = NoWorker
    NoMessage = NoMessage
    Workers = {w1, w2}
    RequestIds = {r1, r2}
    Partitions = {p1}
    Garbled = {r2}
    Cancellable = {r1}
    Failing = {r2}
    MaxTokens = 1
    MaxTroubles = 1
INVARIANTS
    TypeOK
    CommittedHasEnded
PROPERTIES
    KeepsTokenLog
    JobsEnd
CHECK_DEADLOCK FALSE
