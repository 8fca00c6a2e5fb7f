SPECIFICATION FairSpec
CONSTANTS
    w1 = w1
    r1 = r1
    p1 = p1
    NoWorker = NoWorker
    NoMessage = NoMessage
    Workers = {w1}
    RequestIds = {r1}
    Partitions = {p1}
    Garbled = {}
    Cancellable = {}
    Failing = {}
    MaxTokens = 0
    MaxTroubles = 2
PROPERTY
    EveryJobEnds
CHECK_DEADLOCK FALSE
