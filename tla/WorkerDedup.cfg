SPECIFICATION Spec
CONSTANTS
    w1 = w1
    r1 = r1
    p1 = p1
    NoWorker = NoWorker
    NoMessage = NoMessage
    Workers = {w1}
    RequestIds = {r1}
    Partitions = {p1}
    Garbled = {}
    Cancellable = {}
    Failing = {}
    MaxTokens = 1
    MaxTroubles = 0
INVARIANT
    DedupKeepsTheEnd
CHECK_DEADLOCK FALSE
