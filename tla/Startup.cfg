SPECIFICATION Spec
CONSTANTS
    Blank = "blank"
    Uuid = "uuid"
    None = None
    token_topic = "tokens"
    control_topic = "control"
    max_tokens_limit = 2
    WorkerDefault = 4
    Environments <- MCEnvironments
    Requests <- MCRequests
    Topics <- MCTopics
    Deadline = 6
    FetchTimeout = 5
INVARIANTS
    TypeOK
    GivesUpInTime
    RoutesAreTheLastEntries
    JobsHaveTopics
    TokensWithinLimit
    CancelFindsRequest
    EndpointsAgree
PROPERTY
    StartupEnds
CHECK_DEADLOCK FALSE
