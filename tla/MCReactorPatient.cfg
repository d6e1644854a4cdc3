CONSTANTS
    Clients = {c1, c2}
    Fds = {5, 6}
    None = None
    MaxRequests = 2
    QueueMax = 2
    PoolThreads = 2
    Env = {"slow", "limit"}
SPECIFICATION Spec
INVARIANTS
    RepliesReachTheirClient
    FunctorsHaveTargets
CHECK_DEADLOCK FALSE
PROPERTIES
    RequestsAnswered
