CONSTANTS
    Clients = {c1, c2}
    Fds = {5}
    None = None
    MaxRequests = 1
    QueueMax = 1
    PoolThreads = 1
    Env = {"hangup", "slow", "idle", "close", "bad", "limit", "throw"}
SPECIFICATION Spec
SYMMETRY Symmetry
INVARIANTS
    DescriptorsAccounted
    OutputIsWatched
    AnsweredAtMostOnce
CHECK_DEADLOCK FALSE
