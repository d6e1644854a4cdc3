CONSTANTS
    Clients = {c1, c2}
    Fds = {5}
    None = None
    MaxRequests = 1
    QueueMax = 2
    PoolThreads = 1
    Env = {"hangup", "slow", "bad"}
SPECIFICATION Spec
PROPERTIES
    HangupsReaped
CHECK_DEADLOCK FALSE
