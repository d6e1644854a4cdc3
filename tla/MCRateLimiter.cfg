CONSTANTS
    Limit = 3
    Period = 3
    MaxWaved = 1
    Env = {"errors", "crash"}
SPECIFICATION LimiterSpec
INVARIANTS
    TwiceTheLimitAtMost
PROPERTIES
    RefusalsEnd
CHECK_DEADLOCK FALSE
