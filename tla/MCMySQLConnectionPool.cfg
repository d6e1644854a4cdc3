CONSTANTS
    Threads = {t1, t2, t3, t4}
    Conns = {c1, c2, c3, c4}
    NoConn = NoConn
    MinSize = 2
    MaxSize = 3
    SizeMod = 8
SPECIFICATION Spec
INVARIANTS
    Exclusive
    SizeAccounts
    NoIdleWhileAsleep
CHECK_DEADLOCK FALSE
PROPERTIES
    CloseReleasesWaiters
    CloseIsFinal
