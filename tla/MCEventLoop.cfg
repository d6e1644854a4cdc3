CONSTANTS
    f1 = f1
    f2 = f2
    idle = idle
    close = close
    soon = soon
    Threads = {t1, t2}
    Loop = main
    Functors = {f1, f2}
    Timers = {idle, close, soon}
    Interval <- Intervals
    Delay <- Delays
    Adds <- Added
    Posts <- Posted
    AtStart = {idle}
    MaxTime = 5
    None = None
SPECIFICATION Spec
INVARIANTS
    FunctorsRunInOrder
    NeverSleepsOnWork
    PhaseKept
PROPERTIES
    EverythingRuns
    QuitEnds
CHECK_DEADLOCK FALSE
