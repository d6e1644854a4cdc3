CONSTANTS
    Tasks = {t1, t2, t3, t4}
    Workers = {w1, w2, w3}
    MaxQueueSize = 2
    NoTask = NoTask
SPECIFICATION Spec
INVARIANTS
    NoLostWakeup
    OneHome
PROPERTIES
    ImplementsTaskService
    CleanupTerminates
CHECK_DEADLOCK FALSE
