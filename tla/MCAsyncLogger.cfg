CONSTANTS
    Writers = {w1, w2}
    MaxCalls = 3
    BufferSize = 2
    MaxFileSize = 5
    OpensFail = TRUE
SPECIFICATION Spec
INVARIANTS
    AwakeWhenFull
    NothingLeftBehind
    FileBounded
PROPERTIES
    ImplementsLogService
    ShutdownReturns
CHECK_DEADLOCK FALSE
