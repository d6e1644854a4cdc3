CONSTANTS
    kCheapPrepend = 2
    kInitialSize = 3
    ExtraSize = 4
    Nil = "Nil"
    Bytes <- Streamed
    Messages <- Usual
    MaxMessages = 2
    Pipelined = TRUE
SPECIFICATION ParserSpec
INVARIANTS
    RequestsAsSent
PROPERTIES
    HandedWhenComplete
CHECK_DEADLOCK FALSE
