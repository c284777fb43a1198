SPECIFICATION Spec
CONSTANTS
    Window = 1
    MaxWindow <- Max1
    Readers <- TwoReaders
    Total <- Write2
    Deadlines = TRUE
    CloseRaces = FALSE
    MayReject = TRUE
    Closers = {"opener"}
INVARIANTS
    ReadsArePrefix
    EOFIsComplete
    NoLostWakeup
PROPERTIES
    ImplementsRequestPipe
CHECK_DEADLOCK FALSE
