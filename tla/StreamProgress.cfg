SPECIFICATION FairSpec
CONSTANTS
    Window = 1
    MaxWindow <- Max2
    Readers <- OneReader
    Total <- Write3
    Deadlines = FALSE
    CloseRaces = FALSE
    MayReject = TRUE
    Closers = {}
PROPERTIES
    WritesEnd
    AllDelivered
    ClosedStreamsReleased
    BlockedReadsReturn
CHECK_DEADLOCK FALSE
