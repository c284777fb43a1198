CONSTANTS
    Requests <- MCRequests
    Frames <- MCFrames
    Window = 1
    MaxFrames = 2
    MaxWrites = 2
SPECIFICATION FairSpec
CHECK_DEADLOCK FALSE
INVARIANTS
    BothAgree
    FramesWhole
    ReadsInOrder
    PongFirst
    StopsClosed
PROPERTIES
    ConnReleased
    PongWaitsForWriter
