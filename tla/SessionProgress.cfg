SPECIFICATION FairSpec
CONSTANTS
    Old = {}
    Incoming = {"n1", "n2"}
    Fresh = "f1"
    Roles = {{"user", "accept", "goaway"}}
    Kinds = {"SYN", "error"}
    QueueSize = 1
    AcceptBacklog = 1
    MaxFrames = 2
    MaxCalls = 1
INVARIANTS
    ErrorBeforeShutdown
PROPERTIES
    ShutdownReleases
    CloseReturns
CHECK_DEADLOCK FALSE
