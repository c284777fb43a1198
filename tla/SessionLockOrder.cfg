SPECIFICATION FairSpec
CONSTANTS
    Old = {"s1"}
    Incoming = {}
    Fresh = "f1"
    Roles = {{"user", "close"}}
    Kinds = {"FIN"}
    QueueSize = 1
    AcceptBacklog = 1
    MaxFrames = 1
    MaxCalls = 1
PROPERTIES
    CloseReturns
CHECK_DEADLOCK FALSE
