SPECIFICATION Spec
CONSTANTS
    Old = {"s1"}
    Incoming = {}
    Fresh = "f1"
    Roles = {{"user", "open", "close"}, {"user", "close", "update"}, {"user", "close", "write"}}
    Kinds = {"FIN", "RST", "ping", "goaway", "error"}
    QueueSize = 1
    AcceptBacklog = 1
    MaxFrames = 1
    MaxCalls = 2
INVARIANTS
    SweepComplete
    StopsReleased
    NilIsAReply
CHECK_DEADLOCK FALSE
