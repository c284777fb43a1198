SPECIFICATION Spec
CONSTANTS
    Openers <- MCOpeners
    Acceptors <- MCServing
    Pingers <- MCPingers
    Leavers <- MCServing
    MaxId = 7
    QueueSize = 1
    Window = 0
    AcceptBacklog = 1
    MaxPings <- MCMaxPings
INVARIANTS
    OneFate
    LateRefused
    StopsReturned
CHECK_DEADLOCK FALSE
