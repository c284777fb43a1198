CONSTANTS
    HttpsHandlers <- MCHttpsHandlers
    ReqHandlers <- MCReqHandlers
    RespHandlers <- MCRespHandlers
    Kinds = {"get", "edit", "canned", "relative"}
    Upstream = TRUE
    Window = 1
    MaxItems = 3
SPECIFICATION FairSpec
CHECK_DEADLOCK FALSE
INVARIANTS
    AnswersInOrder
    ForwardedOnce
    TunnelInOrder
    StopsSettled
PROPERTIES
    TunnelReleased
