SPECIFICATION FairSpec
CONSTANTS
    Requests = {"r1", "r2"}
    Keys = {"a"}
    KeyOf <- OneHost
    Secure = {"a"}
    ViaProxy = {"a"}
    KeepAlives = TRUE
    MaxIdle = 1
    Bodies = {"none", "full", "cut"}
    MayAct = {"unasked", "hangup", "closeidle"}
INVARIANTS
    OneUser
    AnswerIsMine
    StopsAnswered
PROPERTIES
    AnsweredUnlessLoopEnded
CHECK_DEADLOCK FALSE
