SPECIFICATION Spec
CONSTANTS
    Requests = {"r1", "r2"}
    Keys = {"a"}
    KeyOf <- OneHost
    Secure = {"a"}
    ViaProxy = {"a"}
    KeepAlives = TRUE
    MaxIdle = 1
    Bodies = {"full"}
    MayAct = {}
INVARIANTS
    CallbackOnce
CHECK_DEADLOCK FALSE
