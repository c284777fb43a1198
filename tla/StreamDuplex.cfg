SPECIFICATION Spec
CONSTANTS
    Window = 1
    MaxWindow <- Max2
    Readers <- OneReaderEach
    Total <- Write2And1
    Deadlines = FALSE
    CloseRaces = FALSE
    MayReject = FALSE
    Closers = {}
INVARIANTS
    FlowAccounts
    HalfCloseOnce
    NoFlagError
PROPERTIES
    WindowErrorOnlyInGap
    ImplementsResponsePipe
CHECK_DEADLOCK FALSE
