SPECIFICATION Spec
CONSTANTS
    Size = 3
    SourceLength = 7
    MaxRead = 3
    ForgetBehind = FALSE
INVARIANTS
    OverflowExact
PROPERTIES
    ImplementsReplay
CHECK_DEADLOCK FALSE
