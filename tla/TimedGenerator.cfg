SPECIFICATION Spec
CONSTANTS
    NoValue = NoValue
    None = NoValue
    Timeouts <- MCTimeouts
    Inactivities <- MCInactivities
    MaxItems = 3
    Horizon = 2
INVARIANTS
    NoConcurrentClose
    DeadlineIsReal
    SummarySound
PROPERTIES
    StreamSpec
    ReadReturns
    SourceReleased
CHECK_DEADLOCK FALSE
