SPECIFICATION Spec
CONSTANTS
    NoValue = NoValue
    None = NoValue
    Timeouts <- MCTimeouts
    Inactivities <- MCInactivities
    MaxItems = 1
    Horizon = 2
PROPERTY
    CloseStopsWorker
CHECK_DEADLOCK FALSE
