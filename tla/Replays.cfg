SPECIFICATION ReplaySpec
CONSTANTS
    None = None
    Worlds <- MCWorlds
    PageSize = 2
    SeenLimit = 3
    MaxAttempts = 2
    MaxPages = 4
    MaxRecords = 4
    MaxEmptyPages = 3
INVARIANTS BackfillIsWhole RightSource LedgerSound
PROPERTIES KeepsPromise EveryReplayEnds
CHECK_DEADLOCK FALSE
