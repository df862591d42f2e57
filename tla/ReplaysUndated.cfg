SPECIFICATION ReplaySpec
CONSTANTS
    None = None
    Worlds <- UndatedWorlds
    PageSize = 2
    SeenLimit = 3
    MaxAttempts = 2
    MaxPages = 4
    MaxRecords = 4
    MaxEmptyPages = 3
INVARIANT CertifiedIsWhole
CHECK_DEADLOCK FALSE
