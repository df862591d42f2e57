SPECIFICATION MCSpec
CONSTANTS
    Ids = {a, b}
    NoId = NoId
    Wanted = {a, NoId}
    SeenLimit = 1
    MaxAttempts = 2
    PingEvery = 1
    Idle = 3
    ReceiveTimeout = 1
    Answer = 0
    MaxLines = 3
    MaxDrops = 2
    BufferLimit = 7
    MaxSent = 3
INVARIANTS NoEarlyRepeat OneSocket ChunksDoNotMatter
PROPERTIES IdleMeansDead StopEnds DeadLinkLeft
