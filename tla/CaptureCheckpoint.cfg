SPECIFICATION MCSpec
CONSTANTS
    None = None
    Absent = Absent
    Torn = Torn
    Events <- MCEvents
    Offset <- MCOffset
    Identity <- MCIdentity
    PaidKey <- MCPaidKey
    Orders <- MCOrders
    Limits <- MCLimits
    BoundaryLimits <- MCBoundaryLimits
    MaxRuns = 3
    Sites = {twitch, youtube}
    CookieNames = {cookie}
    MaxSessions = 3
    MaxCookies = 3
    MaxChats = 2
    Names <- MCNames
    Titles <- MCTitles
    OutputLists <- MCOutputLists
    Leftovers <- MCLeftovers
    MaxFileRuns = 2
    MaxLines = 3
    Captures <- MCCaptures
    SeenEvents = 1
    Messages <- MCMessages
    CacheLimit = 2
    CacheBytes = 3
    MostMessages = 4
    Offers <- MCOffers
    Feeds = {"chat"}
    Terms <- MCTerms
    NoLease <- MCNoLease
    AckTimeout = 4
    DefaultBeat = 7
    Grace = 2
    PingEvery = 3
    IdleTimeout = 7
    Latency = 1
    TokenTime = 1
    MaxHolds = 1
    MaxWire = 2
    MaxFaults = 1
    KnownKinds = {"text", "event"}
    NoId = NoId
    Setups <- MCSetups
    Feed <- MCFeed
    MaxEvents = 2
INVARIANTS
    ResumePointSound
    FormattedFollowsRaw
    RolledBackRunResumes
    CompletedIsWhole
    PoolSound
    OutputsSound
    AuditIsExact
    CacheInStep
    LinkSound
    VerdictSound
PROPERTY
    CheckpointGrows
CHECK_DEADLOCK FALSE
