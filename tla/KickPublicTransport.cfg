SPECIFICATION Spec
CONSTANTS
    NumFeeds = 2
    MaxFrames <- MCMaxFrames
    QueueSize = 1
    MaxPolls = 1
    MaxChanged = 1
CHECK_DEADLOCK FALSE
INVARIANTS
    ErrorsReported
    SessionOwned
PROPERTIES
    FeedSpec
    ReconnectEnds
    ClosedReleases
