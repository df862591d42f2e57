SPECIFICATION Spec
CONSTANTS
    None = None
    PaidLimit = 2
    AutoFallback = TRUE
    MaxAttempts = 2
    MaxNoProgressPolls = 2
    MaxProfileFallbacks = 3
    Pages <- MCPages
    Requests <- MCRequests
    FirstProfiles <- MCProfiles
INVARIANTS EndedIsWhole OneFingerprint TickerDetails
PROPERTIES NoRestart EveryRetrievalEnds
