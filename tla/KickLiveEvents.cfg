SPECIFICATION Spec
CONSTANTS
    PublicEvents = TRUE
    Skew <- MCInStep
    Window = 10
    MaxAttempts = 2
    MaxMessages = 2
    MaxEvents = 1
    MaxDrops = 2
    Horizon = 3
    None = None
INVARIANT OutagesRecoveredOrCounted
