SPECIFICATION Spec
CONSTANTS
    PublicEvents = TRUE
    Skew <- MCBehind
    Window = 1
    MaxAttempts = 2
    MaxMessages = 1
    MaxEvents = 1
    MaxDrops = 2
    Horizon = 2
    None = None
PROPERTIES RecoversFromSeen StopEnds
