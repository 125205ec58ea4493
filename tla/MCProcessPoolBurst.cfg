SPECIFICATION FairSpec
CONSTANTS
    N = 2
    PipeCap = 3
    EarlyDeath = FALSE
    MaxConns = 3
    MaxCrashes = 0
CHECK_DEADLOCK FALSE
PROPERTY AllAccepted
