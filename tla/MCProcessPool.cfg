SPECIFICATION FairSpec
CONSTANTS
    N = 2
    PipeCap = 2
    EarlyDeath = FALSE
    MaxConns = 3
    MaxCrashes = 2
CHECK_DEADLOCK FALSE
INVARIANTS TypeOK ToldOnlyOfConnections NoLostChild NoOrphans
PROPERTIES ShutdownCompletes ExitsWithChildren
