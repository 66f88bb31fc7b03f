CONSTANTS
    N = 2
    Ids = {1, 2, 3}
    Ctimes = {1, 2, 3}
    Root = 1
    Parent <- MCParent
    MaxClock = 3
    SinkSize = 1
    HasMonitor = TRUE
SPECIFICATION Spec
INVARIANTS
    TypeOK
    
    WatchCoverage
PROPERTIES
    WalkTerminates
    
