SPECIFICATION RestoreSpec
CONSTANTS
    MaxRuns = 3
    KeepLast = 2
    MaxFaults = 1
CHECK_DEADLOCK FALSE
INVARIANTS
    TypeOK
    ReferencedIsWhole
    CleanedIsGone
    RestoreFindsWhole
PROPERTY ImplementsStore
