SPECIFICATION Spec
CONSTANTS
    Runs = {1, 2}
    ManualRuns = {2}
    Unwanted = {1}
    KeepLast = 1
    Backend = "nfs"
    Concurrency = "Forbid"
    Reborn = {1}
    MaxBirths = 2
    MaxFaults = 0
CHECK_DEADLOCK FALSE
INVARIANTS
    TypeOK
    CleanupSparesLive
    SeriesBounded
