SPECIFICATION Spec
CONSTANTS
    Runs = {1, 2}
    ManualRuns = {}
    Unwanted = {}
    KeepLast = 1
    Backend = "nfs"
    Concurrency = "Forbid"
    Reborn = {1, 2}
    MaxBirths = 2
    MaxFaults = 2
CHECK_DEADLOCK FALSE
INVARIANT
    LayersAgree
