SPECIFICATION FairSpec
CONSTANTS
    Runs = {1, 2}
    ManualRuns = {}
    Unwanted = {}
    KeepLast = 1
    Backend = "nfs"
    Concurrency = "Forbid"
    Reborn = {}
    MaxBirths = 2
    MaxFaults = 1
CHECK_DEADLOCK FALSE
INVARIANT
    CleanedUp
PROPERTIES
    DeletionCompletes
    RegistrationCompletes
