SPECIFICATION MCSpec
CONSTANTS
    None = None
    Separators = {"-", "."}
    MaxCronJobName = 7
    MaxName = 9
    HashLength = 2
    ShortHash <- MCShortHash
    BackupWord <- MCBackup
    RestoreWord <- MCRestore
    SnapshotWord <- MCSnapshot
    CleanupWord <- MCCleanup
    DefaultName <- MCDefault
    MaxSegments = 5
    Others = {"_", "-", "."}
    UpperOf <- MCUpperOf
    SortedKeys <- MCSortedKeys
    Addons <- MCAddons
    Sources <- MCSources
    Storages <- MCStorages
    Retentions <- MCRetentions
    Endpoints = {}
    Deployed <- MCDeployed
    Editable <- MCEditable
    SpecsOf <- MCSpecsOf
    Runs <- MCRuns
    RetentionOf <- MCRetentionOf
    MaxRuns = 1
    MaxEdits = 2
INVARIANTS TypeOK RegisteredAsRun  ImportsStayInside RenderedAsAsked
PROPERTIES StatusFollows RunsRegistered
