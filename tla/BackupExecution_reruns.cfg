SPECIFICATION Spec
CONSTANTS
    Jobs = {j1}
    NotifyJobs = {j1}
    EditedJobs = {}
    MaxExpiries = 1
    MaxFaults = 1
INVARIANTS
    TypeOK
    SnapshotIsReal
PROPERTY
    ImplementsContract
