SPECIFICATION FairSpec
CONSTANTS
    Jobs = {j1}
    NotifyJobs = {j1}
    EditedJobs = {j1}
    MaxExpiries = 0
    MaxFaults = 1
INVARIANT
    SnapshotRefResolves
PROPERTIES
    CompletionReported
