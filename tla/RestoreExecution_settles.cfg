SPECIFICATION FairSpec
CONSTANTS
  RestoreJobs = {s}
  NotifyJobs = {s}
  EditedJobs = {s}
  Pruned = FALSE
  MaxExpiries = 0
  MaxFaults = 1
PROPERTIES StartsWhenReady OutcomeReported
