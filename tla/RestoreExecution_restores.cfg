SPECIFICATION Spec
CONSTANTS
  RestoreJobs = {s}
  NotifyJobs = {s}
  EditedJobs = {}
  Pruned = TRUE
  MaxExpiries = 1
  MaxFaults = 1
INVARIANTS TypeOK EventsTellOutcomes
PROPERTIES ImplementsContract ImportOutcomeFinal
