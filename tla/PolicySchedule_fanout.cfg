SPECIFICATION FairSpec
CONSTANTS
  Storages = {a, b}
  Suspensions = {FALSE}
  Sources = {"running", "paused"}
  Keeps = {1, 2}
  MaxEdits = 2
  MaxFaults = 1
INVARIANTS TypeOK StatusAgrees
PROPERTIES OnlyUnwantedRemoved CronJobsFollow
