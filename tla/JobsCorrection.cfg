SPECIFICATION Spec
CONSTANTS
  j1 = j1
  b1 = b1
  b2 = b2
  Nightly = Nightly
  nightly = nightly
  weekly = weekly
  full = full
  CronJobs = {j1}
  BackupJobs = {}
  Schedules <- MCSchedules
  RetryCount = 1
  Name <- MCName
  Scope <- MCScope
  Folded <- MCFolded
  Limit = 1
  Workers = {w1}
  RunRequests = {}
  MaxTime = 3
  MaxRuns = 3
  MaxFaults = 1
  Environment <- NoFaults
  NoJob = NoJob
INVARIANT CorrectionHolds
CHECK_DEADLOCK FALSE
