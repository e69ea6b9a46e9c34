SPECIFICATION FairSpec
CONSTANTS
  j1 = j1
  b1 = b1
  b2 = b2
  Nightly = Nightly
  nightly = nightly
  weekly = weekly
  full = full
  CronJobs = {j1}
  BackupJobs = {b1, b2}
  Schedules <- MCSchedules
  RetryCount = 1
  Name <- MCName
  Scope <- MCScope
  Folded <- MCFolded
  Limit = 1
  Workers = {w1}
  RunRequests = {}
  MaxTime = 2
  MaxRuns = 2
  MaxFaults = 1
  Environment <- Faults
  NoJob = NoJob
INVARIANT DumpIsOwn
PROPERTY DueJobMovesOn
CHECK_DEADLOCK FALSE
