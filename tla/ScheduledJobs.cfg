SPECIFICATION Spec
CONSTANTS
  j1 = j1
  b1 = b1
  b2 = b2
  Nightly = Nightly
  nightly = nightly
  weekly = weekly
  full = full
  CronJobs = {j1}
  BackupJobs = {}
  Schedules <- MCIntervals
  RetryCount = 1
  Name <- MCName
  Scope <- MCScope
  Folded <- MCFolded
  Limit = 1
  Workers = {w1, w2}
  RunRequests = {q1}
  MaxTime = 3
  MaxRuns = 2
  MaxFaults = 1
  Environment <- Faults
  NoJob = NoJob
INVARIANTS TypeOK RunningIsExecuted  ScheduleKept
PROPERTY NeverMovedBack
CHECK_DEADLOCK FALSE
