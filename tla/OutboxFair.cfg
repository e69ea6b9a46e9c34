SPECIFICATION FairSpec
CONSTANTS
  q1 = q1
  q2 = q2
  r1 = r1
  r2 = r2
  Requests = {q1}
  Replicas = {r1, r2}
  Home <- MCHome
  OnceTopics = {t1, t2}
  UpdateTopics = {}
  MaxRows = 2
  MaxAttempts = 2
  BatchSize = 1
  MaxBatches = 2
  MaxBatchOps = 1
  MaxCrashes = 1
  Environment <- FairFaults
  NoRequest = NoRequest
  NoReplica = NoReplica
  NoTopic = NoTopic
INVARIANT SweepTakesCasualties
INVARIANT OneSweeper
PROPERTY MarkedOrExhausted
