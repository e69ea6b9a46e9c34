SPECIFICATION Spec
CONSTANTS
  q1 = q1
  q2 = q2
  r1 = r1
  r2 = r2
  Requests = {q1}
  Replicas = {r1, r2}
  Home <- OneHome
  OnceTopics = {t1}
  UpdateTopics = {u1}
  MaxRows = 2
  MaxAttempts = 2
  BatchSize = 1
  MaxBatches = 2
  MaxBatchOps = 2
  MaxCrashes = 1
  Environment <- SweepFaults
  NoRequest = NoRequest
  NoReplica = NoReplica
  NoTopic = NoTopic
INVARIANT TypeOK
INVARIANT NoRetryWithinSweep
