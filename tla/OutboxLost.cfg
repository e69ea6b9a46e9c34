SPECIFICATION Spec
CONSTANTS
  q1 = q1
  q2 = q2
  r1 = r1
  r2 = r2
  Requests = {q1, q2}
  Replicas = {r1, r2}
  Home <- MCHome
  OnceTopics = {}
  UpdateTopics = {u1}
  MaxRows = 2
  MaxAttempts = 1
  BatchSize = 1
  MaxBatches = 1
  MaxBatchOps = 1
  MaxCrashes = 1
  Environment <- TimelyFaults
  NoRequest = NoRequest
  NoReplica = NoReplica
  NoTopic = NoTopic
INVARIANT UpdateEventNeverLost
