SPECIFICATION Spec
CONSTANTS
  q1 = q1
  q2 = q2
  r1 = r1
  r2 = r2
  Requests = {q1}
  Replicas = {r1}
  Home <- OneHome
  OnceTopics = {t1}
  UpdateTopics = {}
  MaxRows = 1
  MaxAttempts = 1
  BatchSize = 1
  MaxBatches = 1
  MaxBatchOps = 1
  MaxCrashes = 0
  Environment <- EnqueueFailsOnly
  NoRequest = NoRequest
  NoReplica = NoReplica
  NoTopic = NoTopic
INVARIANT WebhooksNeverLost
