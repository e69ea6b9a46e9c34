SPECIFICATION FairSpec
CONSTANTS
  h1 = h1
  h2 = h2
  e1 = e1
  c1 = c1
  Hooks = {h1, h2}
  Matches <- MCMatches
  Unreadable = {h2}
  MaxAttempts = 3
  Calls = {c1}
  EventOf <- OneEvent
  MaxDeliveries = 2
  Replicas = {r1, r2}
  BatchSize = 2
  MaxLost = 1
  Environment <- Faults
  NoHook = NoHook
  NoCall = NoCall
INVARIANTS TypeOK EnqueueComplete AttemptsCountSends
PROPERTY Settles
