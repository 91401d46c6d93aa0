SPECIFICATION MCFairSpec
CONSTANTS
  w1 = w1
  w2 = w2
  Workers = {w1, w2}
  Jobs = {1, 2}
  Shards = 2
  ShardOf <- SecondQueue
  Count <- Counts
  Needs <- References
  FailOn <- Limits
  Corrupt = {}
  Calls = {"process", "purge"}
  Faults = {"throw", "crash", "lost", "paused"}
  Lease = 2
  Backoff = 1
  MaxRows = 2
INVARIANTS
  TypeOK
  OutcomesNumbered
PROPERTIES
  RefinesProgress
  LeaseRespected
  QueueServed
