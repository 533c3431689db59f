SPECIFICATION DurableFairSpec
CONSTANTS
  Jobs = {j1}
  Workers = {w1, w2}
  Reapers = {r1}
  MaxRetries = 1
  MaxRecoveries = 0
  RedisErrors = FALSE
  Preempt = FALSE
  CrashPcs = {}
  NoClaim = NoClaim
  NoTask = NoTask
  MaxRestarts = 1
  SyncsInWindow = FALSE
CHECK_DEADLOCK FALSE
INVARIANTS
  SyncedJobsKept
  SyncedStatusBacked
PROPERTIES
  SyncedJobsSettle
