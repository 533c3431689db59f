SPECIFICATION FairSpec
CONSTANTS
  Jobs = {j1}
  Workers = {w1}
  Reapers = {r1}
  MaxRetries = 2
  MaxRecoveries = 2
  RedisErrors = FALSE
  Preempt = FALSE
  CrashPcs = {"record_claim"}
  NoClaim = NoClaim
  NoTask = NoTask
CHECK_DEADLOCK FALSE
PROPERTIES
  NoStuckProcessing
