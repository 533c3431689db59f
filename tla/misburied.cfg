SPECIFICATION Spec
CONSTANTS
  Jobs = {j1}
  Workers = {w1}
  Reapers = {r1}
  MaxRetries = 2
  MaxRecoveries = 2
  RedisErrors = TRUE
  Preempt = FALSE
  CrashPcs = {}
  NoClaim = NoClaim
  NoTask = NoTask
CHECK_DEADLOCK FALSE
INVARIANTS
  DeadLettersFailed
