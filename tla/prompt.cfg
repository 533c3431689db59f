SPECIFICATION Spec
CONSTANTS
  Jobs = {j1}
  Workers = {w1, w2, w3}
  Reapers = {r1, r2}
  MaxRetries = 2
  MaxRecoveries = 2
  RedisErrors = TRUE
  Preempt = FALSE
  CrashPcs = {"mark_started", "save_processing", "count_attempt", "observe_wait", "generate", "count_completed", "handle_error", "count_retry", "count_failed", "count_dead", "record_duration"}
  NoClaim = NoClaim
  NoTask = NoTask
SYMMETRY Interchangeable
VIEW BehaviourOnly
CHECK_DEADLOCK FALSE
INVARIANTS
  SingleCopy
  OneExecutor
  SettledStatus
  ClaimedOrExecuted
