SPECIFICATION ApiSpec
CONSTANTS
  Jobs = {j1, j2}
  Workers = {w1, w2}
  Reapers = {r1}
  MaxRetries = 0
  MaxRecoveries = 1
  RedisErrors = FALSE
  Preempt = FALSE
  CrashPcs = {"record_claim", "mark_started", "save_processing", "count_attempt", "observe_wait", "generate", "count_completed", "handle_error", "count_retry", "count_failed", "count_dead", "record_duration"}
  NoClaim = NoClaim
  NoTask = NoTask
  Polled = {j1}
  KeysExpire = TRUE
SYMMETRY Interchangeable
VIEW ClientToo
CHECK_DEADLOCK FALSE
PROPERTIES
  ImplementsJobLease
  CompletedStays
  ImplementsPolledJob
