SPECIFICATION ApiFairSpec
CONSTANTS
  Jobs = {j1}
  Workers = {w1}
  Reapers = {r1}
  MaxRetries = 1
  MaxRecoveries = 1
  RedisErrors = TRUE
  Preempt = FALSE
  CrashPcs = {"mark_started", "save_processing", "count_attempt", "observe_wait", "generate", "count_completed", "handle_error", "count_retry", "count_failed", "count_dead", "record_duration"}
  NoClaim = NoClaim
  NoTask = NoTask
  Polled = {j1}
  KeysExpire = FALSE
CHECK_DEADLOCK FALSE
PROPERTIES
  SettlesForGood
  ClientConcludes
