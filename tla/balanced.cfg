SPECIFICATION MetricsFairSpec
CONSTANTS
  Jobs = {j1}
  Workers = {w1}
  Reapers = {r1}
  MaxRetries = 1
  MaxRecoveries = 1
  RedisErrors = FALSE
  Preempt = FALSE
  CrashPcs = {"mark_started", "save_processing", "count_attempt", "observe_wait", "generate", "handle_error"}
  NoClaim = NoClaim
  NoTask = NoTask
  Bounds = {}
  Durations = {1}
CHECK_DEADLOCK FALSE
PROPERTIES
  PagesBalance
