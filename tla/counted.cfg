SPECIFICATION MetricsSpec
CONSTANTS
  Jobs = {j1}
  Workers = {w1, w2}
  Reapers = {r1}
  MaxRetries = 0
  MaxRecoveries = 1
  RedisErrors = TRUE
  Preempt = FALSE
  CrashPcs = {"record_claim", "mark_started", "save_processing", "count_attempt", "observe_wait", "generate", "count_completed", "handle_error", "count_retry", "count_failed", "count_dead", "record_duration"}
  NoClaim = NoClaim
  NoTask = NoTask
  Bounds = {1, 2}
  Durations = {1, 2, 3}
SYMMETRY Interchangeable
VIEW MetricsBehaviour
CHECK_DEADLOCK FALSE
INVARIANTS
  CountersLag
  WorkBounded
  DeadLettersShown
  BucketsCumulative
