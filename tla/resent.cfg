SPECIFICATION ResendSpec
CONSTANTS
  Jobs = {j1}
  Workers = {w1, w2}
  Reapers = {r1, r2}
  MaxRetries = 1
  MaxRecoveries = 0
  RedisErrors = FALSE
  Preempt = FALSE
  CrashPcs = {"record_claim", "mark_started", "save_processing", "count_attempt", "observe_wait", "generate", "count_completed", "handle_error", "count_retry", "count_failed", "count_dead", "record_duration"}
  NoClaim = NoClaim
  NoTask = NoTask
  MaxResends = 2
  NoCommand = NoCommand
SYMMETRY Interchangeable
VIEW ResendBehaviour
CHECK_DEADLOCK FALSE
INVARIANTS
  BudgetRespected
  CopiesBounded
PROPERTIES
  ImplementsAtLeastOnce
