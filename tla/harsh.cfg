SPECIFICATION Spec
CONSTANTS
  Jobs = {j1}
  Workers = {w1, w2}
  Reapers = {r1}
  MaxRetries = 1
  MaxRecoveries = 1
  RedisErrors = TRUE
  Preempt = TRUE
  CrashPcs = {"record_claim", "mark_started", "save_processing", "count_attempt", "observe_wait", "generate", "count_completed", "handle_error", "count_retry", "count_failed", "count_dead", "record_duration"}
  NoClaim = NoClaim
  NoTask = NoTask
SYMMETRY Interchangeable
VIEW BehaviourOnly
CHECK_DEADLOCK FALSE
INVARIANTS
  TypeOK
  NoJobLost
  PayloadsDistinct
  BudgetRespected
  PayloadsKnown
  StatusBacked
PROPERTIES
  ImplementsAtLeastOnce
