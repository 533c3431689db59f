SPECIFICATION ApiFairSpec
CONSTANTS
  Jobs = {j1}
  Workers = {w1, w2}
  Reapers = {r1}
  MaxRetries = 0
  MaxRecoveries = 1
  RedisErrors = FALSE
  Preempt = TRUE
  CrashPcs = {}
  NoClaim = NoClaim
  NoTask = NoTask
  Polled = {j1}
  KeysExpire = FALSE
CHECK_DEADLOCK FALSE
PROPERTIES
  Drains
  AnswersBacked
