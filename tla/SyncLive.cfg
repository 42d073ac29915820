SPECIFICATION FairSpec
CONSTANTS
  c1 = c1
  c2 = c2
  NULL = NULL
  Tasks = {1, 2}
  Workers = {1, 2}
  Callers = {c1}
  Budget = 2
  MustComplete = {2}
  Delayed = {2}
  Retries <- NoRetries
  FixedWorkers = 2
  AutoLimit = 2
  Size = 0
  Finite = TRUE
  FailFirst = TRUE
  TimeoutKills = FALSE
  InitMayFail = FALSE
  Mine <- LiveMine
  May <- LiveMay
INVARIANTS
  TimerCovers
PROPERTIES
  CallsReturn
  TasksFinish
CHECK_DEADLOCK FALSE
