SPECIFICATION FairSpec
CONSTANTS
  c1 = c1
  c2 = c2
  NULL = NULL
  Tasks = {1}
  Workers = {1, 2}
  Callers = {c1}
  Budget = 1
  MustComplete = {1}
  Delayed = {1}
  Retries <- NoRetries
  FixedWorkers = 0
  AutoLimit = 2
  Size = 0
  Finite = TRUE
  FailFirst = FALSE
  TimeoutKills = FALSE
  InitMayFail = FALSE
  Mine <- AutoMine
  May <- AutoMay
PROPERTIES
  CallsReturn
CHECK_DEADLOCK FALSE
