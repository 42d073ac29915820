SPECIFICATION Spec
CONSTANTS
  c1 = c1
  c2 = c2
  NULL = NULL
  Tasks = {1, 2}
  Workers = {1, 2}
  Callers = {c1, c2}
  Budget = 2
  MustComplete = {}
  Delayed = {2}
  Retries <- NoRetries
  FixedWorkers = 1
  AutoLimit = 2
  Size = 1
  Finite = FALSE
  FailFirst = FALSE
  TimeoutKills = FALSE
  InitMayFail = TRUE
  Mine <- ServiceMine
  May <- ServiceMay
INVARIANTS
  OneOwner
  Accounting
  NoLostWakeup
  ClosedMeansDone
CHECK_DEADLOCK FALSE
