SPECIFICATION Spec
CONSTANTS
  c1 = c1
  c2 = c2
  NULL = NULL
  Tasks = {1, 2}
  Workers = {1, 2, 3}
  Callers = {c1, c2}
  Budget = 1
  MustComplete = {2}
  Delayed = {}
  Retries <- RetrySecond
  FixedWorkers = 2
  AutoLimit = 2
  Size = 0
  Finite = TRUE
  FailFirst = TRUE
  TimeoutKills = FALSE
  InitMayFail = FALSE
  Mine <- RunMine
  May <- RunMay
INVARIANTS
  IInv
  StopHandshake
  WorkerLimit
PROPERTIES
  LifecycleSpec
  MustCompleteSpared
CHECK_DEADLOCK FALSE
