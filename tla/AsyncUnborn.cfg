SPECIFICATION Spec
CONSTANTS
  t1 = t1
  t2 = t2
  c1 = c1
  c2 = c2
  Tasks = {t1, t2}
  Callers = {c1, c2}
  MustComplete = {t1}
  MaxWorkers = 3
  AutoLimit = 2
  Timed = TRUE
  Submitters <- FiniteSubmitters
  Retries <- FiniteRetries
  Program <- FiniteProgram
  Scheduled = {}
  RetryDelay = TRUE
  Rated = FALSE
  Fixed = 2
  Size = 0
  Mode = "finite"
  FailFirst = TRUE
  TimeoutKills = FALSE
  Threaded = {}
INVARIANTS
  AlwaysRecords
CHECK_DEADLOCK FALSE
