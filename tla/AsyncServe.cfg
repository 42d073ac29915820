SPECIFICATION FairSpec
CONSTANTS
  t1 = t1
  t2 = t2
  c1 = c1
  c2 = c2
  Tasks = {t1, t2}
  Callers = {c1, c2}
  MustComplete = {t1}
  MaxWorkers = 3
  AutoLimit = 2
  Timed = TRUE
  Submitters <- ServeSubmitters
  Retries <- ServeRetries
  Program <- ServeProgram
  Scheduled = {t2}
  RetryDelay = FALSE
  Rated = TRUE
  Fixed = 0
  Size = 1
  Mode = "infinite"
  FailFirst = FALSE
  TimeoutKills = TRUE
  Threaded = {t1}
INVARIANTS
  TypeOK
  NoLostWakeup
  Covers
  ClosedMeansDone
PROPERTIES
  CallsReturn
  NoneLeftOut
CHECK_DEADLOCK FALSE
