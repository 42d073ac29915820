SPECIFICATION Spec
CONSTANTS
  a = a
  b = b
  NULL = NULL
  Boss = Boss
  Tasks = {a, b}
  Workers = {w}
  Threads = {w, Boss}
  Order <- InOrder
  Ways = {"group", "iter"}
  Patience = FALSE
  MustComplete = {b}
  Retries <- NoRetries
  FailFirst = TRUE
  Timed = {}
  Acts <- KillActs
  Asks = {}
  Budget = 0
  InitMayFail = {}
  Setups <- KillSetups
INVARIANTS
  MustCompleteSurvives
CHECK_DEADLOCK FALSE
