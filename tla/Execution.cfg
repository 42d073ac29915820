SPECIFICATION FairSpec
CONSTANTS
  a = a
  b = b
  NULL = NULL
  Boss = Boss
  Tasks = {a, b}
  Workers = {w}
  Threads = {w, Boss}
  Order <- InOrder
  Ways = {"group", "iter"}
  Patience = TRUE
  MustComplete = {a}
  Retries <- RunRetries
  FailFirst = TRUE
  Timed = {a}
  Acts <- RunActs
  Asks = {a, "kill"}
  Budget = 1
  InitMayFail = {b}
  Setups <- RunSetups
INVARIANTS
  TypeOK
  InterruptReaches
  OwnReply
  ProcessOwned
  HandlesOnce
PROPERTIES
  AttemptsEnd
  ClientServed
CHECK_DEADLOCK FALSE
