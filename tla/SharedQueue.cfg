SPECIFICATION FairSpec
CONSTANTS
  a = a
  b = b
  v = v
  w = w
  home = home
  away = away
  NULL = NULL
  Tasks = {a, b}
  Waiters = {v, w}
  For <- SharedFor
  Where <- SharedWhere
  Loops = {home, away}
  Home = home
INVARIANTS
  TypeOK
  HonestAnswer
  WaiterReached
PROPERTIES
  EveryoneReturns
CHECK_DEADLOCK FALSE
