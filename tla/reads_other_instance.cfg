CONSTANTS
  app = app  app2 = app2
  Instance = {app, app2}
  Lock <- Locks
  NoPid = 0  NoTime = NoTime
  Minutes = 1  LIMIT = 3
  Lag = 1
  MaxTime = 3  MaxTaken = 2
SPECIFICATION Spec
INVARIANT TreeOfInstance
CHECK_DEADLOCK FALSE
