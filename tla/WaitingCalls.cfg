SPECIFICATION PartsSpec
CONSTANTS
  Ids = {1, 2}
  Interval <- FirstPeriodic
  Delays = {1, 2}
  Horizon = 4
  None = None
  NumThreads = 2
  Submitters = {s1}
  PoolTasks = {a}
  LocalBound = 1
  GlobalBound = 1
  MayPause = TRUE
  MayShutdown = TRUE
  Members = {1, 2, 3}
  Clients = {k}
  GroupWorkers = {w}
  Calling = {1}
  Room = 1
  Free = Free
INVARIANTS OnePlace CancelIsFinal
PROPERTIES NoBursts  StopReturnsUnlessMissed QueuedTasksRun ShutdownReturnsUnlessMissed GroupMutexReleased
CHECK_DEADLOCK FALSE
