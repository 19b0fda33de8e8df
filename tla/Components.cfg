SPECIFICATION Spec
CONSTANTS
  Tasks = {t1, t2, t3}
  MaxRetries <- NoRetries
  MaxEdges = 2
  Recorders = {1, 2}
  Times = {1, 2}
  MaxRounds <- TwoAndOne
  CounterMax = 7
  Horizon = 8
  Categories = {1}
  Limits <- SomeLimits
  DefaultLimit <- SlowLimit
  Keys = {1, 2}
  Results = {a, b}
  Ttls = {0, 2}
  None = None
SYMMETRY TaskSymmetry
INVARIANTS EdgesMirror ReadyMeansDone OrdersSound MonitorExact RateKept AtLeastHalfRate
PROPERTIES CountersAtomic ExpiringMapSpec
CHECK_DEADLOCK FALSE
