SPECIFICATION FairSpec
CONSTANTS
  Submitters = {c1}
  Waiters = {c2}
  Tasks = {t1}
  Names = {n1, n2}
  Local = local
  Nobody = nobody
  Capacity = 1
  Policies = {"RoundRobin", "LeastLoaded"}
  CallsBack = {n2}
  MaxObjects = 2
  MaxLoad = 1
  Stoppable = {n1}
INVARIANTS NobodyPassedOver BroadcastReachesAll WaitSound
PROPERTY MutexReleasedUnlessStuck
CHECK_DEADLOCK FALSE
