SPECIFICATION Spec
CONSTANTS
  a = a
  b = b
  c = c
  None = None
  NumThreads = 2
  Submitters = {s1, s2}
  Tasks = {a, b, c}
  Priority <- OneLevel
  LocalBound = 1
  GlobalBound = 1
  MayPause = TRUE
  MayShutdown = TRUE
SYMMETRY PoolSymmetry
INVARIANT StopsPromptly
PROPERTY BagSpec
CHECK_DEADLOCK FALSE
