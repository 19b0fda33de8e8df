SPECIFICATION Spec
CONSTANTS
  Tasks = {1, 2}
  Deps <- Chain
  MaxRetries <- RetryFirst
  Workers = {w1, w2}
  Cancellers = {k}
  Outcomes <- FirstFails
  Async = {}
  ThrowingCallback = {}
  StartLast = TRUE
  MayStop = FALSE
  NoTask = NoTask
  CounterMax = 15
SYMMETRY WorkerSymmetry
INVARIANTS TypeOK NoConcurrentRun InflightExact RetriesWithinBudget
