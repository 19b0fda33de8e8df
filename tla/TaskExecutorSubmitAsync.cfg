SPECIFICATION Spec
CONSTANTS
  Tasks = {1}
  Deps <- NoDeps
  MaxRetries <- NoRetry
  Workers = {w1}
  Cancellers = {}
  Outcomes <- Returns
  Async = {1}
  ThrowingCallback = {}
  StartLast = FALSE
  MayStop = FALSE
  NoTask = NoTask
  CounterMax = 15
INVARIANT InflightExact
