SPECIFICATION FairSpec
CONSTANTS
  Tasks = {1}
  Deps <- NoDeps
  MaxRetries <- OneRetry
  Workers = {w1}
  Cancellers = {k}
  Outcomes <- MayThrow
  Async = {1}
  ThrowingCallback = {}
  StartLast = FALSE
  MayStop = TRUE
  NoTask = NoTask
  CounterMax = 15
INVARIANTS TerminatesOnlyAfterStop ClaimsExclusive EntriesPending
PROPERTIES SubmittedTasksFinishUnlessMissed FuturesResolveUnlessMissed StopReturnsUnlessMissed
CHECK_DEADLOCK FALSE
