SPECIFICATION FairSpec
CONSTANTS
  Tasks = {1, 2}
  Deps <- Chain
  MaxRetries <- NoRetry
  Workers = {w1}
  Cancellers = {}
  Outcomes <- Returns
  Async = {}
  ThrowingCallback = {}
  StartLast = TRUE
  MayStop = FALSE
  NoTask = NoTask
  CounterMax = 15
PROPERTY SubmittedTasksFinishUnlessMissed
