SPECIFICATION FairSpec
CONSTANTS
  Tasks = {1, 2, 3}
  Deps <- Diamond
  MaxRetries <- NoRetry
  Workers = {w1}
  Cancellers = {}
  Outcomes <- MayThrow
  Async = {}
  ThrowingCallback = {}
  StartLast = TRUE
  MayStop = FALSE
  NoTask = NoTask
  CounterMax = 15
INVARIANTS DependencyOrder ExactlyOnce WaitSound
PROPERTY ReadyTasksFinishUnlessMissed
