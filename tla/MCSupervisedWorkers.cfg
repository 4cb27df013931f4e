SPECIFICATION SupervisedSpec
CONSTANTS
  Jobs = {j1}
  Workers = {p1, p2, p3}
  NoWorker = NoWorker
  NoJob = NoJob
  LeaseTicks = 1
  MaxAttempts = 3
  WorkerAttempts = 3
CHECK_DEADLOCK FALSE
SYMMETRY Symmetry
INVARIANTS FailedOnlyWhenSpent
PROPERTIES ImplementsLifecycle OwnAttemptOnly
