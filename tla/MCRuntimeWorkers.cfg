SPECIFICATION FairSpec
CONSTANTS
  Jobs = {j1, j2}
  Workers = {w1, w2}
  NoWorker = NoWorker
  NoJob = NoJob
  LeaseTicks = 1
  MaxAttempts = 2
  RecoverLimit = 2
  MaxCrashes = 1
CHECK_DEADLOCK FALSE
INVARIANTS RunningIsAttended BudgetIsKept NoInventedSuccess AuditedCompletionIsDurable
PROPERTIES ImplementsStore JobsSettle
