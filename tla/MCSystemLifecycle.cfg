SPECIFICATION LifecycleFairSpec
CONSTANTS
  t1 = t1
  t2 = t2
  Threads = {t1, t2}
  Lifespan = Lifespan
  NoThread = NoThread
  MaxJobsPerTick = 2
  MaxPeriods = 2
  MaxPending = 1
  MaxFaults = 1
CHECK_DEADLOCK FALSE
INVARIANTS DueIsQueuedOnce LateWorkIsBounded
PROPERTIES StoppedGoesQuiet
