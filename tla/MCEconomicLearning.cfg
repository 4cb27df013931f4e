SPECIFICATION FairSpec
CONSTANTS
  Refs = {r1}
  Facts = {f1, f2}
  NoFacts = NoFacts
  Requests = {q1, q2}
  Cycles = {c1, c2, c3}
  MaxAttempts = 2
  MaxJobsPerTick = 2
  MaxFaults = 1
  MaxCrashes = 1
CHECK_DEADLOCK FALSE
INVARIANTS LearnedOnce
PROPERTIES OutcomesAreLearned
