SPECIFICATION Spec
CONSTANTS
  Jobs = {j1}
  Workers = {w1, w2}
  NoWorker = NoWorker
  NoJob = NoJob
  LeaseTicks = 1
  ClaimLimit = 2
  RecoverLimit = 2
  AllowForce = FALSE
CHECK_DEADLOCK FALSE
PROPERTIES RecoveryInventsNoSuccess
