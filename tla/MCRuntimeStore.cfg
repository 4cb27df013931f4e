SPECIFICATION Spec
CONSTANTS
  Jobs = {j1, j2}
  Workers = {w1, w2}
  NoWorker = NoWorker
  NoJob = NoJob
  LeaseTicks = 1
  ClaimLimit = 2
  RecoverLimit = 2
  AllowForce = FALSE
CHECK_DEADLOCK FALSE
SYMMETRY Symmetry
INVARIANTS TypeOK TerminalHasResult CredentialsAreExclusive
PROPERTIES LeaseProtectsOwner ImplementsLifecycle
