SPECIFICATION Spec
CONSTANTS
  Processes = {p1, p2}
  Experiments = {e1}
  Kinds = {"good", "bad", "other"}
  MaxJobs = 2
  Nothing = Nothing
  MaxAttempts = 2
  MaxCrashes = 1
CHECK_DEADLOCK FALSE
SYMMETRY Symmetry
INVARIANTS ResultIsMeasured OpportunityIsEarned ClosedCycleIsDecided
