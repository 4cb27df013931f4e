SPECIFICATION ImprovementSpec
CONSTANTS
  e1 = e1
  e2 = e2
  Executions = {e1, e2}
  Compositions <- MCCompositions
  ChangeSets <- MCChangeSets
  MaxFiles = 2
  MaxChanges = 1
CHECK_DEADLOCK FALSE
INVARIANTS AuditedIsWhole VerifiedIsEarned
