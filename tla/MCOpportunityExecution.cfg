SPECIFICATION Spec
CONSTANTS
  Threads = {t1, t2}
  cheap = cheap
  dear = dear
  report = report
  payment = payment
  Requests = {cheap, dear, report, payment}
  Action <- MCAction
  Autonomy <- MCAutonomy
  Amount <- MCAmount
  Cost <- MCCost
  MaxCost = 2
  Budgeted = {cheap, dear}
  OutOfScope = {}
  Limit = 3
  Threshold = 2
  MaxInputs = 6
  None = None
  Opportunities = {o1}
  Claims = {demand}
  Qualities = {4, 9}
  Earnings = {0, 1}
  MaxEvidence = 2
  MaxSources = 2
  MaxRevenue = 2
CHECK_DEADLOCK FALSE
SYMMETRY Symmetry
INVARIANTS FailuresAreBounded OverspendIsBounded ApprovalsAreBounded ActiveHasRevenue
PROPERTIES OnlySupportQualifies
