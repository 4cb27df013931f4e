SPECIFICATION Spec
CONSTANTS
  Loops = {l1, l2}
  Handlers = {h1, h2}
  Pipelines = {p1}
  Kinds = {"good", "bad", "text"}
  MaxCalls = 2
  MaxExecutions = 2
  MaxCrashes = 2
CHECK_DEADLOCK FALSE
SYMMETRY Symmetry
INVARIANTS ExperimentRestsOnKnowledge DanglingNeedsTwoWriters LineageIsWhole
PROPERTIES RestartForgetsNothing FirstResultStays
