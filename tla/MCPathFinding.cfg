SPECIFICATION PlannerSpec
CONSTANTS
  Nodes = {n1, n2, n3, n4}
  Links <- MCLinks
  Costs = {0, 1, 3}
  Heuristics = {0, 2}
  OldPaths <- MCOldPaths
  None = None
  PreSteps = {0, 1, 5}
SYMMETRY Symmetry
INVARIANTS
  PlannerTypeOK
  NotFoundIsUnreachable
  FoundIsShortest
  AnswersHold
PROPERTIES
  PathArrives
  EveryStepIsCloser
