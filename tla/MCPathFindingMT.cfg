SPECIFICATION PlannerSpec
CONSTANTS
  Nodes = {n1, n2, n3}
  Links <- MCLinks
  Costs = {0, 1, 3}
  Heuristics = {0, 1}
  OldPaths <- MCOldPaths
  None = None
  PreSteps = {0}
PROPERTY
  RequestAnswered
