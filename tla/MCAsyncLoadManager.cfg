SPECIFICATION ManagerFairSpec
CONSTANTS
  Callers = {c1, c2}
  Workers = {w0, w1}
  Requests = {r1, r2, r3}
  NoRequest = NoRequest
  Priorities = {0, 5}
INVARIANTS
  LoadedOnce
PROPERTIES
  ClearFlagDrains
CHECK_DEADLOCK FALSE
