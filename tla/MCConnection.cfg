SPECIFICATION Spec
CONSTANTS
  Host = host
  Clients = {c1, c2}
  Passwords = {"right", "wrong"}
  HostPeers = 2
  ClientPeers = 2
  MaxRequest = 1
  SilenceLimit = 0
  Reorder = TRUE
  InFlight = 2
INVARIANTS
  TypeOK
  HostIdsDiffer
  ClientIdsDiffer
  FailedStaysFailed
CHECK_DEADLOCK FALSE
SYMMETRY Symmetry
