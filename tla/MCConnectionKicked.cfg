SPECIFICATION FairSpec
CONSTANTS
  Host = host
  Clients = {c1}
  Passwords = {"right"}
  HostPeers = 2
  ClientPeers = 1
  MaxRequest = 1
  SilenceLimit = 1
  Reorder = TRUE
  InFlight = 2
PROPERTIES
  KickedLearns
CHECK_DEADLOCK FALSE
