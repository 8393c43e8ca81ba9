SPECIFICATION FairSpec
CONSTANTS
  Host = host
  Clients = {c1}
  Passwords = {"right"}
  HostPeers = 2
  ClientPeers = 2
  MaxRequest = 1
  SilenceLimit = 1
  Reorder = FALSE
  InFlight = 2
PROPERTIES
  RequestsEnd
  GoneAreForgotten
CHECK_DEADLOCK FALSE
