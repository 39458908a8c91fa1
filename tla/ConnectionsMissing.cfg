\* Three clients, room for two handshakes, accept may fail. Clients need not do anything, so the system may stop.
SPECIFICATION Spec
CONSTANTS
  Client = {c1, c2, c3}
  ConnectionsLimit = 2
  PeersLimit = 1
  AcceptFails = TRUE
  Script <- AnyScript
SYMMETRY Symmetry
CHECK_DEADLOCK FALSE
INVARIANTS
  SocketPresent
