\* Two clients with two sessions each. The sessions may all be over, so the system may stop.
SPECIFICATION Spec
CONSTANTS
  Client = {c1, c2}
  NoPort = noport
  Address <- ApartAddress
  PeersLimit = 2
  MaxSessions <- BothReturn
  MaxBlasts = 0
SYMMETRY Symmetry
CHECK_DEADLOCK FALSE
INVARIANTS
  EstablishedMeansBound
