\* Two clients under way, of which one may connect again; one blast on its way. The sessions may all be over, so the system may stop.
SPECIFICATION UnderwaySpec
CONSTANTS
  Client = {c1, c2}
  NoPort = noport
  Address <- ApartAddress
  PeersLimit = 2
  MaxSessions <- OneReturns
  MaxBlasts = 1
CHECK_DEADLOCK FALSE
INVARIANTS
  TypeOK
  PortIsOwners
  IDIsCurrent
PROPERTIES
  BlastsGenuine
  HandshakeCompletes
