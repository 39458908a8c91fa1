SPECIFICATION Spec
CONSTANTS
  Host = {h1, h2}
  h1 = h1
  h2 = h2
CHECK_DEADLOCK FALSE
INVARIANTS
  TypeOK
  NoThreadLeft
  StopStands
PROPERTIES
  StopEnds
  StopReturns
  InterruptEnds
