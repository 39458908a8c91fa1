\* Two messages in each direction. Writers need not write, so the system may stop.
SPECIFICATION Spec
CONSTANTS
  Base = 4
  InitialCapacity = 4
  ToServer <- Requests
  ToClient <- Replies
  MaxMessages = 2
CHECK_DEADLOCK FALSE
INVARIANTS
  PacketsIntact
