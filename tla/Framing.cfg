\* Up to three messages in each direction. Writers need not write, so the system may stop.
SPECIFICATION Spec
CONSTANTS
  Base = 4
  InitialCapacity = 4
  ToServer <- Requests
  ToClient <- Replies
  MaxMessages = 3
CHECK_DEADLOCK FALSE
INVARIANTS
  TypeOK
  HandedAsWritten
  ContentsKept
  WithinBuffer
  DroppedForCause
PROPERTY
  AllHandedOver
