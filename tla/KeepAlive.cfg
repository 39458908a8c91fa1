\* Three peers that come, go, answer or fall silent.
SPECIFICATION Spec
CONSTANT PeersLimit = 3
INVARIANTS
  TypeOK
  PoolAgrees
  PassedOver
PROPERTY
  SilentDropped
