SPECIFICATION FairSpec
CONSTANTS
  c1 = c1
  NoPeer = NoPeer
  Sockets = {c1}
  HeaderSize = 2
  Size = 3
  MaxBytes = 6
  MaxEvents = 1
CHECK_DEADLOCK FALSE
INVARIANTS
  BuffersServed
PROPERTIES
  GoneIsForgotten
