SPECIFICATION FairSpec
CONSTANTS
  amuro = amuro  char = char
  Players = {amuro, char}
  Window = 1
  MaxData = 4
  PS2JoinSize = 2
  Bytes = {0, 1, 4, 5, 240}
  MaxBytes = 5
CHECK_DEADLOCK FALSE
INVARIANTS
  HeardRight
  EndIsFound
PROPERTIES
  ServerSuffices
