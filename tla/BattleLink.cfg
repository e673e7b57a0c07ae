SPECIFICATION Spec
CONSTANTS
  client = client
  server = server
  alice = alice
  bob = bob
  Ends <- MCEnds
  Authors <- MCAuthors
  WriterAt <- MCWriterAt
  FirstSeqs = {3}
  RingSize = 3
  Window = 2
  MaxPushed <- MCPushed
  MCUp = 1
  MCDown = 3
  MaxInFlight = 2
  MayStay = {TRUE, FALSE}
CHECK_DEADLOCK FALSE
INVARIANTS
  LinkSound
PROPERTIES
  ChannelSpec
