SPECIFICATION FairSpec
CONSTANTS
  client = client
  server = server
  alice = alice
  bob = bob
  Ends <- MCEnds
  Authors <- MCAuthors
  WriterAt <- MCWriterAt
  FirstSeqs = {1}
  RingSize = 2
  Window = 1
  MaxPushed <- MCPushed
  MCUp = 1
  MCDown = 2
  MaxInFlight = 2
  MayStay = {FALSE}
CHECK_DEADLOCK FALSE
PROPERTY EverythingArrives
