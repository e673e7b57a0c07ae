SPECIFICATION Spec
CONSTANTS
  pa = pa  pb = pb  pc = pc
  alice = alice  bob = bob  carol = carol
  None = None
  Peers <- MCPeers
  UDPPeers = {pb}
  Sessions <- MCSessions
  Presents <- MCPresents
  Users <- MCThreeBattles
  MaxRoom = 2
  MaxMessages = 2
CHECK_DEADLOCK FALSE
INVARIANTS
  RoomsSound
  StreamsUnbroken
  BattlesApart
