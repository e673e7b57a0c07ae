SPECIFICATION InfoSpec
CONSTANTS
  c1 = c1  c2 = c2  c3 = c3
  alice = alice  bob = bob  carol = carol
  x = x  y = y
  None = None
  Conns = {c1, c2, c3}
  Users = {alice, bob, carol}
  UserOf <- MCThreeUsers
  SyncsOf <- MCSyncsOf
  Lobbies = {2}
  Rooms = {}
  PlayerCounts = {}
  MaxBattles = 1
  Aeug = Aeug  Titans = Titans
  Sides = {Aeug, Titans}
  InfosOf <- MCInfosOf
  Proxied = {c1}
  IpOf <- MCIpOf
  Relays = {1, 2}
  OwnRelay = 9
  MaxRelays = 3
CHECK_DEADLOCK FALSE
SYMMETRY MCOthersAlike
INVARIANTS
  FairBattles
  AnswersAgree
  ProxyFindsBattle
PROPERTIES
  AnswersStay
