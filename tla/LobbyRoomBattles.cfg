SPECIFICATION Spec
CONSTANTS
  c1 = c1  c2 = c2  c3 = c3
  alice = alice  bob = bob  carol = carol
  x = x  y = y
  None = None
  Conns = {c1, c2}
  Users = {alice, bob}
  UserOf <- MCTwoUsers
  SyncsOf <- MCOneSync
  Lobbies = {1}
  Rooms = {1}
  PlayerCounts = {1, 2}
  MaxBattles = 2
  Aeug = Aeug  Titans = Titans
  Sides = {Aeug, Titans}
SYMMETRY MCTwoAlike
CHECK_DEADLOCK FALSE
INVARIANTS
  ListsAgree
  RoomsShown
  SameBattle
  ChatIsMutual
