SPECIFICATION Spec
CONSTANTS
  alice = alice  bob = bob  carol = carol  h1 = h1  h2 = h2
  None = None
  Users = {alice, bob, carol}
  Guests = {bob, carol}
  Battles = {1, 2}
  SideOf <- MCSideOf
  Counted = {1, 2}
  Emulated = {1}
  Results <- MCResults
  Boards <- MCBoards
  PageSize = 2
  Uploads = {h1, h2}
  MaxPlays = 1
SYMMETRY MCUploadsAlike
CHECK_DEADLOCK FALSE
INVARIANTS
  TotalsRight
  
  OneReplay
PROPERTIES
  UpdatesKept
