SPECIFICATION FairSpec
CONSTANTS
  k1 = k1
  w1 = w1  w2 = w2  w3 = w3
  Codes = {k1}
  Watchers = {w1, w2, w3}
  MaxSpectators = 2
  MaxBattleWatchers = 2
  MaxBytes = 1
  JoinCap = 1
  UploadIdle = 2
  Stall = 3
  Budget = 1
  Turns = 6
  MaxOpened = 1
CHECK_DEADLOCK FALSE
INVARIANTS
  CountsRight
  WholeStream
PROPERTIES
  UpToDateStay
  WatchersEnd
