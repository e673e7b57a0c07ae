SPECIFICATION FairSpec
CONSTANTS
  b1 = b1  b2 = b2
  t1 = t1  t2 = t2  t3 = t3
  v4a = v4a  v4b = v4b  v6 = v6
  None = None
  Ids = {b1, b2}
  Tokens = {t1, t2, t3}
  IdOf <- MCIdOf
  Addrs = {v4a, v4b, v6}
  Family <- MCFamily
  MaxPeers = 2
  IdleTimeout = 0
  MaxLifetime = 0
  MaxSessions = 2
CHECK_DEADLOCK FALSE
INVARIANTS
  TypeOK
  BindingsMatchSlots
  ActiveIsHeld
  OnlyMembersRelay
PROPERTIES PlayingPathKept SessionsEnd
