SPECIFICATION FairSpec
CONSTANTS
  r1 = r1  east = east  anna = anna  ben = ben
  Relays = {r1}
  Regions = {east}
  RegionOf <- MCRegionOf
  Ids = {1}
  Crowds <- MCCrowds
  GroupOf <- MCGroupOf
  MinUsers = 2
  QueueLen = 1
  IdleShutdown = 1
  StartRetry = 1
  MaxConns = 2
  MaxTokens = 2
CHECK_DEADLOCK FALSE
INVARIANTS
  RelaysKnown
  
PROPERTIES
  KeptUntilEnd
  RelaysStop
