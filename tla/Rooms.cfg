SPECIFICATION FairSpec
CONSTANTS
  h = h
  a = a
  b = b
  s1 = s1
  s2 = s2
  NoCall = NoCall
  Account = {h, a, b}
  Creator = h
  MaxMembers = 2
  Slot = {s1, s2}
  MaxRequests = 2
  Loads <- AllLoads
CHECK_DEADLOCK FALSE
INVARIANTS
  RoomInvariant

  
  
