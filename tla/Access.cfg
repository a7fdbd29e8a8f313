SPECIFICATION FairSpec
CONSTANTS
  d1 = d1
  d2 = d2
  c1 = c1
  c2 = c2
  g1 = g1
  k1 = k1
  k2 = k2
  s1 = s1
  s2 = s2
  r1 = r1
  r2 = r2
  Device = {d1, d2}
  Challenge = {c1, c2}
  Code = {g1}
  Key = {k1, k2}
  Socket = {s1, s2}
  Reader = {r1, r2}
  Scope = {"rooms", "storage"}
  MaxTokens = 2
  MaxKeys = 1
  MaxWrites = 3
  Slot = {1, 2}
  Loads <- AllLoads
CHECK_DEADLOCK FALSE
INVARIANTS
  AccessInvariant
PROPERTIES
  DeadStaysDead
  SocketsFollow
  
