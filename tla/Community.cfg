SPECIFICATION Spec
CONSTANTS
  o = o
  a = a
  b = b
  s1 = s1
  s2 = s2
  Account = {o, a, b}
  Owner = o
  ChannelCap = 2
  MaxUses = 1
  MaxRollcalls = 1
  Slot = {s1, s2}
  NoCall = NoCall
  Loads <- AllLoads
SYMMETRY Alike
CHECK_DEADLOCK FALSE
INVARIANTS
  MembershipInvariant
PROPERTIES
  EntersProperly
  
