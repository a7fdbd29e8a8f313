SPECIFICATION FairSpecKeys
CONSTANTS
  o = o
  l = l
  x = x
  s1 = s1
  Account = {o, l, x}
  Owner = o
  ChannelCap = 3
  MaxUses = 1
  MaxRollcalls = 0
  MaxEpoch = 2
  Slot = {s1}
  NoCall = NoCall
  NoOne = NoOne
  Loads <- AllLoads
CHECK_DEADLOCK FALSE
INVARIANTS
  OutIsFlagged
  KeyInvariant
PROPERTIES
  KeysVetted
  Rotates
