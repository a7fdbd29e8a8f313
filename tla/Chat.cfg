SPECIFICATION FairSpec
CONSTANTS
  a = a
  b = b
  c = c
  Device = {a, b, c}
  Moderator = a
  MaxLog = 3
  MaxEpoch = 1
  Loads <- AllLoads
CHECK_DEADLOCK FALSE
INVARIANTS
  GapInvariant
  
PROPERTIES
  NudgeAnswered
