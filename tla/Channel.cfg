SPECIFICATION FairChannelSpec
CONSTANTS
  own = own
  ann = ann
  ben = ben
  Account = {own, ann, ben}
  Owner = own
  MaxLog = 3
  MaxEpoch = 1
  MaxTries = 2
  None = None
  Loads <- AllLoads
CHECK_DEADLOCK FALSE
INVARIANTS
  ReadyInvariant
  EvictedStayOut
PROPERTIES
  TrustRecovers
