SPECIFICATION FairSyncSpec
CONSTANTS
  A = A
  B = B
  a1 = a1
  a2 = a2
  b1 = b1
  None = None
  NoInfo = NoInfo
  Account <- Both
  Device = {a1, a2, b1}
  Owner <- OwnerOf
  Kinds = {"dm"}
  Founder = A
  Creator = a1
  Loads <- FoundingLoads
  Revocable <- MCRevocable
  Publishers = {}
  Ackers <- MCAckers
  Deleters <- MCDeleters
  MaxHorizon = 0
  Cap = 0
  MemberCap = 0
  MaxSeq = 4
  Payload = {}
CHECK_DEADLOCK FALSE
INVARIANTS
  NothingSkipped
  PrunedMeansHanded
PROPERTIES
  Converges
