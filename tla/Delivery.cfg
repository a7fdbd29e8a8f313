SPECIFICATION Spec
CONSTANTS
  A = A
  B = B
  a1 = a1
  a2 = a2
  b1 = b1
  Account <- MCAccount
  Device <- MCDevice
  Owner <- MCOwner
  NoInfo = NoInfo
  Payload = {"p"}
  Kinds = {"dm", "room", "channel"}
  Founder = A
  Publishers = {a1}
  Revocable <- MCRevocable
  Ackers <- MCAckers
  Deleters <- MCDeleters
  MaxHorizon = 1
  Cap = 3
  MemberCap = 1
  MaxSeq = 3
CHECK_DEADLOCK FALSE
INVARIANTS
  LogInvariant
  NoLossBeforeExpiry
  InfoIsCurrent
  
PROPERTIES
  LogSpec
