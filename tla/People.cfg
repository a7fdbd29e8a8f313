SPECIFICATION FairSpec
CONSTANTS
  A = A
  B = B
  C = C
  a1 = a1
  a2 = a2
  b1 = b1
  v1 = v1
  Account = {A, B, C}
  Invite = {v1}
  Inviter <- MCInviter
  MaxUses <- MCMaxUses
  Acquainted <- MCAcquainted
  Slot = {1, 2, 3}
  Client = {a1, a2, b1}
  Of <- MCOf
  Socket = {1, 2, 3, 4}
  Loads <- AllLoads
CHECK_DEADLOCK FALSE
INVARIANTS
  FriendshipInvariant
  GroupsFounded
  PresenceInvariant
PROPERTIES
  AllAnswered
