SPECIFICATION ArtifactsSpec
CONSTANTS
  l1 = l1
  l2 = l2
  m1 = m1
  m2 = m2
  p1 = p1
  p2 = p2
  t1 = t1
  t2 = t2
  t3 = t3
  r1 = r1
  r2 = r2
  Account = {l1, l2, m1, m2}
  Leader = {l1, l2}
  Pin = {p1, p2}
  Ticket = {t1, t2, t3}
  Report = {r1, r2}
  MaxEpoch = 2
  Slot = {1, 2, 3}
  None = None
  Loads <- AllLoads
  mod = mod
  lead = lead
  mem = mem
  e1 = e1
  Client = {mod, lead, mem}
  InChannel = {mod, mem}
  Manager = {mod, lead}
  Event = {e1}
  Instant <- Instants
  Early = 2
  Grace = 1
  ClientEarly = 1
  Keep = 3
  MaxTime = 5
CHECK_DEADLOCK FALSE
INVARIANTS
  
  
  
  ReminderInvariant
  ReminderReaches
