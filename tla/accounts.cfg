SPECIFICATION Spec
CONSTANTS
  c1 = c1
  c2 = c2
  a1 = a1
  a2 = a2
  Nobody = Nobody
  Clients = {c1, c2}
  Addresses = {a1, a2}
  AccessTTL = 1
  RefreshTTL = 2
  MaxNow = 4
  Faults = TRUE
INVARIANTS
  Inv
  OwnersOnlyHoldTokens
PROPERTIES
  SilenceEndsSessions
