SPECIFICATION FairSpec
CONSTANTS
  c1 = c1
  c2 = c2
  Identifiers = {c1, c2}
  Window = 2
  MaxReqs = 2
  MaxNow = 4
INVARIANTS
  Inv
  AdmittedPerWindow
PROPERTIES
  ImplementsSlidingWindow
  ExpiredEntriesAreDropped
