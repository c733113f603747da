CONSTANTS
  u1 = u1
  u2 = u2
  t1 = t1
  t2 = t2
  t3 = t3
  e1 = e1
  e2 = e2
  Tasks = {t1, t2, t3}
  Executions = {e1}
  ParentOf <- MCParentOf
  Caller = u1
  Statuses = {"pending", "running"}
  Priorities = {1}
  DefaultLimit = 1
  MaxLimit = 2
  RepositoryLimit = 2
  Limits = {0, 3}
  Fields = {"priority", Junk}
  Directions = {"desc"}
  MaxChanges = 4
  Faults = TRUE
  None = None
  Junk = Junk
SYMMETRY MCSymmetry
SPECIFICATION Spec
INVARIANTS TypeOK SkipsNeedDepartures RepeatsNeedArrivals
CHECK_DEADLOCK FALSE
