CONSTANTS
  u1 = u1
  u2 = u2
  t1 = t1
  t2 = t2
  t3 = t3
  e1 = e1
  e2 = e2
  Tasks = {t1, t2}
  Executions = {e1}
  ParentOf <- MCParentOf
  Caller = u1
  Statuses = {"pending", "running"}
  Priorities = {1}
  DefaultLimit = 1
  MaxLimit = 2
  RepositoryLimit = 2
  Limits = {1}
  Fields = {"priority", Junk}
  Directions = {"desc"}
  MaxChanges = 3
  Faults = FALSE
  None = None
  Junk = Junk
SPECIFICATION Spec
INVARIANTS NextPageIsServed
CHECK_DEADLOCK FALSE
