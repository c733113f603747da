SPECIFICATION Spec
CONSTANTS
  t1 = t1  t2 = t2  e1 = e1  e2 = e2  e3 = e3  u1 = u1  u2 = u2
  s1 = s1  s2 = s2  None = None
  Tasks = {t1, t2}
  Executions = {e1, e2}
  Users = {u1, u2}
  Sessions = {s1, s2}
  Owner <- OneEach
  TaskOf <- SplitTasks
  Caller <- CallEach
  Ops <- HandlerOps
  Reported = {"running", "completed", "failed", "timeout"}
  Faults = TRUE
INVARIANTS ChecksStillHold
PROPERTIES OnlyOwnersChangeRows ImplementsSerialBoard
