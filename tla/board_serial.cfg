SPECIFICATION SerialSpec
CONSTANTS
  t1 = t1  t2 = t2  e1 = e1  e2 = e2  e3 = e3
  Tasks = {t1, t2}
  Executions = {e1, e2, e3}
  TaskOf <- SplitTasks
  Reported = {"pending", "running", "completed", "failed", "timeout", "cancelled"}
  DirectUpdate = FALSE
PROPERTIES OnlyLateWritesUnsettle
CHECK_DEADLOCK FALSE
