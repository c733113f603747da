SPECIFICATION FairSpec
CONSTANTS
  t1 = t1
  e1 = e1
  Tasks = {t1}
  Executions = {e1}
  TaskOf <- OneTask
  Timeout <- Longest
  MaxAge = 1
  Faults = TRUE
INVARIANTS
  Inv
  NoUnnoticedContainer
  RowsTellTheTruth
  RunningHasActiveExecution
PROPERTIES
  SweepSparesTimely
  ContainersAreRemoved
  EntriesAreDropped
