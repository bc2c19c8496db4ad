SPECIFICATION Spec
CONSTANTS
  NTasks = 2
  Workers = {w0, w1}
  NoWorker = NoWorker
  MaxDrives = 2
  MaxCrashes = 1
  OrphanWorkers = TRUE
  V2Tasks = {1}
INVARIANT ExclusiveExecution
CHECK_DEADLOCK FALSE
