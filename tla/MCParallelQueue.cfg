SPECIFICATION FairSpec
CONSTANTS
  NTasks = 2
  Workers = {w0, w1}
  NoWorker = NoWorker
  MaxDrives = 2
  MaxCrashes = 2
  OrphanWorkers = FALSE
  V2Tasks = {1}
INVARIANT TypeOK
INVARIANT OneDescriptor
INVARIANT NoTaskLeftPending
PROPERTY SuccessMeansComplete
PROPERTY ImplementsLedger
PROPERTY ImplementsContract
PROPERTY DriveEnds
CHECK_DEADLOCK FALSE
