SPECIFICATION Spec
CONSTANTS
  NULL = NULL
  j1 = j1
  j2 = j2
  j3 = j3
  j4 = j4
  Jobs <- ThreeJobs
  WorkerLimit = 2
  MaxForks = 3
  MaxFd = 6
  MaxErrors = 1
  StdioLines = 4
  EarlyExit = TRUE
  Faults = TRUE
INVARIANT TypeOK
INVARIANT LiveWorkersBounded
INVARIANT SlotAvailable
INVARIANT TaskFound
INVARIANT CompletedReaped
PROPERTY ImplementsTaskPool
