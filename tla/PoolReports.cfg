SPECIFICATION Spec
CONSTANTS
  NULL = NULL
  j1 = j1
  j2 = j2
  j3 = j3
  j4 = j4
  Jobs <- ThreeJobs
  WorkerLimit = 1
  MaxForks = 3
  MaxFd = 9
  MaxErrors = 2
  StdioLines = 9
  EarlyExit = TRUE
  Faults = TRUE
INVARIANT ErrorsExact
