SPECIFICATION Spec
CONSTANTS
  NULL = NULL
  j1 = j1
  j2 = j2
  j3 = j3
  j4 = j4
  Jobs <- FourJobs
  WorkerLimit = 2
  MaxForks = 4
  MaxFd = 12
  MaxErrors = 1
  StdioLines = 9
  EarlyExit = FALSE
  Faults = FALSE
SYMMETRY Symmetry
INVARIANT ErrorsExact
