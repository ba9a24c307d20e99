SPECIFICATION FairSpec
CONSTANTS
  NULL = NULL
  j1 = j1
  j2 = j2
  j3 = j3
  j4 = j4
  Jobs <- TwoJobs
  WorkerLimit = 1
  MaxForks = 2
  MaxFd = 9
  MaxErrors = 1
  StdioLines = 9
  EarlyExit = TRUE
  Faults = FALSE
PROPERTY SlotFreedAfterExit
