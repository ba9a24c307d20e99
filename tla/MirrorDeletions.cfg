SPECIFICATION Spec
CONSTANTS
  NULL = NULL
  a = a
  b = b
  c = c
  f1 = f1
  f2 = f2
  Dirs <- TwoDirs
  Files <- OneFile
  Config <- OnePair
  Existing <- AllButLast
  WorkerLimit = 2
  MaxChunks = 1
  MaxSaves = 1
  MaxDeletes = 1
  MaxSyncs = 0
  MaxFaults = 0
  MaxTrouble = 2
INVARIANT TargetFollowsSource
CHECK_DEADLOCK FALSE
