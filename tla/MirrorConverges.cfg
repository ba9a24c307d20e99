SPECIFICATION FairSpec
CONSTANTS
  NULL = NULL
  a = a
  b = b
  c = c
  f1 = f1
  f2 = f2
  Dirs <- ThreeDirs
  Files <- OneFile
  Config <- Chain
  Existing <- AllButLast
  WorkerLimit = 2
  MaxChunks = 1
  MaxSaves = 2
  MaxDeletes = 1
  MaxSyncs = 1
  MaxFaults = 1
  MaxTrouble = 2
INVARIANT TypeOK
INVARIANT NothingSilentlyStale
INVARIANT TruncatesNoCopy
INVARIANT NoDeadlock
CHECK_DEADLOCK FALSE
PROPERTY TasksEnd
PROPERTY OriginalsUntouched
