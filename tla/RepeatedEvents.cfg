SPECIFICATION Spec
CONSTANTS
  NULL = NULL
  s1 = s1
  s2 = s2
  d1 = d1
  d2 = d2
  Sources <- TwoSources
  Dirs <- TwoDirs
  DirOf <- Distinct
  Config <- OnePair
  TypedOps <- AllOps
  WorkerLimit = 1
  MaxCommands = 0
  MaxEvents = 2
  Restarts = FALSE
INVARIANT EventsMakeOneTask
CHECK_DEADLOCK FALSE
