SPECIFICATION Spec
CONSTANTS
  NULL = NULL
  s1 = s1
  s2 = s2
  d1 = d1
  d2 = d2
  Sources <- TwoSources
  Dirs <- TwoDirs
  DirOf <- Distinct
  Config <- EmptyConfig
  TypedOps <- AllOps
  WorkerLimit = 1
  MaxCommands = 2
  MaxEvents = 0
  Restarts = FALSE
INVARIANT NoCrash
CHECK_DEADLOCK FALSE
