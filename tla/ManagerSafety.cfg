SPECIFICATION Spec
CONSTANTS
  NULL = NULL
  s1 = s1
  s2 = s2
  d1 = d1
  d2 = d2
  Sources <- OneSource
  Dirs <- OneDir
  DirOf <- OnlyFirst
  Config <- OnePair
  TypedOps <- RunningOps
  WorkerLimit = 1
  MaxCommands = 4
  MaxEvents = 2
  Restarts = TRUE
INVARIANT TypeOK
INVARIANT FlagIsBacked
INVARIANT PendingEventsAreKnown
INVARIANT ActiveMeansWatched
INVARIANT ListMonitoredIsActive
CHECK_DEADLOCK FALSE
