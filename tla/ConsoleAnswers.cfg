SPECIFICATION FairSpec
CONSTANTS
  NULL = NULL
  s1 = s1
  s2 = s2
  d1 = d1
  d2 = d2
  Sources <- TwoSources
  Dirs <- TwoDirs
  DirOf <- Distinct
  Config <- EmptyConfig
  TypedOps <- AllOps
  WorkerLimit = 2
  MaxCommands = 3
  MaxEvents = 1
  Restarts = FALSE
INVARIANT WaitingIsAnsweredOnce
INVARIANT NoStrayAnswer
PROPERTY CommandsAreAnswered
PROPERTY EventsAreHandled
CHECK_DEADLOCK FALSE
