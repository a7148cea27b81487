SPECIFICATION FairSpec
CONSTANTS
  Nil = Nil
  WindowSize = 2
  MaxSubs = 3
  MaxEvents = 2
  MaxFaults = 1
  MaxTime = 2
INVARIANTS VerdictIsEarned
PROPERTIES RemovedEnds
CHECK_DEADLOCK FALSE
