SPECIFICATION FairSpec
CONSTANTS
  Tasks <- MCTasks
  MaxLen = 1
  MaxRevision = 1
  MaxEvents = 3
  MaxMishaps = 2
  Overtaken = FALSE
INVARIANTS TypeOK NoGap ResetReloads
PROPERTY CatchesUp
CHECK_DEADLOCK FALSE
