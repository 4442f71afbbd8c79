SPECIFICATION FairSpec
CONSTANTS
  Tasks <- MCTasks
  MaxLen = 1
  MaxRevision = 0
  MaxEvents = 2
  MaxMishaps = 0
  Overtaken = FALSE
PROPERTY PlanAppears
CHECK_DEADLOCK FALSE
