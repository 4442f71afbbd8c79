SPECIFICATION Spec
CONSTANTS
  Tasks <- MCTasks
  Counted <- MCCounted
  MaxLosses = 4
  MaxRevision = 1
  InitOutage = TRUE
  Interrupts = FALSE
INVARIANT InStep
