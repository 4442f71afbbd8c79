SPECIFICATION Spec
CONSTANTS
  Tasks <- MCTasks
  Counted <- MCCounted
  MaxLosses = 1
  MaxRevision = 2
  InitOutage = TRUE
  Interrupts = TRUE
INVARIANTS CountersFollow FinalReport
