SPECIFICATION FairSpec
CONSTANTS
  Tasks <- MCTasks
  Counted <- MCCounted
  MaxLosses = 2
  MaxRevision = 2
  InitOutage = FALSE
  Interrupts = FALSE
INVARIANTS TypeOK CountersMatch InStep RunningSetAgrees
PROPERTIES OnlyAbortedIsCorrected Reconnects
