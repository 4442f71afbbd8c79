SPECIFICATION Spec
CONSTANTS
  f1 = f1
  f2 = f2
  r1 = r1
  r2 = r2
  Ids <- MCIds
  Requests <- MCRequests
  MaxFiles = 2
  MaxUploads = 2
  MaxBuilds = 2
  MaxCrashes = 1
SYMMETRY Symmetry
INVARIANTS TypeOK StoreIsWhole UpdateIsComplete
CHECK_DEADLOCK FALSE
