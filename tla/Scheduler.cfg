SPECIFICATION FairSpec
CONSTANTS
  r1 = r1
  r2 = r2
  s1 = s1
  s2 = s2
  Runs <- TwoRuns
  Schedulers <- OneScheduler
  MaxCrashes = 2
  MaxLaunches = 2
  Delays <- NoDelays
INVARIANTS TypeOK OneAtATime InOrder
PROPERTIES NoLiveAbort EveryRunSettles
