SPECIFICATION FairSpec
CONSTANTS
  r1 = r1
  r2 = r2
  s1 = s1
  s2 = s2
  Runs <- OneRun
  Schedulers <- TwoSchedulers
  MaxCrashes = 2
  MaxLaunches = 2
  Delays <- SlowAnalyzers
INVARIANTS AckedIsFinal LaunchedOnce
PROPERTIES KeepsLifecycle EveryRunSettles
