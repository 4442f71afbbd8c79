SPECIFICATION FairSpec
CONSTANTS
  Tasks <- MCTasks
  Stages <- TwoStages
  Inputs <- MCInputs
  Options <- Scripts
  MaxDeaths = 0
INVARIANT DeferredAreRetried
