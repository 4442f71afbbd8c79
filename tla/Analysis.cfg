SPECIFICATION FairSpec
CONSTANTS
  Tasks <- MCTasks
  Stages <- LastStage
  Inputs <- MCInputs
  Options <- MCOptions
  MaxDeaths = 1
INVARIANTS TypeOK WaitsForReal SuccessIsComplete DeferredAreRetried TotalsAgree
PROPERTY RunEnds
