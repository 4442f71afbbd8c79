SPECIFICATION FairSpec
CONSTANTS
  Tasks <- MCTasks
  Shards <- MCShards
  Plans <- MCPlans
  MaxFaults = 1
INVARIANTS TypeOK NoCircularWait StartsAfterProducers CountsOnce
PROPERTIES SettledIsFinal ShardsEnd
CHECK_DEADLOCK FALSE
