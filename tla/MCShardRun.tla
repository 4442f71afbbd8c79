------------------------------ MODULE MCShardRun ------------------------------
(* Instances of ShardRun: every plan that the planner makes of a module of   *)
(* at most four tasks, whatever their dependencies and what is pending.      *)
EXTENDS ShardRun, ShardPlan

MCTasks  == 1..4
MCShards == 0..1

Graphs == {g \in [MCTasks -> SUBSET MCTasks] : \A t \in MCTasks : \A d \in g[t] : d < t}

MCPlans == {PlanOf(4, g, p, MCShards) : g \in Graphs, p \in {q \in SUBSET MCTasks : Cardinality(q) >= 3}}
=============================================================================
