------------------------------ MODULE ShardPlan ------------------------------
(***************************************************************************)
(* How the tasks of a heavy binary are dealt out to shards: the planner of *)
(* ida_shards.py, called by _run_shards.  A task is its place in the       *)
(* topological order of the whole module, so that "earlier" is "<".        *)
(***************************************************************************)
EXTENDS Integers, FiniteSets, FiniteSetsExt

\* Mutant: a dependency on a finished task, or on one of the other platform,
\* is dropped with what it stands for.
Collapse_Direct(graph, keep) == [t \in keep |-> graph[t] \intersect keep]

\* The dependencies among keep, carried through every task outside it.
Collapse(graph, keep) ==
    LET reach[t \in DOMAIN graph] ==
            UNION {IF d \in keep THEN {d} ELSE reach[d] : d \in graph[t]}
    IN  [t \in keep |-> reach[t]]

\* When a shard that is free at the time free can start a task whose producers
\* end at the times ends.
Earliest(free, ends) == Max({0, free} \union ends)

\* List scheduling at unit cost: every task goes to the shard where it can start
\* first, the lowest one if there are several.
PlanShards(n, pending, deps, shards) ==
    LET Place(st, t) ==
            LET ends     == {st.finish[d] : d \in deps[t]}
                start[k \in shards] == Earliest(st.free[k], ends)
                best     == Min({k \in shards : \A j \in shards : start[k] <= start[j]})
                end      == start[best] + 1
            IN  [finish |-> [st.finish EXCEPT ![t] = end],
                 free   |-> [st.free EXCEPT ![best] = end],
                 owner  |-> [st.owner EXCEPT ![t] = best]]
        plan[t \in 0..n] ==
            IF t = 0 THEN [finish |-> [d \in pending |-> 0], free |-> [k \in shards |-> 0],
                           owner |-> [d \in pending |-> Min(shards)]]
            ELSE LET st == plan[t - 1] IN IF t \in pending THEN Place(st, t) ELSE st
    IN  plan[n].owner

\* What _run_shards plans for a module with n tasks.
PlanOf(n, graph, pending, shards) ==
    LET deps == Collapse(graph, pending) IN
    [graph |-> graph, pending |-> pending, deps |-> deps,
     owner |-> PlanShards(n, pending, deps, shards)]
=============================================================================
