------------------------------- MODULE ShardRun -------------------------------
(***************************************************************************)
(* The shards of one binary at work: _run_shards with the children it      *)
(* starts, which meet only in marker files (ida_shards.ShardPlan), and the *)
(* sweep after them.  A task is its place in the topological order.        *)
(*                                                                         *)
(* A task that runs may produce its artifact or leave it to the sweep; a   *)
(* missing input and a failing preprocessor are not told apart.            *)
(***************************************************************************)
EXTENDS Integers, FiniteSets, FiniteSetsExt

CONSTANTS
    Tasks,      \* all tasks of the module
    Shards,
    Plans,      \* the plans considered: [graph, pending, deps, owner]
    MaxFaults   \* bound on processes that die

\* What the planner makes of an acyclic graph; the protocol needs no more.
WellFormed(p) ==
    /\ p.graph \in [Tasks -> SUBSET Tasks]
    /\ p.pending \subseteq Tasks
    /\ p.deps \in [p.pending -> SUBSET p.pending]
    /\ p.owner \in [p.pending -> Shards]
    /\ \A t \in p.pending : \A d \in p.deps[t] : d < t

ShardAssumption ==
    /\ Tasks \subseteq Nat \ {0} /\ IsFiniteSet(Tasks)
    /\ MaxFaults \in Nat
    /\ \A p \in Plans : WellFormed(p)

ASSUME ShardAssumption

VARIABLES
    plan,       \* the plan files
    artifacts,  \* pending tasks whose outputs exist
    done,       \* the markers of tasks
    markers,    \* the exit markers of shards
    child,      \* the processes of the shards
    parent,     \* "pool": waits for the shards; "swept"; "gone"
    counts,     \* what _process_platform returns
    ran,        \* tasks that a shard has started
    faults

vars == <<plan, artifacts, done, markers, child, parent, counts, ran, faults>>

None   == 0
Mine(s) == {t \in plan.pending : plan.owner[t] = s}
Idle   == [pc |-> "gone", items |-> {}, at |-> None]

TypeOK ==
    /\ WellFormed(plan)
    /\ artifacts \subseteq plan.pending
    /\ done \subseteq plan.pending
    /\ markers \subseteq Shards
    /\ child \in [Shards -> [pc : {"boot", "next", "waiting", "running", "closed", "gone"},
                             items : SUBSET Tasks, at : Tasks \union {None}]]
    /\ parent \in {"pool", "swept", "gone"}
    /\ counts \in [ok : Nat, failed : Nat, skipped : Nat]
    /\ ran \subseteq plan.pending
    /\ faults \in 0..MaxFaults

\* A shard without a task has no process.
Init ==
    /\ plan \in Plans
    /\ artifacts = {} /\ done = {} /\ ran = {}
    /\ markers = {s \in Shards : Mine(s) = {}}
    /\ child = [s \in Shards |-> IF Mine(s) = {} THEN Idle ELSE [Idle EXCEPT !.pc = "boot"]]
    /\ parent = "pool"
    /\ counts = [ok |-> 0, failed |-> 0, skipped |-> 0]
    /\ faults = 0

-----------------------------------------------------------------------------
(* A shard.                                                                 *)

\* Mutant: exit markers are not looked at.
Settled_DoneOnly(t) == t \in done

\* What an is_settled() of the task would answer.
Settled(t) == t \in done \/ plan.owner[t] \in markers

Foreign(t) == {d \in plan.deps[t] : plan.owner[d] # plan.owner[t]}

\* The tasks that have nothing left to do never reach the loop and are marked
\* up front.
Boot(s) ==
    /\ child[s].pc = "boot"
    /\ \E skipped \in SUBSET Mine(s) :
          /\ done' = done \union skipped
          /\ child' = [child EXCEPT ![s] = [pc |-> "next", items |-> Mine(s) \ skipped, at |-> None]]
    /\ UNCHANGED <<plan, artifacts, markers, parent, counts, ran, faults>>

\* Mutant: the own tasks are not kept in the global order.
First_Last(items) == Max(items)

First(items) == Min(items)

\* Mutant: there need not be a previous task.
Marked_Always(s) == {child[s].at}

\* The markers a shard sets when it turns to the next task: that of the last.
Marked(s) == {child[s].at} \ {None}

\* iterate() marks the previous task and turns to the next one.
Resume(s) ==
    /\ child[s].pc = "next" /\ child[s].items # {}
    /\ done' = done \union Marked(s)
    /\ LET t == First(child[s].items) IN
       child' = [child EXCEPT ![s] = [pc |-> "waiting", items |-> @.items \ {t}, at |-> t]]
    /\ UNCHANGED <<plan, artifacts, markers, parent, counts, ran, faults>>

\* wait_for() returns: every producer in another shard is settled.  Without a
\* parent nobody would set exit markers, so it returns at once.
Enter(s) ==
    /\ child[s].pc = "waiting"
    /\ parent = "gone" \/ \A d \in Foreign(child[s].at) : Settled(d)
    /\ child' = [child EXCEPT ![s].pc = "running"]
    /\ ran' = ran \union {child[s].at}
    /\ UNCHANGED <<plan, artifacts, done, markers, parent, counts, faults>>

RunTask(s) ==
    /\ child[s].pc = "running"
    /\ artifacts' \in {artifacts, artifacts \union {child[s].at}}
    /\ child' = [child EXCEPT ![s].pc = "next"]
    /\ UNCHANGED <<plan, done, markers, parent, counts, ran, faults>>

\* The loop ends, or breaks off because IDA is lost; either way the finally
\* clause marks all own tasks.
Close(s) ==
    /\ \/ child[s].pc = "next" /\ child[s].items = {}
       \/ child[s].pc = "running"
    /\ done' = done \union Mine(s)
    /\ child' = [child EXCEPT ![s] = [Idle EXCEPT !.pc = "closed"]]
    /\ UNCHANGED <<plan, artifacts, markers, parent, counts, ran, faults>>

Exit(s) ==
    /\ child[s].pc = "closed"
    /\ child' = [child EXCEPT ![s] = Idle]
    /\ UNCHANGED <<plan, artifacts, done, markers, parent, counts, ran, faults>>

\* The process dies: it sets no marker.
Crash(s) ==
    /\ child[s].pc # "gone"
    /\ faults < MaxFaults /\ faults' = faults + 1
    /\ child' = [child EXCEPT ![s] = Idle]
    /\ UNCHANGED <<plan, artifacts, done, markers, parent, counts, ran>>

-----------------------------------------------------------------------------
(* The parent.                                                              *)

\* Mutant: the exit marker does not wait for the process.
MarkExit_Early(s) ==
    /\ parent = "pool" /\ child[s].pc # "boot" /\ s \notin markers
    /\ markers' = markers \union {s}
    /\ UNCHANGED <<plan, artifacts, done, child, parent, counts, ran, faults>>

\* The pump thread of a shard, after process.wait().
MarkExit(s) ==
    /\ parent = "pool" /\ child[s].pc = "gone" /\ s \notin markers
    /\ markers' = markers \union {s}
    /\ UNCHANGED <<plan, artifacts, done, child, parent, counts, ran, faults>>

\* Mutant: what the shards marked counts as produced.
Produced_ByMarks == Cardinality(done)

\* The pending tasks that are no longer pending.
Produced == Cardinality(artifacts)

\* The ordinary run on the primary database does what the shards left, and has
\* counted what they produced as skipped.
Sweep ==
    /\ parent = "pool" /\ markers = Shards
    /\ \E made \in SUBSET (plan.pending \ artifacts) :
       \E failed \in SUBSET (plan.pending \ (artifacts \union made)) :
          /\ artifacts' = artifacts \union made
          /\ counts' = [ok |-> Cardinality(made) + Produced, failed |-> Cardinality(failed),
                        skipped |-> Max({0, Cardinality(Tasks \ (made \union failed)) - Produced})]
    /\ parent' = "swept"
    /\ UNCHANGED <<plan, done, markers, child, ran, faults>>

ParentDies ==
    /\ parent = "pool"
    /\ faults < MaxFaults /\ faults' = faults + 1
    /\ parent' = "gone"
    /\ UNCHANGED <<plan, artifacts, done, markers, child, counts, ran>>

Over == parent # "pool" /\ \A s \in Shards : child[s].pc = "gone"

ShardStep(s) ==
    Boot(s) \/ Resume(s) \/ Enter(s) \/ RunTask(s) \/ Close(s) \/ Exit(s)

Next ==
    \/ \E s \in Shards : ShardStep(s) \/ Crash(s) \/ MarkExit(s)
    \/ Sweep \/ ParentDies

Spec == Init /\ [][Next]_vars

\* Processes go on, and the threads of the parent do.
FairSpec ==
    /\ Spec
    /\ \A s \in Shards : WF_vars(ShardStep(s)) /\ WF_vars(MarkExit(s))
    /\ WF_vars(Sweep)

-----------------------------------------------------------------------------
(* Properties.                                                              *)

Blocked(s) ==
    /\ child[s].pc = "waiting" /\ parent = "pool"
    /\ \E d \in Foreign(child[s].at) : ~Settled(d)

\* "No wait can close a cycle": as long as a shard waits, another is at work
\* or has ended with its exit marker still to come.
NoCircularWait ==
    \A s \in Shards : Blocked(s) =>
        \E r \in Shards : ~Blocked(r) /\ (child[r].pc # "gone" \/ r \notin markers)

\* All producers of a task, whether pending or not.
Ancestors ==
    LET up[t \in Tasks] == UNION {{d} \union up[d] : d \in plan.graph[t]} IN up

\* A shard starts a task only when its producers are settled, also those it
\* depends on only through finished tasks or tasks of the other platform.  What
\* a task that never ran would have waited for is not waited for.
StartsAfterProducers ==
    parent # "gone" =>
        \A s \in Shards : child[s].pc = "running" =>
            LET above == Ancestors[child[s].at] \intersect plan.pending IN
            \A a \in above : Settled(a) \/ \E b \in above \ ran : a \in Ancestors[b]

\* What is settled is settled for good: while the shards work no artifact of a
\* settled task appears any more, so a consumer that found none was right.
SettledIsFinal ==
    [][parent = "pool" /\ parent' = "pool" =>
         \A t \in plan.pending : Settled(t) => (t \in artifacts' <=> t \in artifacts)]_vars

\* Shards and sweep together count every task once, and as produced exactly
\* what was.
CountsOnce ==
    parent = "swept" =>
        /\ counts.ok = Cardinality(artifacts)
        /\ counts.ok + counts.failed + counts.skipped = Cardinality(Tasks)

\* Whatever dies, the shards end, and a parent that lives sweeps.
ShardsEnd == <>Over
=============================================================================
