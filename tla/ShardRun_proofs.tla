--------------------------- MODULE ShardRun_proofs ---------------------------
(***************************************************************************)
(* Theorems about ShardRun, for every number of tasks and shards and every *)
(* plan whose dependencies point backwards in the order: types, no wait    *)
(* closes a cycle, what is settled is settled for good, no task starts     *)
(* before its producers are settled, and each task is counted once.        *)
(***************************************************************************)
EXTENDS ShardRun, ShardPlan, TLAPS, FiniteSetTheorems, WellFoundedInduction

InLoop(s) == child[s].pc \in {"next", "waiting", "running"}
AtTask(s) == child[s].pc \in {"waiting", "running"}

\* A shard has its own tasks before it, the present one first.
ItemsInv(s) ==
    /\ child[s].items \subseteq Mine(s)
    /\ child[s].at \in Mine(s) \union {None}
    /\ AtTask(s) => child[s].at \in Mine(s)
    /\ \A i \in child[s].items : child[s].at < i

\* Of its own tasks exactly those that are over are marked; the last one only
\* when the shard turns to the next.
MarksInv(s) ==
    /\ child[s].pc = "boot" => Mine(s) \intersect done = {}
    /\ child[s].items \intersect done = {}
    /\ AtTask(s) => child[s].at \notin done
    /\ InLoop(s) => \A t \in Mine(s) : t \in done \/ t = child[s].at \/ t \in child[s].items

ShardInv ==
    /\ TypeOK
    /\ \A s \in Shards : ItemsInv(s) /\ MarksInv(s)
    /\ \A s \in markers : child[s].pc = "gone"

-----------------------------------------------------------------------------
(* Minima.                                                                  *)

\* Every set of tasks has a first one.
LEMMA LeastNumber ==
    ASSUME NEW S \in SUBSET Nat, S # {}
    PROVE  \E m \in S : \A n \in S : m <= n
<1>1. PICK m \in S : \A n \in S : ~ (<<n, m>> \in OpToRel(<, Nat))
    BY NatLessThanWellFounded, WFMin
<1>2. ASSUME NEW n \in S PROVE m <= n
    <2>1. ~ (<<n, m>> \in OpToRel(<, Nat))
        BY <1>1
    <2>2. n \in Nat /\ m \in Nat
        OBVIOUS
    <2>3. ~ (n < m)
        BY <2>1, <2>2 DEF OpToRel
    <2> QED BY <2>2, <2>3
<1> QED BY <1>2

\* First picks the earliest task.
LEMMA FirstIsLeast ==
    ASSUME NEW S \in SUBSET Nat, S # {}
    PROVE  First(S) \in S /\ \A n \in S : First(S) <= n
BY LeastNumber DEF First, Min

-----------------------------------------------------------------------------
(* Types.                                                                   *)

LEMMA InitTypes == Init => TypeOK
<1> SUFFICES ASSUME Init PROVE TypeOK
    OBVIOUS
<1>1. WellFormed(plan)
    BY ShardAssumption DEF Init, ShardAssumption
<1>2. child \in [Shards -> [pc : {"boot", "next", "waiting", "running", "closed", "gone"},
                            items : SUBSET Tasks, at : Tasks \union {None}]]
    BY DEF Init, Idle
<1>3. faults \in 0..MaxFaults
    BY ShardAssumption DEF Init, ShardAssumption
<1> QED BY <1>1, <1>2, <1>3 DEF Init, TypeOK

\* The counts of a sweep are natural numbers.
LEMMA SweepCounts ==
    ASSUME TypeOK, Sweep
    PROVE  counts' \in [ok : Nat, failed : Nat, skipped : Nat] /\ artifacts' \subseteq plan.pending
<1>1. IsFiniteSet(Tasks) /\ plan.pending \subseteq Tasks /\ artifacts \subseteq plan.pending
    BY ShardAssumption DEF ShardAssumption, TypeOK, WellFormed
<1>2. PICK made \in SUBSET (plan.pending \ artifacts) :
      \E failed \in SUBSET (plan.pending \ (artifacts \union made)) :
          /\ artifacts' = artifacts \union made
          /\ counts' = [ok |-> Cardinality(made) + Produced, failed |-> Cardinality(failed),
                        skipped |-> Max({0, Cardinality(Tasks \ (made \union failed)) - Produced})]
    BY DEF Sweep
<1>3. PICK failed \in SUBSET (plan.pending \ (artifacts \union made)) :
          /\ artifacts' = artifacts \union made
          /\ counts' = [ok |-> Cardinality(made) + Produced, failed |-> Cardinality(failed),
                        skipped |-> Max({0, Cardinality(Tasks \ (made \union failed)) - Produced})]
    BY <1>2
<1>4. ASSUME NEW S \in SUBSET Tasks PROVE Cardinality(S) \in Nat
    BY <1>1, FS_Subset, FS_CardinalityType
<1>5. Produced \in Nat /\ Cardinality(made) \in Nat /\ Cardinality(failed) \in Nat
    <2>1. artifacts \in SUBSET Tasks /\ made \in SUBSET Tasks /\ failed \in SUBSET Tasks
        BY <1>1
    <2> QED BY <1>4, <2>1 DEF Produced
<1>6. ASSUME NEW n \in Int PROVE Max({0, n}) \in Nat
    <2>1. \E x \in {0, n} : \A y \in {0, n} : x >= y
        OBVIOUS
    <2> QED BY <2>1 DEF Max
<1>7. Cardinality(Tasks \ (made \union failed)) - Produced \in Int
    <2>1. Tasks \ (made \union failed) \in SUBSET Tasks
        OBVIOUS
    <2>2. Cardinality(Tasks \ (made \union failed)) \in Nat
        BY <1>4, <2>1
    <2> QED BY <1>5, <2>2
<1>8. Max({0, Cardinality(Tasks \ (made \union failed)) - Produced}) \in Nat
    BY <1>6, <1>7
<1> QED BY <1>1, <1>3, <1>5, <1>8

LEMMA NextTypes ==
    ASSUME TypeOK, \A s \in Shards : ItemsInv(s), [Next]_vars
    PROVE  TypeOK'
<1> DEFINE ChildType == [pc : {"boot", "next", "waiting", "running", "closed", "gone"},
                         items : SUBSET Tasks, at : Tasks \union {None}]
<1>1. /\ plan.pending \subseteq Tasks
      /\ \A s \in Shards : Mine(s) \subseteq plan.pending
      /\ child \in [Shards -> ChildType]
      /\ Idle \in ChildType
    BY DEF TypeOK, WellFormed, Mine, Idle
<1>2. ASSUME NEW s \in Shards, child[s].items # {}
      PROVE  First(child[s].items) \in child[s].items /\ First(child[s].items) \in Tasks
    <2>1. child[s].items \in SUBSET Nat /\ child[s].items \subseteq Tasks
        BY <1>1, ShardAssumption DEF ShardAssumption
    <2> QED BY <1>2, <2>1, FirstIsLeast
<1>3. ASSUME NEW s \in Shards, Boot(s) PROVE TypeOK'
    <2>1. PICK skipped \in SUBSET Mine(s) :
             /\ done' = done \union skipped
             /\ child' = [child EXCEPT ![s] = [pc |-> "next", items |-> Mine(s) \ skipped, at |-> None]]
        BY <1>3 DEF Boot
    <2>2. [pc |-> "next", items |-> Mine(s) \ skipped, at |-> None] \in ChildType
        BY <1>1
    <2>3. child' \in [Shards -> ChildType] /\ done' \subseteq plan.pending
        BY <1>1, <2>1, <2>2 DEF TypeOK
    <2> QED BY <1>3, <2>3 DEF Boot, TypeOK, WellFormed
<1>4. ASSUME NEW s \in Shards, Resume(s) PROVE TypeOK'
    <2>1. [pc |-> "waiting", items |-> child[s].items \ {First(child[s].items)},
           at |-> First(child[s].items)] \in ChildType
        BY <1>1, <1>2, <1>4 DEF Resume
    <2>2. child' \in [Shards -> ChildType]
        BY <1>1, <1>4, <2>1 DEF Resume
    <2>3. Marked(s) \subseteq plan.pending
        BY <1>1 DEF Marked, ItemsInv
    <2> QED BY <1>4, <2>2, <2>3 DEF Resume, TypeOK, WellFormed
<1>5. ASSUME NEW s \in Shards, Enter(s) PROVE TypeOK'
    <2>1. child' \in [Shards -> ChildType]
        BY <1>1, <1>5 DEF Enter
    <2>2. child[s].at \in plan.pending
        BY <1>1, <1>5 DEF Enter, ItemsInv, AtTask
    <2> QED BY <1>5, <2>1, <2>2 DEF Enter, TypeOK, WellFormed
<1>6. ASSUME NEW s \in Shards, RunTask(s) PROVE TypeOK'
    <2>1. child' \in [Shards -> ChildType]
        BY <1>1, <1>6 DEF RunTask
    <2>2. child[s].at \in plan.pending
        BY <1>1, <1>6 DEF RunTask, ItemsInv, AtTask
    <2> QED BY <1>6, <2>1, <2>2 DEF RunTask, TypeOK, WellFormed
<1>7. ASSUME NEW s \in Shards, Close(s) PROVE TypeOK'
    <2>1. child' \in [Shards -> ChildType]
        BY <1>1, <1>7 DEF Close, Idle
    <2> QED BY <1>1, <1>7, <2>1 DEF Close, TypeOK, WellFormed
<1>8. ASSUME NEW s \in Shards, Exit(s) \/ Crash(s) PROVE TypeOK'
    <2>1. child' \in [Shards -> ChildType]
        BY <1>1, <1>8 DEF Exit, Crash
    <2>2. faults' \in 0..MaxFaults
        BY <1>8, ShardAssumption DEF Exit, Crash, TypeOK, ShardAssumption
    <2> QED BY <1>8, <2>1, <2>2 DEF Exit, Crash, TypeOK, WellFormed
<1>9. ASSUME NEW s \in Shards, MarkExit(s) PROVE TypeOK'
    BY <1>9 DEF MarkExit, TypeOK, WellFormed
<1>10. CASE Sweep
    BY <1>10, SweepCounts DEF Sweep, TypeOK, WellFormed
<1>11. CASE ParentDies
    <2>1. faults' \in 0..MaxFaults
        BY <1>11, ShardAssumption DEF ParentDies, TypeOK, ShardAssumption
    <2> QED BY <1>11, <2>1 DEF ParentDies, TypeOK, WellFormed
<1>12. CASE UNCHANGED vars
    BY <1>12 DEF vars, TypeOK, WellFormed
<1> QED BY <1>3, <1>4, <1>5, <1>6, <1>7, <1>8, <1>9, <1>10, <1>11, <1>12 DEF Next, ShardStep

-----------------------------------------------------------------------------
(* What a shard has before it and what is marked.                           *)

LEMMA InitShards == Init => \A s \in Shards : ItemsInv(s) /\ MarksInv(s)
BY DEF Init, ItemsInv, MarksInv, AtTask, InLoop, Idle

\* A shard is not disturbed by what another one marks: their tasks are
\* different.
LEMMA OthersKeep ==
    ASSUME NEW s \in Shards, NEW r \in Shards, r # s,
           ItemsInv(r), MarksInv(r), UNCHANGED plan, child'[r] = child[r],
           done \subseteq done', done' \ done \subseteq Mine(s)
    PROVE  ItemsInv(r)' /\ MarksInv(r)'
<1>1. Mine(r)' = Mine(r) /\ Mine(r) \intersect Mine(s) = {}
    BY DEF Mine
<1>2. InLoop(r)' = InLoop(r) /\ AtTask(r)' = AtTask(r)
    BY DEF InLoop, AtTask
<1>3. ItemsInv(r)'
    BY <1>1, <1>2 DEF ItemsInv
<1>4. MarksInv(r)'
    <2>1. Mine(r) \intersect done' = Mine(r) \intersect done
        BY <1>1
    <2> QED BY <1>1, <1>2, <2>1 DEF MarksInv, ItemsInv
<1> QED BY <1>3, <1>4

LEMMA BootShards ==
    ASSUME ShardInv, NEW s \in Shards, Boot(s)
    PROVE  \A r \in Shards : ItemsInv(r)' /\ MarksInv(r)'
<1>1. PICK skipped \in SUBSET Mine(s) :
         /\ done' = done \union skipped
         /\ child' = [child EXCEPT ![s] = [pc |-> "next", items |-> Mine(s) \ skipped, at |-> None]]
    BY DEF Boot
<1>2. UNCHANGED plan /\ Mine(s)' = Mine(s)
    BY DEF Boot, Mine
<1>3. child'[s] = [pc |-> "next", items |-> Mine(s) \ skipped, at |-> None]
    BY <1>1 DEF ShardInv, TypeOK
<1>4. Mine(s) \intersect done = {}
    BY DEF ShardInv, MarksInv, Boot
<1>5. ItemsInv(s)'
    <2>1. \A i \in Mine(s) : None < i
        <3>1. Mine(s) \subseteq Tasks
            BY DEF ShardInv, TypeOK, WellFormed, Mine
        <3>2. \A i \in Tasks : None < i
            BY ShardAssumption DEF ShardAssumption, None
        <3> QED BY <3>1, <3>2
    <2> QED BY <1>2, <1>3, <2>1 DEF ItemsInv, AtTask
<1>6. MarksInv(s)'
    BY <1>1, <1>2, <1>3, <1>4 DEF MarksInv, AtTask, InLoop
<1>7. ASSUME NEW r \in Shards, r # s PROVE ItemsInv(r)' /\ MarksInv(r)'
    <2>1. child'[r] = child[r]
        BY <1>1, <1>7 DEF ShardInv, TypeOK
    <2>2. ItemsInv(r) /\ MarksInv(r)
        BY DEF ShardInv
    <2> QED BY <1>1, <1>2, <1>7, <2>1, <2>2, OthersKeep
<1> QED BY <1>5, <1>6, <1>7

LEMMA ResumeShards ==
    ASSUME ShardInv, NEW s \in Shards, Resume(s)
    PROVE  \A r \in Shards : ItemsInv(r)' /\ MarksInv(r)'
<1> DEFINE t == First(child[s].items)
<1>1. UNCHANGED plan /\ Mine(s)' = Mine(s)
    BY DEF Resume, Mine
<1>2. child'[s] = [pc |-> "waiting", items |-> child[s].items \ {t}, at |-> t]
    BY DEF Resume, ShardInv, TypeOK
<1>3. ItemsInv(s) /\ MarksInv(s) /\ InLoop(s)
    BY DEF ShardInv, Resume, InLoop
<1>4. t \in child[s].items /\ \A i \in child[s].items : t <= i
    <2>1. child[s].items \in SUBSET Nat
        BY ShardAssumption DEF ShardAssumption, ShardInv, TypeOK
    <2>2. child[s].items # {}
        BY DEF Resume
    <2> QED BY <2>1, <2>2, FirstIsLeast
<1>5. done' = done \union Marked(s) /\ Marked(s) \subseteq Mine(s)
    BY <1>3 DEF Resume, Marked, ItemsInv
<1>6. \A i \in child[s].items : i \in Nat
    BY ShardAssumption DEF ShardAssumption, ShardInv, TypeOK
<1>7. ItemsInv(s)'
    <2>1. t \in Mine(s)
        BY <1>3, <1>4 DEF ItemsInv
    <2>2. \A i \in child[s].items \ {t} : t < i
        BY <1>4, <1>6
    <2> HIDE DEF t
    <2> QED BY <1>1, <1>2, <1>3, <2>1, <2>2 DEF ItemsInv, AtTask
<1>8. MarksInv(s)'
    <2>1. child[s].items \intersect done' = {}
        <3>1. \A i \in child[s].items : i # child[s].at
            BY <1>3, <1>6 DEF ItemsInv
        <3> QED BY <1>3, <1>5, <3>1 DEF MarksInv, Marked
    <2>2. \A u \in Mine(s) : u \in done' \/ u \in child[s].items
        <3>1. \A u \in Mine(s) : u # None
            BY ShardAssumption DEF ShardAssumption, ShardInv, TypeOK, WellFormed, Mine, None
        <3> QED BY <1>3, <1>5, <3>1 DEF MarksInv, Marked
    <2> HIDE DEF t
    <2> QED BY <1>1, <1>2, <1>4, <2>1, <2>2 DEF MarksInv, AtTask, InLoop
<1>9. ASSUME NEW r \in Shards, r # s PROVE ItemsInv(r)' /\ MarksInv(r)'
    <2>1. child'[r] = child[r]
        BY <1>9 DEF Resume, ShardInv, TypeOK
    <2>2. ItemsInv(r) /\ MarksInv(r)
        BY DEF ShardInv
    <2> QED BY <1>1, <1>5, <1>9, <2>1, <2>2, OthersKeep
<1> QED BY <1>7, <1>8, <1>9

\* A shard goes from waiting to running and on, with the same task.
LEMMA WorkShards ==
    ASSUME ShardInv, NEW s \in Shards, Enter(s) \/ RunTask(s)
    PROVE  \A r \in Shards : ItemsInv(r)' /\ MarksInv(r)'
<1>1. UNCHANGED <<plan, done>> /\ Mine(s)' = Mine(s)
    BY DEF Enter, RunTask, Mine
<1>2. /\ child'[s].items = child[s].items /\ child'[s].at = child[s].at
      /\ child'[s].pc \in {"running", "next"}
    BY DEF Enter, RunTask, ShardInv, TypeOK
<1>3. ItemsInv(s) /\ MarksInv(s) /\ InLoop(s) /\ AtTask(s)
    BY DEF ShardInv, Enter, RunTask, InLoop, AtTask
<1>4. ItemsInv(s)' /\ MarksInv(s)'
    BY <1>1, <1>2, <1>3 DEF ItemsInv, MarksInv, AtTask, InLoop
<1>5. ASSUME NEW r \in Shards, r # s PROVE ItemsInv(r)' /\ MarksInv(r)'
    <2>1. child'[r] = child[r]
        BY <1>5 DEF Enter, RunTask, ShardInv, TypeOK
    <2>2. ItemsInv(r) /\ MarksInv(r)
        BY DEF ShardInv
    <2> QED BY <1>1, <1>5, <2>1, <2>2, OthersKeep
<1> QED BY <1>4, <1>5

\* A shard leaves its loop, or its process ends: it has nothing before it.
LEMMA EndShards ==
    ASSUME ShardInv, NEW s \in Shards, Close(s) \/ Exit(s) \/ Crash(s)
    PROVE  \A r \in Shards : ItemsInv(r)' /\ MarksInv(r)'
<1>1. UNCHANGED plan /\ Mine(s)' = Mine(s)
    BY DEF Close, Exit, Crash, Mine
<1>2. child'[s].items = {} /\ child'[s].at = None /\ child'[s].pc \in {"closed", "gone"}
    BY DEF Close, Exit, Crash, ShardInv, TypeOK, Idle
<1>3. done \subseteq done' /\ done' \ done \subseteq Mine(s)
    BY DEF Close, Exit, Crash
<1>4. ItemsInv(s)' /\ MarksInv(s)'
    BY <1>1, <1>2 DEF ItemsInv, MarksInv, AtTask, InLoop
<1>5. ASSUME NEW r \in Shards, r # s PROVE ItemsInv(r)' /\ MarksInv(r)'
    <2>1. child'[r] = child[r]
        BY <1>5 DEF Close, Exit, Crash, ShardInv, TypeOK
    <2>2. ItemsInv(r) /\ MarksInv(r)
        BY DEF ShardInv
    <2> QED BY <1>1, <1>3, <1>5, <2>1, <2>2, OthersKeep
<1> QED BY <1>4, <1>5

\* The parent touches no shard.
LEMMA ParentShards ==
    ASSUME ShardInv, UNCHANGED <<plan, child, done>>
    PROVE  \A r \in Shards : ItemsInv(r)' /\ MarksInv(r)'
BY DEF ShardInv, ItemsInv, MarksInv, AtTask, InLoop, Mine

LEMMA NextShards ==
    ASSUME ShardInv, [Next]_vars
    PROVE  \A r \in Shards : ItemsInv(r)' /\ MarksInv(r)'
<1>1. ASSUME NEW s \in Shards, ShardStep(s) \/ Crash(s)
      PROVE  \A r \in Shards : ItemsInv(r)' /\ MarksInv(r)'
    BY <1>1, BootShards, ResumeShards, WorkShards, EndShards DEF ShardStep
<1>2. CASE (\E s \in Shards : MarkExit(s)) \/ Sweep \/ ParentDies \/ UNCHANGED vars
    <2>1. UNCHANGED <<plan, child, done>>
        BY <1>2 DEF MarkExit, Sweep, ParentDies, vars
    <2> QED BY <2>1, ParentShards
<1> QED BY <1>1, <1>2 DEF Next

\* An exit marker is set when the process is gone, and no process comes back.
LEMMA NextMarkers ==
    ASSUME ShardInv, [Next]_vars
    PROVE  \A r \in markers' : child'[r].pc = "gone"
<1>1. markers \subseteq Shards /\ \A r \in markers : child[r].pc = "gone"
    BY DEF ShardInv, TypeOK
<1>2. ASSUME NEW s \in Shards, ShardStep(s) \/ Crash(s)
      PROVE  \A r \in markers' : child'[r].pc = "gone"
    <2>1. child[s].pc # "gone" /\ markers' = markers
        BY <1>2 DEF ShardStep, Boot, Resume, Enter, RunTask, Close, Exit, Crash
    <2>2. ASSUME NEW r \in Shards, r # s PROVE child'[r] = child[r]
        BY <1>2, <2>2 DEF ShardStep, Boot, Resume, Enter, RunTask, Close, Exit, Crash, ShardInv, TypeOK
    <2> QED BY <1>1, <2>1, <2>2
<1>3. CASE (\E s \in Shards : MarkExit(s)) \/ Sweep \/ ParentDies \/ UNCHANGED vars
    BY <1>1, <1>3 DEF MarkExit, Sweep, ParentDies, vars
<1> QED BY <1>2, <1>3 DEF Next

LEMMA ShardInductive == Spec => []ShardInv
<1>1. Init => ShardInv
    BY InitTypes, InitShards DEF Init, ShardInv, Idle
<1>2. ShardInv /\ [Next]_vars => ShardInv'
    BY NextTypes, NextShards, NextMarkers DEF ShardInv
<1> QED BY <1>1, <1>2, PTL DEF Spec

-----------------------------------------------------------------------------
(* The theorems.                                                            *)

\* The plan, the marker files and the processes of the shards keep their types
\* in every step of _run_shards and its children.
THEOREM ShardTypes == Spec => []TypeOK
<1>1. ShardInv => TypeOK
    BY DEF ShardInv
<1> QED BY <1>1, ShardInductive, PTL

LEMMA BlockedBehind ==
    ASSUME ShardInv, NEW s \in Shards, NEW r \in Shards, Blocked(r),
           NEW d \in Foreign(child[s].at), Blocked(s), ~Settled(d), plan.owner[d] = r
    PROVE  child[r].at < child[s].at
<1>1. child[s].at \in plan.pending /\ child[r].at \in plan.pending
    BY DEF ShardInv, Blocked, ItemsInv, AtTask, Mine
<1>2. plan.pending \subseteq Nat
    BY ShardAssumption DEF ShardAssumption, ShardInv, TypeOK, WellFormed
<1>3. d \in plan.pending /\ d < child[s].at
    BY <1>1 DEF Foreign, ShardInv, TypeOK, WellFormed
<1>4. d \in Mine(r) /\ d \notin done
    BY <1>3 DEF Mine, Settled
<1>5. d = child[r].at \/ d \in child[r].items
    BY <1>4 DEF ShardInv, MarksInv, InLoop, Blocked
<1>6. child[r].at <= d
    BY <1>1, <1>2, <1>3, <1>5 DEF ShardInv, ItemsInv
<1> QED BY <1>1, <1>2, <1>3, <1>6

\* No wait of a shard can close a cycle, whatever dies (ida_shards.py: every
\* shard keeps the one global order, and an exit marker settles all).
THEOREM NoWaitClosesACycle == Spec => []NoCircularWait
<1>1. ShardInv => NoCircularWait
    <2> SUFFICES ASSUME ShardInv, NEW s0 \in Shards, Blocked(s0),
                        \A r \in Shards : Blocked(r) \/ (child[r].pc = "gone" /\ r \in markers)
                 PROVE  FALSE
        BY DEF NoCircularWait
    <2> DEFINE Ats == {child[s].at : s \in {r \in Shards : Blocked(r)}}
    <2>1. Ats \in SUBSET Nat /\ Ats # {}
        <3>1. ASSUME NEW s \in Shards PROVE child[s].at \in Nat
            <4>1. child[s].at \in Tasks \/ child[s].at = 0
                BY DEF ShardInv, TypeOK, None
            <4>2. Tasks \subseteq Nat
                BY ShardAssumption DEF ShardAssumption
            <4>3. ASSUME NEW a \in Tasks PROVE a \in Nat
                BY <4>2
            <4> QED BY <4>1, <4>3
        <3> QED BY <3>1
    <2>2. PICK m \in Ats : \A n \in Ats : m <= n
        <3> HIDE DEF Ats
        <3> QED BY <2>1, LeastNumber
    <2>3. PICK s \in Shards : Blocked(s) /\ child[s].at = m
        BY <2>2
    <2>4. PICK d \in Foreign(child[s].at) : ~Settled(d)
        BY <2>3 DEF Blocked
    <2> DEFINE r == plan.owner[d]
    <2>5. r \in Shards /\ r \notin markers
        <3>1. child[s].at \in plan.pending
            BY <2>3 DEF ShardInv, Blocked, ItemsInv, AtTask, Mine
        <3> QED BY <2>4, <3>1 DEF Foreign, ShardInv, TypeOK, WellFormed, Settled
    <2>6. Blocked(r)
        BY <2>5
    <2>7. child[r].at < child[s].at
        BY <2>3, <2>4, <2>5, <2>6, BlockedBehind
    <2>8. child[r].at \in Ats /\ child[s].at \in Ats
        BY <2>3, <2>5, <2>6
    <2>9. child[s].at <= child[r].at
        BY <2>2, <2>3, <2>8
    <2>10. child[s].at \in Nat /\ child[r].at \in Nat
        BY <2>1, <2>8
    <2> QED BY <2>7, <2>9, <2>10
<1> QED BY <1>1, ShardInductive, PTL

\* While the shards work no artifact of a settled task appears: what a consumer
\* was told to read is final (is_settled, and the markers of iterate and of the
\* pump threads it reads).
THEOREM SettledStays == Spec => SettledIsFinal
<1> DEFINE Final == parent = "pool" /\ parent' = "pool" =>
                        \A t \in plan.pending : Settled(t) => (t \in artifacts' <=> t \in artifacts)
<1>1. ASSUME ShardInv, [Next]_vars PROVE Final
    <2>1. ASSUME NEW s \in Shards, RunTask(s) PROVE Final
        <3>1. child[s].at \in Mine(s) /\ child[s].at \notin done /\ s \notin markers
            BY <1>1, <2>1 DEF ShardInv, ItemsInv, MarksInv, AtTask, RunTask
        <3>2. ~Settled(child[s].at)
            BY <3>1 DEF Settled, Mine
        <3> QED BY <2>1, <3>2 DEF RunTask
    <2>2. CASE Sweep
        BY <2>2 DEF Sweep
    <2>3. ASSUME ~Sweep, \A s \in Shards : ~RunTask(s) PROVE UNCHANGED artifacts
        BY <1>1, <2>3 DEF Next, ShardStep, Boot, Resume, Enter, Close, Exit, Crash, MarkExit,
            ParentDies, vars
    <2> QED BY <2>1, <2>2, <2>3
<1>2. ShardInv /\ [Next]_vars => [Final]_vars
    BY <1>1
<1> QED BY <1>2, ShardInductive, PTL DEF Spec, SettledIsFinal

-----------------------------------------------------------------------------
(* The plans of the planner.                                                *)

\* What the planner makes of a graph without cycles: PlanOf, up to the owners.
Planned(p) ==
  /\ \A t \in Tasks : \A d \in p.graph[t] : d < t
  /\ p.deps = Collapse(p.graph, p.pending)

\* The least function that a recursive definition over a graph asks for: what
\* is reached from a task over its edges g, with the tasks in c added at each
\* task on the way.
LEMMA LeastReach ==
    ASSUME NEW g \in [Tasks -> SUBSET Tasks]
    PROVE  \E f \in [Tasks -> SUBSET Tasks] : \A t \in Tasks : \A a : a \in f[t] <=>
              \E d \in g[t] : a = d \/ a \in f[d]
<1> DEFINE Closed(C, t) == g[t] \subseteq C /\ \A x \in C : g[x] \subseteq C
           f == [t \in Tasks |-> {a \in Tasks : \A C \in SUBSET Tasks : Closed(C, t) => a \in C}]
<1>1. \A t \in Tasks : g[t] \subseteq Tasks
  OBVIOUS
<1>2. \A t \in Tasks : \A a : a \in f[t] <=>
         a \in Tasks /\ \A C \in SUBSET Tasks : Closed(C, t) => a \in C
  OBVIOUS
<1>3. f \in [Tasks -> SUBSET Tasks]
  OBVIOUS
<1> HIDE DEF f
<1>4. ASSUME NEW t \in Tasks, NEW d \in g[t] PROVE d \in f[t] /\ f[d] \subseteq f[t]
  BY <1>1, <1>2
<1>5. ASSUME NEW t \in Tasks, NEW a \in f[t] PROVE \E d \in g[t] : a = d \/ a \in f[d]
  <2> DEFINE C == {x \in Tasks : \E d \in g[t] : x = d \/ x \in f[d]}
  <2>1. \A x \in C : g[x] \subseteq C
    <3> SUFFICES ASSUME NEW x \in C, NEW y \in g[x] PROVE y \in C
      OBVIOUS
    <3>1. PICK d \in g[t] : x = d \/ x \in f[d]
      OBVIOUS
    <3>2. d \in Tasks /\ y \in Tasks
      BY <1>1
    <3>3. y \in f[d]
      BY <1>1, <1>2, <3>1, <3>2
    <3> QED BY <3>1, <3>2, <3>3
  <2>2. Closed(C, t) /\ C \in SUBSET Tasks
    BY <1>1, <2>1
  <2>3. a \in C
    BY <1>2, <2>2
  <2> QED BY <2>3
<1> QED BY <1>3, <1>4, <1>5

LEMMA AncestorsStep ==
    ASSUME WellFormed(plan), NEW t \in Tasks, NEW a
    PROVE  a \in Ancestors[t] <=> \E d \in plan.graph[t] : a = d \/ a \in Ancestors[d]
<1> DEFINE g == plan.graph
           Eq(f) == f = [u \in Tasks |-> UNION {{d} \union f[d] : d \in g[u]}]
<1>1. g \in [Tasks -> SUBSET Tasks]
  BY DEF WellFormed
<1>2. PICK f \in [Tasks -> SUBSET Tasks] : \A u \in Tasks : \A b : b \in f[u] <=>
              \E d \in g[u] : b = d \/ b \in f[d]
  <2> HIDE DEF g
  <2> QED BY <1>1, LeastReach
<1>3. Eq(f)
  <2>1. ASSUME NEW u \in Tasks PROVE f[u] = UNION {{d} \union f[d] : d \in g[u]}
    BY <1>2 
  <2> QED BY <2>1
<1>4. Ancestors = CHOOSE h : Eq(h)
  BY DEF Ancestors
<1>5. Eq(Ancestors)
  <2> HIDE DEF Eq
  <2> QED BY <1>3, <1>4
<1>6. Ancestors[t] = UNION {{d} \union Ancestors[d] : d \in g[t]}
  BY <1>5
<1> HIDE DEF g, Eq
<1>7. \A d \in g[t] : {d} \union Ancestors[d] \in {{e} \union Ancestors[e] : e \in g[t]}
  OBVIOUS
<1> QED BY <1>6, <1>7 DEF g

\* reach is the memo table of collapse_deps.
Memo(g, keep, reach) ==
  /\ Collapse(g, keep) = [t \in keep |-> reach[t]]
  /\ \A t \in Tasks : \A a : a \in reach[t] <=>
        \E d \in g[t] : IF d \in keep THEN a = d ELSE a \in reach[d]

\* The dependencies that the planner keeps for the pending tasks.
LEMMA CollapseStep ==
    ASSUME NEW g \in [Tasks -> SUBSET Tasks], NEW keep \in SUBSET Tasks
    PROVE  \E reach : Memo(g, keep, reach)
<1> DEFINE Eq(f) == f = [t \in DOMAIN g |-> UNION {IF d \in keep THEN {d} ELSE f[d] : d \in g[t]}]
           h == [t \in Tasks |-> g[t] \ keep]
           reach == CHOOSE f : Eq(f)
<1>1. h \in [Tasks -> SUBSET Tasks]
  OBVIOUS
<1>2. PICK over \in [Tasks -> SUBSET Tasks] : \A t \in Tasks : \A a : a \in over[t] <=>
         \E d \in h[t] : a = d \/ a \in over[d]
  <2> HIDE DEF h
  <2> QED BY <1>1, LeastReach
<1> DEFINE f == [t \in Tasks |-> {a \in keep : a \in g[t] \/ \E d \in over[t] : a \in g[d]}]
<1>3. \A t \in Tasks : \A a : a \in f[t] <=>
         \E d \in g[t] : IF d \in keep THEN a = d ELSE a \in f[d]
  <2> SUFFICES ASSUME NEW t \in Tasks, NEW a
               PROVE  a \in f[t] <=> \E d \in g[t] : IF d \in keep THEN a = d ELSE a \in f[d]
    OBVIOUS
  <2>1. a \in f[t] <=> a \in keep /\ (a \in g[t] \/ \E d \in over[t] : a \in g[d])
    OBVIOUS
  <2>2. ASSUME NEW d \in g[t] \ keep
        PROVE  a \in f[d] <=> a \in keep /\ (a \in g[d] \/ \E e \in over[d] : a \in g[e])
    OBVIOUS
  <2>3. \A e : e \in over[t] <=> \E d \in g[t] \ keep : e = d \/ e \in over[d]
    BY <1>2
  <2> HIDE DEF f
  <2> QED BY <2>1, <2>2, <2>3
<1>4. Eq(f)
  <2>1. ASSUME NEW t \in Tasks
        PROVE  f[t] = UNION {IF d \in keep THEN {d} ELSE f[d] : d \in g[t]}
    <3> HIDE DEF f
    <3> QED BY <1>3
  <2> QED BY <2>1
<1>5. Eq(reach)
  <2> HIDE DEF Eq, f
  <2> QED BY <1>4
<1>6. Collapse(g, keep) = [t \in keep |-> reach[t]]
  BY DEF Collapse
<1>7. \A t \in Tasks : reach[t] = UNION {IF d \in keep THEN {d} ELSE reach[d] : d \in g[t]}
  BY <1>5
<1> HIDE DEF reach, Eq
<1>8. \A t \in Tasks : \A a : a \in reach[t] <=>
         \E d \in g[t] : IF d \in keep THEN a = d ELSE a \in reach[d]
  BY <1>7
<1> QED BY <1>6, <1>8 DEF Memo

\* Induction over the order of the tasks.
LEMMA FirstCounterexample ==
  ASSUME NEW S \in SUBSET Tasks,
         \A t \in Tasks : (\A d \in Tasks : d < t => d \in S) => t \in S
  PROVE  S = Tasks
<1> SUFFICES ASSUME S # Tasks PROVE FALSE
  OBVIOUS
<1>1. Tasks \ S \in SUBSET Nat /\ Tasks \ S # {}
  BY ShardAssumption DEF ShardAssumption
<1>2. PICK t \in Tasks \ S : \A d \in Tasks \ S : t <= d
  BY <1>1, LeastNumber
<1>3. ASSUME NEW d \in Tasks, d < t PROVE d \in S
  <2>1. t \in Nat /\ d \in Nat
    BY ShardAssumption DEF ShardAssumption
  <2>2. ~ (t <= d)
    BY <1>3, <2>1
  <2> QED BY <1>2, <2>2
<1> QED BY <1>2, <1>3

LEMMA AncestorsTransitive ==
  ASSUME WellFormed(plan), Planned(plan), NEW t \in Tasks, NEW b \in Ancestors[t], NEW c \in Ancestors[b]
  PROVE  c \in Ancestors[t]
<1> DEFINE S == {u \in Tasks : \A x \in Ancestors[u] : Ancestors[x] \subseteq Ancestors[u]}
<1>1. ASSUME NEW u \in Tasks, \A d \in Tasks : d < u => d \in S PROVE u \in S
  <2> SUFFICES ASSUME NEW x \in Ancestors[u], NEW y \in Ancestors[x] PROVE y \in Ancestors[u]
    OBVIOUS
  <2>1. PICK d \in plan.graph[u] : x = d \/ x \in Ancestors[d]
    BY AncestorsStep
  <2>2. d \in Tasks /\ d < u
    BY DEF WellFormed, Planned
  <2>3. y \in Ancestors[d]
    BY <1>1, <2>1, <2>2
  <2> QED BY <2>3, AncestorsStep
<1>2. S = Tasks
  <2> HIDE DEF S
  <2> QED BY <1>1, FirstCounterexample DEF S
<1> QED BY <1>2

\* A dependency that the planner kept is a producer.
LEMMA DepsAreAncestors ==
  ASSUME WellFormed(plan), Planned(plan), NEW t \in plan.pending
  PROVE  plan.deps[t] \subseteq Ancestors[t]
<1>1. /\ plan.graph \in [Tasks -> SUBSET Tasks] /\ plan.pending \in SUBSET Tasks
      /\ \A u \in Tasks : \A d \in plan.graph[u] : d \in Tasks /\ d < u
  BY DEF WellFormed, Planned
<1>2. PICK reach : Memo(plan.graph, plan.pending, reach)
  BY <1>1, CollapseStep
<1> DEFINE S == {u \in Tasks : reach[u] \subseteq Ancestors[u]}
<1>3. ASSUME NEW u \in Tasks, \A d \in Tasks : d < u => d \in S PROVE u \in S
  <2> SUFFICES ASSUME NEW a \in reach[u] PROVE a \in Ancestors[u]
    OBVIOUS
  <2>1. PICK d \in plan.graph[u] : IF d \in plan.pending THEN a = d ELSE a \in reach[d]
    BY <1>2 DEF Memo
  <2>2. a = d \/ a \in Ancestors[d]
    BY <1>1, <1>3, <2>1
  <2> QED BY <2>2, AncestorsStep
<1>4. S = Tasks
  <2> HIDE DEF S
  <2> QED BY <1>3, FirstCounterexample DEF S
<1>5. plan.deps[t] = reach[t] /\ t \in Tasks
  BY <1>1, <1>2 DEF Planned, Memo
<1> QED BY <1>4, <1>5

\* What it dropped is a producer of one that it kept.
LEMMA DepsCover ==
  ASSUME WellFormed(plan), Planned(plan), NEW t \in plan.pending, NEW a \in Ancestors[t] \intersect plan.pending
  PROVE  a \in plan.deps[t] \/ \E b \in plan.deps[t] : a \in Ancestors[b]
<1>1. /\ plan.graph \in [Tasks -> SUBSET Tasks] /\ plan.pending \in SUBSET Tasks
      /\ \A u \in Tasks : \A d \in plan.graph[u] : d \in Tasks /\ d < u
  BY DEF WellFormed, Planned
<1>2. PICK reach : Memo(plan.graph, plan.pending, reach)
  BY <1>1, CollapseStep
<1> DEFINE S == {u \in Tasks : \A x \in Ancestors[u] \intersect plan.pending :
                    x \in reach[u] \/ \E b \in reach[u] : x \in Ancestors[b]}
<1>3. ASSUME NEW u \in Tasks, \A d \in Tasks : d < u => d \in S PROVE u \in S
  <2> SUFFICES ASSUME NEW x \in Ancestors[u] \intersect plan.pending
               PROVE  x \in reach[u] \/ \E b \in reach[u] : x \in Ancestors[b]
    OBVIOUS
  <2>1. PICK d \in plan.graph[u] : x = d \/ x \in Ancestors[d]
    BY AncestorsStep
  <2>2. CASE d \in plan.pending
    <3>1. d \in reach[u]
      BY <1>2, <2>2 DEF Memo
    <3> QED BY <2>1, <3>1
  <2>3. CASE d \notin plan.pending
    <3>1. d \in S /\ x \in Ancestors[d] \intersect plan.pending
      BY <1>1, <1>3, <2>1, <2>3
    <3>2. reach[d] \subseteq reach[u]
      BY <1>2, <2>3 DEF Memo
    <3> QED BY <3>1, <3>2
  <2> QED BY <2>2, <2>3
<1>4. S = Tasks
  <2> HIDE DEF S
  <2> QED BY <1>3, FirstCounterexample DEF S
<1>5. plan.deps[t] = reach[t] /\ t \in Tasks
  BY <1>1, <1>2 DEF Planned, Memo
<1> QED BY <1>4, <1>5

-----------------------------------------------------------------------------
(* What a started task waited for.                                          *)

RanInv ==
  /\ \A s \in Shards : child[s].pc = "running" => child[s].at \in ran
  /\ parent # "gone" => \A t \in ran : \A d \in plan.deps[t] : Settled(d)

LEMMA NextRan ==
  ASSUME ShardInv, RanInv, [Next]_vars
  PROVE  RanInv'
<1>1. \A d \in plan.pending : Settled(d) => Settled(d)'
  BY DEF Settled, Next, ShardStep, Boot, Resume, Enter, RunTask, Close, Exit, Crash, MarkExit, Sweep,
         ParentDies, vars
<1>2. plan' = plan /\ (parent' # "gone" => parent # "gone") /\ ran \subseteq plan.pending
      /\ plan.deps \in [plan.pending -> SUBSET plan.pending]
  BY DEF Next, ShardStep, Boot, Resume, Enter, RunTask, Close, Exit, Crash, MarkExit, Sweep,
         ParentDies, vars, ShardInv, TypeOK, WellFormed
<1>3. ASSUME NEW s \in Shards, Enter(s) PROVE RanInv'
  <2>1. child[s].at \in Mine(s) /\ child[s].at \in plan.pending /\ ran' = ran \union {child[s].at}
    BY <1>3 DEF Enter, ShardInv, ItemsInv, AtTask, Mine
  <2>2. ASSUME parent' # "gone", NEW d \in plan.deps[child[s].at] PROVE Settled(d)
    <3>1. CASE d \in Foreign(child[s].at)
      BY <1>2, <1>3, <2>2, <3>1 DEF Enter
    <3>2. CASE d \notin Foreign(child[s].at)
      <4>1. d \in Mine(s) /\ d < child[s].at
        BY <1>2, <2>1, <3>2 DEF Foreign, Mine, ShardInv, TypeOK, WellFormed
      <4>2. d \in done \/ d = child[s].at \/ d \in child[s].items
        BY <1>3, <4>1 DEF Enter, ShardInv, MarksInv, InLoop
      <4>3. d \in Nat /\ child[s].at \in Nat
        BY <2>1, <4>1, ShardAssumption DEF ShardAssumption, ShardInv, TypeOK, WellFormed, Mine
      <4>4. d \notin child[s].items /\ d # child[s].at
        BY <4>1, <4>3 DEF ShardInv, ItemsInv
      <4> QED BY <4>2, <4>4 DEF Settled
    <3> QED BY <3>1, <3>2
  <2>3. \A r \in Shards : child'[r].pc = "running" => child'[r].at \in ran'
    BY <1>3, <2>1 DEF Enter, RanInv, ShardInv, TypeOK
  <2>4. ASSUME parent' # "gone", NEW t \in ran', NEW d \in plan.deps[t] PROVE Settled(d)'
    BY <1>1, <1>2, <2>1, <2>2, <2>4 DEF RanInv
  <2> QED BY <1>2, <2>3, <2>4 DEF RanInv
<1>4. CASE ~ \E s \in Shards : Enter(s)
  <2>1. ran' = ran
    BY <1>4 DEF Next, ShardStep, Boot, Resume, RunTask, Close, Exit, Crash, MarkExit, Sweep,
                ParentDies, vars
  <2>2. \A r \in Shards : child'[r].pc = "running" => child'[r] = child[r]
    BY <1>4 DEF Next, ShardStep, Boot, Resume, RunTask, Close, Exit, Crash, MarkExit, Sweep,
                ParentDies, vars, ShardInv, TypeOK, Idle
  <2> QED BY <1>1, <1>2, <2>1, <2>2 DEF RanInv
<1> QED BY <1>3, <1>4

LEMMA RanInductive == Spec => [](ShardInv /\ RanInv)
<1>1. Init => RanInv
  BY DEF Init, RanInv, Idle
<1>2. ShardInv /\ RanInv /\ [Next]_vars => RanInv'
  BY NextRan
<1> QED BY <1>1, <1>2, ShardInductive, PTL DEF Spec

\* The plan is the one of the beginning.
LEMMA PlanStays == 
  ASSUME \A p \in Plans : Planned(p)
  PROVE  Spec => []Planned(plan)
<1>1. Init => Planned(plan)
  BY DEF Init
<1>2. Planned(plan) /\ [Next]_vars => Planned(plan)'
  BY DEF Next, ShardStep, Boot, Resume, Enter, RunTask, Close, Exit, Crash, MarkExit, Sweep, ParentDies, vars
<1> QED BY <1>1, <1>2, PTL DEF Spec

\* Under the plans of the planner a shard starts a task only when all its pending
\* producers are settled, also those that it depends on only through finished tasks
\* (collapse_deps), unless one of them waits itself for a task that never ran.
THEOREM ProducersComeFirst ==
  ASSUME \A p \in Plans : Planned(p)
  PROVE  Spec => []StartsAfterProducers
<1>1. ASSUME ShardInv, RanInv, Planned(plan) PROVE StartsAfterProducers
  <2> DEFINE Good(t) == \A a \in Ancestors[t] \intersect plan.pending :
                  Settled(a) \/ \E b \in (Ancestors[t] \intersect plan.pending) \ ran : a \in Ancestors[b]
             S == {t \in Tasks : t \in ran => Good(t)}
  <2> SUFFICES ASSUME parent # "gone" PROVE \A t \in ran : Good(t)
    BY <1>1 DEF StartsAfterProducers, RanInv
  <2>1. WellFormed(plan) /\ ran \subseteq plan.pending /\ plan.pending \subseteq Tasks
    BY <1>1 DEF ShardInv, TypeOK, WellFormed
  <2>2. ASSUME NEW t \in Tasks, \A d \in Tasks : d < t => d \in S, t \in ran PROVE Good(t)
    <3> SUFFICES ASSUME NEW a \in Ancestors[t] \intersect plan.pending, ~Settled(a)
                 PROVE  \E b \in (Ancestors[t] \intersect plan.pending) \ ran : a \in Ancestors[b]
      OBVIOUS
    <3>1. t \in plan.pending /\ \A d \in plan.deps[t] : Settled(d) /\ d \in plan.pending /\ d < t
      BY <1>1, <2>1, <2>2 DEF RanInv, WellFormed
    <3>2. PICK b \in plan.deps[t] : a \in Ancestors[b]
      BY <1>1, <2>1, <3>1, DepsCover
    <3>3. b \in Ancestors[t] \intersect plan.pending
      BY <1>1, <2>1, <3>1, DepsAreAncestors
    <3>4. CASE b \notin ran
      BY <3>2, <3>3, <3>4
    <3>5. CASE b \in ran
      <4>1. Good(b)
        BY <2>1, <2>2, <3>1, <3>5
      <4>2. PICK c \in (Ancestors[b] \intersect plan.pending) \ ran : a \in Ancestors[c]
        BY <3>2, <4>1
      <4>3. c \in Ancestors[t]
        BY <1>1, <2>1, <3>3, <4>2, AncestorsTransitive
      <4> QED BY <4>2, <4>3
    <3> QED BY <3>4, <3>5
  <2>3. S = Tasks
    <3>1. S \in SUBSET Tasks /\ \A t \in Tasks : (\A d \in Tasks : d < t => d \in S) => t \in S
      BY <2>2
    <3> HIDE DEF S
    <3> QED BY <3>1, FirstCounterexample
  <2> QED BY <2>1, <2>3
<1> QED BY <1>1, RanInductive, PlanStays, PTL

-----------------------------------------------------------------------------
(* The counts.                                                              *)

LEMMA SweepAddsUp ==
  ASSUME TypeOK, Sweep
  PROVE  /\ counts'.ok = Cardinality(artifacts')
         /\ counts'.ok + counts'.failed + counts'.skipped = Cardinality(Tasks)
<1>1. IsFiniteSet(Tasks) /\ plan.pending \subseteq Tasks /\ artifacts \subseteq plan.pending
  BY ShardAssumption DEF ShardAssumption, TypeOK, WellFormed
<1>2. PICK made \in SUBSET (plan.pending \ artifacts) :
      \E failed \in SUBSET (plan.pending \ (artifacts \union made)) :
          /\ artifacts' = artifacts \union made
          /\ counts' = [ok |-> Cardinality(made) + Produced, failed |-> Cardinality(failed),
                        skipped |-> Max({0, Cardinality(Tasks \ (made \union failed)) - Produced})]
  BY DEF Sweep
<1>3. PICK failed \in SUBSET (plan.pending \ (artifacts \union made)) :
          /\ artifacts' = artifacts \union made
          /\ counts' = [ok |-> Cardinality(made) + Produced, failed |-> Cardinality(failed),
                        skipped |-> Max({0, Cardinality(Tasks \ (made \union failed)) - Produced})]
  BY <1>2
<1> DEFINE left == Tasks \ (made \union failed)
           rest == left \ artifacts
<1>4. ASSUME NEW S \in SUBSET Tasks PROVE IsFiniteSet(S) /\ Cardinality(S) \in Nat
  BY <1>1, FS_Subset, FS_CardinalityType
<1>5. ASSUME NEW S \in SUBSET Tasks, NEW T \in SUBSET Tasks, S \intersect T = {}
      PROVE  Cardinality(S \union T) = Cardinality(S) + Cardinality(T)
  <2>1. IsFiniteSet(S) /\ IsFiniteSet(T) /\ Cardinality(S) \in Nat /\ Cardinality(T) \in Nat
    BY <1>4
  <2>2. Cardinality(S \intersect T) = 0
    BY <1>5, FS_EmptySet
  <2>3. Cardinality(S \union T) = Cardinality(S) + Cardinality(T) - Cardinality(S \cap T)
    BY <2>1, FS_Union
  <2> QED BY <2>1, <2>2, <2>3
<1>6. /\ made \in SUBSET Tasks /\ failed \in SUBSET Tasks /\ artifacts \in SUBSET Tasks
      /\ left \in SUBSET Tasks /\ rest \in SUBSET Tasks
      /\ artifacts \subseteq left
  BY <1>1
<1>7. Cardinality(artifacts \union made) = Cardinality(artifacts) + Cardinality(made)
  BY <1>5, <1>6
<1>8. /\ Cardinality(left) = Cardinality(artifacts) + Cardinality(rest)
      /\ Cardinality(Tasks) = Cardinality(left) + Cardinality(made) + Cardinality(failed)
  <2>1. left = artifacts \union rest /\ artifacts \intersect rest = {}
    BY <1>6
  <2>2. made \union failed \in SUBSET Tasks /\ left \union (made \union failed) = Tasks
        /\ left \intersect (made \union failed) = {} /\ made \intersect failed = {}
    BY <1>6
  <2> HIDE DEF left, rest
  <2>3. Cardinality(left) = Cardinality(artifacts) + Cardinality(rest)
    BY <1>5, <1>6, <2>1
  <2>4. Cardinality(made \union failed) = Cardinality(made) + Cardinality(failed)
    BY <1>5, <1>6, <2>2
  <2>5. Cardinality(Tasks) = Cardinality(left) + Cardinality(made \union failed)
    BY <1>5, <1>6, <2>2
  <2>6. Cardinality(left) \in Nat /\ Cardinality(made) \in Nat /\ Cardinality(failed) \in Nat
    BY <1>4, <1>6
  <2> QED BY <2>3, <2>4, <2>5, <2>6
<1>9. /\ Cardinality(made) \in Nat /\ Cardinality(failed) \in Nat /\ Cardinality(artifacts) \in Nat
      /\ Cardinality(left) \in Nat /\ Cardinality(rest) \in Nat
  BY <1>4, <1>6
<1>10. Max({0, Cardinality(left) - Produced}) = Cardinality(rest)
  <2>1. ASSUME NEW m \in Nat PROVE Max({0, m}) = m
    BY DEF Max
  <2>2. Cardinality(left) - Produced = Cardinality(rest)
    BY <1>8, <1>9 DEF Produced
  <2> QED BY <1>9, <2>1, <2>2
<1> HIDE DEF rest
<1>11. /\ artifacts' = artifacts \union made
       /\ counts'.ok = Cardinality(made) + Produced
       /\ counts'.failed = Cardinality(failed)
       /\ counts'.skipped = Cardinality(rest)
  BY <1>3, <1>10
<1> HIDE DEF left
<1> QED BY <1>7, <1>8, <1>9, <1>11 DEF Produced

\* The sweep comes when all shards have ended.
CountsInv == CountsOnce /\ (parent = "swept" => markers = Shards)

\* Shards and sweep together count every task of the module once, and as produced
\* exactly what was: _process_platform takes the shards' work off what the sweep
\* found in place, and never below zero.
THEOREM TasksCountOnce == Spec => []CountsOnce
<1>1. Init => CountsInv
  BY DEF Init, CountsInv, CountsOnce
<1>2. ShardInv /\ CountsInv /\ [Next]_vars => CountsInv'
  <2> SUFFICES ASSUME ShardInv, CountsInv, [Next]_vars PROVE CountsInv'
    OBVIOUS
  <2>1. CASE Sweep
    BY <2>1, SweepAddsUp DEF Sweep, ShardInv, CountsInv, CountsOnce
  <2>2. CASE ~Sweep /\ parent' = "swept"
    <3>1. parent = "swept" /\ UNCHANGED <<counts, artifacts, markers>>
      <4>1. parent = "swept"
        BY <2>2 DEF Next, ShardStep, Boot, Resume, Enter, RunTask, Close, Exit, Crash, MarkExit, ParentDies, vars
      <4>2. \A s \in Shards : child[s].pc = "gone"
        BY <4>1 DEF CountsInv, ShardInv
      <4> QED BY <2>2, <4>1, <4>2 DEF Next, ShardStep, Boot, Resume, Enter, RunTask, Close, Exit, Crash,
                 MarkExit, ParentDies, vars
    <3> QED BY <3>1 DEF CountsInv, CountsOnce
  <2>3. CASE parent' # "swept"
    BY <2>3 DEF CountsInv, CountsOnce
  <2> QED BY <2>1, <2>2, <2>3
<1>3. CountsInv => CountsOnce
  BY DEF CountsInv
<1> QED BY <1>1, <1>2, <1>3, ShardInductive, PTL DEF Spec

-----------------------------------------------------------------------------
(* What the planner makes of a graph without cycles is a plan.              *)

LEMMA GreatestNumber ==
  ASSUME NEW S \in SUBSET Nat, S # {}, NEW b \in Nat, \A n \in S : n <= b
  PROVE  Max(S) \in S /\ \A n \in S : n <= Max(S)
<1> DEFINE Gaps == {b - n : n \in S}
<1>1. Gaps \in SUBSET Nat /\ Gaps # {}
  <2>1. \A n \in S : b - n \in Nat
    OBVIOUS
  <2> QED BY <2>1
<1>2. PICK g \in Gaps : \A h \in Gaps : g <= h
  <2> HIDE DEF Gaps
  <2> QED BY <1>1, LeastNumber
<1>3. PICK m \in S : g = b - m
  BY <1>2
<1>4. ASSUME NEW n \in S PROVE n <= m
  <2>1. b - m <= b - n
    BY <1>2, <1>3
  <2>2. n \in Nat /\ m \in Nat
    OBVIOUS
  <2> QED BY <2>1, <2>2
<1>5. \A y \in S : m >= y
  <2>1. ASSUME NEW y \in S PROVE m >= y
    <3>1. y <= m /\ y \in Nat /\ m \in Nat
      BY <1>4
    <3> QED BY <3>1
  <2> QED BY <2>1
<1>6. Max(S) \in S /\ \A y \in S : Max(S) >= y
  BY <1>5 DEF Max
<1> QED BY <1>6

\* A task can start when its shard is free and its producers have ended.
LEMMA EarliestInTime ==
  ASSUME NEW b \in Nat, NEW free \in 0..b, NEW ends \in SUBSET (0..b)
  PROVE  Earliest(free, ends) \in 0..b
<1> DEFINE S == {0, free} \union ends
<1>1. S \in SUBSET Nat /\ S # {} /\ \A n \in S : n <= b
  OBVIOUS
<1>2. Earliest(free, ends) = Max(S)
  BY DEF Earliest
<1> HIDE DEF S
<1>3. Max(S) \in S
  BY <1>1, GreatestNumber
<1>4. Max(S) \in Nat /\ Max(S) <= b
  BY <1>1, <1>3
<1> QED BY <1>2, <1>4

\* The dependencies that the planner keeps point backwards.
LEMMA CollapseKeepsOrder ==
  ASSUME NEW g \in [Tasks -> SUBSET Tasks], \A t \in Tasks : \A d \in g[t] : d < t,
         NEW keep \in SUBSET Tasks
  PROVE  /\ Collapse(g, keep) \in [keep -> SUBSET keep]
         /\ \A t \in keep : \A d \in Collapse(g, keep)[t] : d < t
<1>1. PICK reach : Memo(g, keep, reach)
  BY CollapseStep
<1> DEFINE S == {t \in Tasks : \A a \in reach[t] : a \in keep /\ a < t}
<1>2. ASSUME NEW t \in Tasks, \A d \in Tasks : d < t => d \in S PROVE t \in S
  <2> SUFFICES ASSUME NEW a \in reach[t] PROVE a \in keep /\ a < t
    OBVIOUS
  <2>1. PICK d \in g[t] : IF d \in keep THEN a = d ELSE a \in reach[d]
    BY <1>1 DEF Memo
  <2>2. d \in Tasks /\ d < t
    OBVIOUS
  <2>3. \A x \in Tasks : x \in Nat
    BY ShardAssumption DEF ShardAssumption
  <2>4. (a = d \/ a < d) /\ a \in keep
    BY <1>2, <2>1, <2>2
  <2> QED BY <2>2, <2>3, <2>4
<1>3. S = Tasks
  <2> HIDE DEF S
  <2> QED BY <1>2, FirstCounterexample DEF S
<1> QED BY <1>1, <1>3 DEF Memo

\* The state of the list scheduling after t tasks.
Scheduled(t, pending, shards) ==
  [finish : [pending -> 0..t], free : [shards -> 0..t], owner : [pending -> shards]]

\* Every pending task gets a shard.
LEMMA OwnersAreShards ==
  ASSUME NEW n \in Nat, NEW pending \in SUBSET (1..n), NEW deps \in [pending -> SUBSET pending],
         NEW shards \in SUBSET Nat, shards # {}
  PROVE  PlanShards(n, pending, deps, shards) \in [pending -> shards]
<1> DEFINE Place(st, t) ==
             LET ends     == {st.finish[d] : d \in deps[t]}
                 start[k \in shards] == Earliest(st.free[k], ends)
                 best     == Min({k \in shards : \A j \in shards : start[k] <= start[j]})
                 end      == start[best] + 1
             IN  [finish |-> [st.finish EXCEPT ![t] = end],
                  free   |-> [st.free EXCEPT ![best] = end],
                  owner  |-> [st.owner EXCEPT ![t] = best]]
           init == [finish |-> [d \in pending |-> 0], free |-> [k \in shards |-> 0],
                    owner |-> [d \in pending |-> Min(shards)]]
           Step(st, t)  == IF t \in pending THEN Place(st, t) ELSE st
           Value(h, t)  == IF t = 0 THEN init ELSE Step(h[t - 1], t)
           Upto(h, m)   == h = [t \in 0..m |-> Value(h, t)]
           result == CHOOSE h : Upto(h, n)
           Typ(t) == Scheduled(t, pending, shards)
<1>1. \E h : Upto(h, n)
  <2> HIDE DEF Step, init
  <2> DEFINE Has(m) == \E h : Upto(h, m)
             bad == {m \in 0..n : ~Has(m)}
  <2> SUFFICES ASSUME n \in bad PROVE FALSE
    <3> HIDE DEF Upto
    <3> QED OBVIOUS
  <2>1. bad \in SUBSET Nat
    <3>1. 0..n \subseteq Nat
      OBVIOUS
    <3> QED BY <3>1
  <2>2. PICK m \in bad : \A x \in bad : m <= x
    <3>1. bad # {}
      OBVIOUS
    <3> HIDE DEF bad
    <3> QED BY <2>1, <3>1, LeastNumber
  <2>3. m # 0
    <3>1. Upto([t \in {0} |-> init], 0)
      OBVIOUS
    <3> QED BY <2>2, <3>1
  <2>4. m - 1 \in 0..n /\ m - 1 \notin bad
    BY <2>2, <2>3
  <2>5. PICK h : Upto(h, m - 1)
    BY <2>4
  <2> DEFINE k == [t \in 0..m |-> IF t = m THEN Step(h[m - 1], m) ELSE h[t]]
  <2>6. ASSUME NEW t \in 0..m PROVE k[t] = Value(k, t)
    BY <2>2, <2>3, <2>5, <2>6
  <2>7. Upto(k, m)
    BY <2>6
  <2>8. Has(m) /\ m \in bad
    <3> HIDE DEF Upto, k
    <3> QED BY <2>2, <2>7
  <2> HIDE DEF Has
  <2> QED BY <2>8
<1>2. Upto(result, n)
  <2> HIDE DEF Upto
  <2> QED BY <1>1
<1>3. PlanShards(n, pending, deps, shards) = result[n].owner
  BY DEF PlanShards
<1>4. init \in Typ(0)
  <2>1. Min(shards) \in shards
    BY LeastNumber DEF Min
  <2> QED BY <2>1 DEF Scheduled
<1>5. ASSUME NEW t \in 1..n, NEW st \in Typ(t - 1) PROVE Step(st, t) \in Typ(t)
  <2>1. CASE t \notin pending
    BY <2>1 DEF Scheduled
  <2>2. CASE t \in pending
    <3> DEFINE ends == {st.finish[d] : d \in deps[t]}
               start == [k \in shards |-> Earliest(st.free[k], ends)]
               best  == Min({k \in shards : \A j \in shards : start[k] <= start[j]})
    <3>1. start \in [shards -> 0..(t - 1)]
      <4>1. ends \in SUBSET (0..(t - 1))
        BY <2>2 DEF Scheduled
      <4> HIDE DEF ends
      <4>2. \A k \in shards : st.free[k] \in 0..(t - 1) /\ t - 1 \in Nat
        BY DEF Scheduled
      <4> QED BY <4>1, <4>2, EarliestInTime
    <3>2. best \in shards
      <4> HIDE DEF start
      <4> DEFINE starts == {start[k] : k \in shards}
      <4>1. starts \in SUBSET Nat /\ starts # {}
        <5>1. \A k \in shards : start[k] \in Nat
          BY <3>1
        <5> QED BY <5>1
      <4>2. PICK m \in starts : \A x \in starts : m <= x
        <5> HIDE DEF starts
        <5> QED BY <4>1, LeastNumber
      <4> DEFINE first == {k \in shards : \A j \in shards : start[k] <= start[j]}
      <4>3. first # {} /\ first \in SUBSET Nat
        <5>1. PICK k \in shards : m = start[k]
          BY <4>2
        <5>2. \A j \in shards : start[k] <= start[j]
          BY <4>2, <5>1
        <5> QED BY <5>2
      <4>4. \E x \in first : \A y \in first : x <= y
        <5> HIDE DEF first
        <5> QED BY <4>3, LeastNumber
      <4>5. Min(first) \in first
        <5> HIDE DEF first
        <5> QED BY <4>4 DEF Min
      <4> QED BY <4>5
    <3>3. Step(st, t) = [finish |-> [st.finish EXCEPT ![t] = start[best] + 1],
                         free   |-> [st.free EXCEPT ![best] = start[best] + 1],
                         owner  |-> [st.owner EXCEPT ![t] = best]]
      BY <2>2
    <3> HIDE DEF best, start
    <3>4. start[best] + 1 \in 0..t /\ 0..(t - 1) \subseteq 0..t
      BY <3>1, <3>2
    <3> HIDE DEF Step
    <3>5. /\ st.finish \in [pending -> 0..(t - 1)] /\ st.free \in [shards -> 0..(t - 1)]
          /\ st.owner \in [pending -> shards]
      BY DEF Scheduled
    <3>6. /\ [st.finish EXCEPT ![t] = start[best] + 1] \in [pending -> 0..t]
          /\ [st.free EXCEPT ![best] = start[best] + 1] \in [shards -> 0..t]
      BY <3>4, <3>5
    <3>7. [st.owner EXCEPT ![t] = best] \in [pending -> shards]
      BY <3>2, <3>5
    <3> QED BY <3>3, <3>6, <3>7 DEF Scheduled
  <2> QED BY <2>1, <2>2
<1>6. \A t \in 0..n : result[t] \in Typ(t)
  <2> HIDE DEF Step, init, result, Typ
  <2> DEFINE bad == {t \in 0..n : result[t] \notin Typ(t)}
  <2> SUFFICES ASSUME bad # {} PROVE FALSE
    OBVIOUS
  <2>1. bad \in SUBSET Nat
    <3>1. 0..n \subseteq Nat
      OBVIOUS
    <3> QED BY <3>1
  <2>2. PICK t \in bad : \A x \in bad : t <= x
    <3> HIDE DEF bad
    <3> QED BY <2>1, LeastNumber
  <2>3. result[t] = Value(result, t)
    BY <1>2, <2>2
  <2>4. t # 0
    BY <1>4, <2>2, <2>3
  <2>5. t \in 1..n /\ result[t - 1] \in Typ(t - 1)
    BY <2>2, <2>4
  <2> QED BY <1>5, <2>2, <2>3, <2>4, <2>5
<1>7. n \in 0..n
  OBVIOUS
<1> HIDE DEF result
<1>8. result[n] \in Typ(n)
  BY <1>6, <1>7
<1> QED BY <1>3, <1>8 DEF Scheduled

\* The assumption about plans is what _run_shards delivers: for a module of n tasks
\* in topological order, collapse_deps and plan_shards make a plan whose
\* dependencies point backwards, with a shard for every pending task.
THEOREM PlansAreWellFormed ==
  ASSUME NEW n \in Nat, Tasks = 1..n, Shards \subseteq Nat, Shards # {},
         NEW graph \in [Tasks -> SUBSET Tasks], \A t \in Tasks : \A d \in graph[t] : d < t,
         NEW pending \in SUBSET Tasks
  PROVE  LET p == PlanOf(n, graph, pending, Shards) IN WellFormed(p) /\ Planned(p)
<1> DEFINE deps == Collapse(graph, pending)
<1>1. deps \in [pending -> SUBSET pending] /\ \A t \in pending : \A d \in deps[t] : d < t
  BY CollapseKeepsOrder
<1> HIDE DEF deps
<1>2. PlanShards(n, pending, deps, Shards) \in [pending -> Shards]
  BY <1>1, OwnersAreShards
<1> QED BY <1>1, <1>2 DEF PlanOf, WellFormed, Planned, deps
=============================================================================
