-------------------------- MODULE AnalysisRun_proofs --------------------------
(***************************************************************************)
(* Theorems about AnalysisRun.  For every configuration: types (no count   *)
(* falls below zero), and with several processes a task is reported as     *)
(* waiting only when it does.  For every configuration in which only tasks *)
(* of the last stage of a binary wait for other binaries: the summary      *)
(* agrees with what was reported of the tasks, a run without failures has  *)
(* dealt with all of them, and no deferred task that could run is left.    *)
(*                                                                         *)
(* The totals are sums over the processes, and what is reported are sets   *)
(* of tasks, so the proof goes over cardinalities: a sum of cardinalities  *)
(* of disjoint sets is that of their union (SumIsCardinality), and the     *)
(* tasks that the processes handle are disjoint (HandledApart).            *)
(***************************************************************************)
EXTENDS AnalysisRun, TLAPS, FiniteSetTheorems, WellFoundedInduction

-----------------------------------------------------------------------------
(* Sums over the processes.                                                 *)

\* Induction over the subsets of a finite set, one element less at a time.
LEMMA SubsetInduction ==
  ASSUME NEW S, IsFiniteSet(S), NEW B,
         \A T \in SUBSET S : (\A x \in T : T \ {x} \in B) => T \in B
  PROVE  \A T \in SUBSET S : T \in B
<1> DEFINE bad == (SUBSET S) \ B
<1> SUFFICES ASSUME bad # {} PROVE FALSE
  OBVIOUS
<1>1. IsWellFoundedOn(StrictSubsetOrdering(S), SUBSET S)
  <2>1. FiniteSubsetsOf(S) = SUBSET S
    BY FS_FiniteSubsetsOfFinite
  <2>2. IsWellFoundedOn(StrictSubsetOrdering(S), FiniteSubsetsOf(S))
    BY FS_StrictSubsetOrderingWellFounded
  <2> QED BY <2>1, <2>2
<1>2. PICK T \in bad : \A U \in bad : ~ (<<U, T>> \in StrictSubsetOrdering(S))
  <2> bad \subseteq SUBSET S
    OBVIOUS
  <2> HIDE DEF bad
  <2> QED BY <1>1, WFMin
<1> T \in SUBSET S /\ T \notin B
  BY <1>2
<1>3. ASSUME NEW x \in T PROVE T \ {x} \in B
  <2>1. <<T \ {x}, T>> \in StrictSubsetOrdering(S)
    BY DEF StrictSubsetOrdering
  <2> QED BY <1>2, <2>1
<1> QED BY <1>3

LEMMA ProcsFinite == IsFiniteSet(Procs)
<1> DEFINE n == Len(Stages)
           f == [i \in 1..n |-> Stages[i].binary]
<1>1. n \in Nat /\ DOMAIN Stages = 1..n
  BY AnalysisAssumption DEF AnalysisAssumption
<1>2. f \in Surjection(1..n, Binaries)
  BY <1>1 DEF Surjection, Binaries, Stage
<1>3. IsFiniteSet(1..n)
  BY <1>1, FS_Interval
<1>4. IsFiniteSet(Binaries)
  <2> HIDE DEF f
  <2> QED BY <1>2, <1>3, FS_Surjection
<1> QED BY <1>4, FS_AddElement DEF Procs

\* The sum is what is taken together one process after the other.
SumTable(k, iter) ==
  /\ Sum(k) = iter[Procs]
  /\ iter[{}] = 0
  /\ \A s \in SUBSET Procs : s # {} => \E x \in s : iter[s] = procs[x].counts[k] + iter[s \ {x}]

\* What the processes of s count together, when A[p] is what p counts.
Together(A, s) == {a \in UNION {A[p] : p \in Procs} : \E p \in s : a \in A[p]}

\* The counts k are those of disjoint sets.
Counting(k, A) ==
  /\ DOMAIN A = Procs
  /\ \A p \in Procs : IsFiniteSet(A[p]) /\ procs[p].counts[k] = Cardinality(A[p])
  /\ \A p, q \in Procs : p # q => A[p] \intersect A[q] = {}

LEMMA OneMore ==
  ASSUME NEW k, NEW A, Counting(k, A), NEW s \in SUBSET Procs
  PROVE  /\ IsFiniteSet(Together(A, s)) /\ Cardinality(Together(A, s)) \in Nat
         /\ Together(A, {}) = {}
         /\ \A x \in s : Cardinality(Together(A, s)) = procs[x].counts[k] + Cardinality(Together(A, s \ {x}))
<1>1. ASSUME NEW u \in SUBSET Procs
      PROVE  IsFiniteSet(Together(A, u)) /\ Cardinality(Together(A, u)) \in Nat
  <2> DEFINE B == {t \in SUBSET Procs : IsFiniteSet(Together(A, t))}
  <2>1. ASSUME NEW t \in SUBSET Procs, \A x \in t : t \ {x} \in B PROVE t \in B
    <3>1. CASE t = {}
      <4>1. Together(A, t) = {}
        BY <3>1 DEF Together
      <4> QED BY <4>1, FS_EmptySet
    <3>2. CASE t # {}
      <4>1. PICK x \in t : TRUE
        BY <3>2
      <4>2. Together(A, t) = A[x] \union Together(A, t \ {x})
        BY DEF Together
      <4>3. IsFiniteSet(A[x]) /\ IsFiniteSet(Together(A, t \ {x}))
        BY <2>1 DEF Counting
      <4>4. IsFiniteSet(A[x] \union Together(A, t \ {x}))
        BY <4>3, FS_Union
      <4> QED BY <4>2, <4>4
    <3> QED BY <3>1, <3>2
  <2>2. \A t \in SUBSET Procs : t \in B
    <3> HIDE DEF B
    <3> QED BY <2>1, ProcsFinite, SubsetInduction
  <2>3. IsFiniteSet(Together(A, u))
    BY <2>2
  <2> QED BY <2>3, FS_CardinalityType
<1>2. Together(A, {}) = {}
  BY DEF Together
<1>3. ASSUME NEW x \in s
      PROVE  Cardinality(Together(A, s)) = procs[x].counts[k] + Cardinality(Together(A, s \ {x}))
  <2>1. /\ Together(A, s) = A[x] \union Together(A, s \ {x})
        /\ A[x] \intersect Together(A, s \ {x}) = {}
    BY DEF Together, Counting
  <2>2. /\ IsFiniteSet(A[x]) /\ procs[x].counts[k] = Cardinality(A[x]) /\ Cardinality(A[x]) \in Nat
        /\ IsFiniteSet(Together(A, s \ {x})) /\ Cardinality(Together(A, s \ {x})) \in Nat
    BY <1>1, FS_CardinalityType DEF Counting
  <2>3. Cardinality(A[x] \union Together(A, s \ {x}))
           = Cardinality(A[x]) + Cardinality(Together(A, s \ {x})) - Cardinality(A[x] \cap Together(A, s \ {x}))
    BY <2>2, FS_Union
  <2>4. Cardinality(A[x] \cap Together(A, s \ {x})) = 0
    BY <2>1, FS_EmptySet
  <2> QED BY <2>1, <2>2, <2>3, <2>4
<1> QED BY <1>1, <1>2, <1>3

LEMMA SumTables ==
  ASSUME NEW k, NEW A, Counting(k, A)
  PROVE  \E iter : SumTable(k, iter)
<1> DEFINE Eq(f) == f = [s \in SUBSET Procs |-> IF s = {} THEN 0 ELSE LET x == CHOOSE y \in s : TRUE
                                                 IN procs[x].counts[k] + f[s \ {x}]]
           iter == CHOOSE f : Eq(f)
           f == [s \in SUBSET Procs |-> Cardinality(Together(A, s))]
<1>1. f[{}] = 0
  BY OneMore, FS_EmptySet
<1>2. ASSUME NEW s \in SUBSET Procs, NEW x \in s PROVE f[s] = procs[x].counts[k] + f[s \ {x}]
  BY OneMore
<1>3. Eq(f)
  <2>1. ASSUME NEW s \in SUBSET Procs
        PROVE  f[s] = IF s = {} THEN 0 ELSE LET x == CHOOSE y \in s : TRUE
                                            IN procs[x].counts[k] + f[s \ {x}]
    <3> HIDE DEF f
    <3> QED BY <1>1, <1>2
  <2> QED BY <2>1
<1>4. Eq(iter)
  <2> HIDE DEF Eq, f
  <2> QED BY <1>3
<1>5. Sum(k) = iter[Procs]
  BY DEF Sum, MapThenSumSet, MapThenFoldSet
<1> HIDE DEF iter
<1>6. ASSUME NEW s \in SUBSET Procs
      PROVE  iter[s] = IF s = {} THEN 0 ELSE LET x == CHOOSE y \in s : TRUE
                                             IN procs[x].counts[k] + iter[s \ {x}]
  BY <1>4
<1>7. ASSUME NEW s \in SUBSET Procs, s # {}
      PROVE  \E x \in s : iter[s] = procs[x].counts[k] + iter[s \ {x}]
  <2>1. (CHOOSE y \in s : TRUE) \in s
    BY <1>7
  <2> QED BY <1>6, <1>7, <2>1
<1>8. iter[{}] = 0
  BY <1>6
<1> QED BY <1>5, <1>7, <1>8 DEF SumTable

\* The sum over all processes is the number of what they count together.
LEMMA SumIsCardinality ==
  ASSUME NEW k, NEW A, Counting(k, A)
  PROVE  Sum(k) = Cardinality(UNION {A[p] : p \in Procs})
<1>1. PICK iter : SumTable(k, iter)
  BY SumTables
<1> DEFINE B == {s \in SUBSET Procs : iter[s] = Cardinality(Together(A, s))}
<1>2. ASSUME NEW s \in SUBSET Procs, \A x \in s : s \ {x} \in B PROVE s \in B
  <2>1. CASE s = {}
    BY <1>1, <2>1, OneMore, FS_EmptySet DEF SumTable
  <2>2. CASE s # {}
    <3>1. PICK x \in s : iter[s] = procs[x].counts[k] + iter[s \ {x}]
      BY <1>1, <2>2 DEF SumTable
    <3> QED BY <1>2, <3>1, OneMore
  <2> QED BY <2>1, <2>2
<1>3. \A s \in SUBSET Procs : s \in B
  <2> HIDE DEF B
  <2> QED BY <1>2, ProcsFinite, SubsetInduction
<1>4. Together(A, Procs) = UNION {A[p] : p \in Procs}
  BY DEF Together
<1> QED BY <1>1, <1>3, <1>4 DEF SumTable

\* A sum of natural numbers is one, and no less than each of them.
LEMMA SumsOfNumbers ==
  ASSUME NEW k, \A p \in Procs : procs[p].counts[k] \in Nat
  PROVE  \E iter : /\ SumTable(k, iter)
                   /\ \A s \in SUBSET Procs : iter[s] \in Nat /\ \A p \in s : procs[p].counts[k] <= iter[s]
<1> DEFINE A == [p \in Procs |-> {p} \X (1..procs[p].counts[k])]
<1>1. ASSUME NEW p \in Procs PROVE IsFiniteSet(A[p]) /\ procs[p].counts[k] = Cardinality(A[p])
  <2> DEFINE n == procs[p].counts[k]
  <2>1. n \in Nat
    OBVIOUS
  <2> HIDE DEF n
  <2>a. IsFiniteSet(1..n) /\ Cardinality(1..n) = n
    <3>1. 1 \in Int /\ n \in Int /\ (1 > n => n = 0) /\ n - 1 + 1 = n
      BY <2>1
    <3> QED BY <3>1, FS_Interval
  <2>2. IsFiniteSet({p}) /\ Cardinality({p}) = 1
    BY FS_Singleton
  <2>3. IsFiniteSet({p} \X (1..n)) /\ Cardinality({p} \X (1..n)) = Cardinality({p}) * Cardinality(1..n)
    BY <2>a, <2>2, FS_Product
  <2>4. Cardinality({p} \X (1..n)) = n
    BY <2>1, <2>a, <2>2, <2>3
  <2> QED BY <2>3, <2>4 DEF n
<1>2. Counting(k, A)
  <2>1. \A p, q \in Procs : p # q => A[p] \intersect A[q] = {}
    OBVIOUS
  <2>2. DOMAIN A = Procs
    OBVIOUS
  <2> HIDE DEF A
  <2> QED BY <1>1, <2>1, <2>2 DEF Counting
<1>3. PICK iter : SumTable(k, iter)
  <2> HIDE DEF A
  <2> QED BY <1>2, SumTables
<1> DEFINE B == {s \in SUBSET Procs : iter[s] \in Nat /\ \A p \in s : procs[p].counts[k] <= iter[s]}
<1>4. ASSUME NEW s \in SUBSET Procs, \A x \in s : s \ {x} \in B PROVE s \in B
  <2>1. CASE s = {}
    BY <1>3, <2>1 DEF SumTable
  <2>2. CASE s # {}
    <3>1. PICK x \in s : iter[s] = procs[x].counts[k] + iter[s \ {x}]
      BY <1>3, <2>2 DEF SumTable
    <3>2. iter[s \ {x}] \in Nat /\ \A p \in s \ {x} : procs[p].counts[k] <= iter[s \ {x}]
      BY <1>4
    <3>3. procs[x].counts[k] \in Nat
      OBVIOUS
    <3>4. ASSUME NEW p \in s PROVE procs[p].counts[k] <= iter[s]
      <4> p \in Procs
        OBVIOUS
      <4>1. CASE p = x
        BY <3>1, <3>2, <3>3, <4>1
      <4>2. CASE p # x
        <5>1. p \in s \ {x}
          BY <4>2
        <5>2. procs[p].counts[k] \in Nat /\ procs[p].counts[k] <= iter[s \ {x}]
          BY <3>2, <5>1
        <5> QED BY <3>1, <3>2, <3>3, <5>2
      <4> QED BY <4>1, <4>2
    <3>5. iter[s] \in Nat
      BY <3>1, <3>2, <3>3
    <3> QED BY <3>4, <3>5
  <2> QED BY <2>1, <2>2
<1>5. \A s \in SUBSET Procs : s \in B
  <2> HIDE DEF B
  <2> QED BY <1>4, ProcsFinite, SubsetInduction
<1> QED BY <1>3, <1>5

\* What is collected is not more than what was counted of it.
LEMMA CollectedAreCounted ==
  ASSUME NEW k, \A p \in Procs : /\ procs[p].counts[k] \in Nat
                                 /\ procs[p].deferred \subseteq Tasks
                                 /\ Cardinality(procs[p].deferred) <= procs[p].counts[k]
  PROVE  Cardinality(Collected) <= Sum(k) /\ Sum(k) \in Nat
<1>1. PICK iter : /\ SumTable(k, iter)
                  /\ \A s \in SUBSET Procs : iter[s] \in Nat /\ \A p \in s : procs[p].counts[k] <= iter[s]
  BY SumsOfNumbers
<1> DEFINE Of(s) == UNION {procs[p].deferred : p \in s}
           B == {s \in SUBSET Procs : Cardinality(Of(s)) <= iter[s]}
<1>2. ASSUME NEW T \in SUBSET Tasks PROVE IsFiniteSet(T) /\ Cardinality(T) \in Nat
  BY FS_Subset, FS_CardinalityType, AnalysisAssumption DEF AnalysisAssumption
<1>3. ASSUME NEW s \in SUBSET Procs, \A x \in s : s \ {x} \in B PROVE s \in B
  <2>1. CASE s = {}
    <3>1. Of(s) = {}
      BY <2>1
    <3> HIDE DEF Of
    <3>2. Cardinality(Of(s)) = 0 /\ iter[s] = 0
      BY <1>1, <2>1, <3>1, FS_EmptySet DEF SumTable
    <3> QED BY <3>2
  <2>2. CASE s # {}
    <3>1. PICK x \in s : iter[s] = procs[x].counts[k] + iter[s \ {x}]
      BY <1>1, <2>2 DEF SumTable
    <3>2. Of(s) = procs[x].deferred \union Of(s \ {x})
      OBVIOUS
    <3>3. procs[x].deferred \in SUBSET Tasks /\ Of(s \ {x}) \in SUBSET Tasks
      OBVIOUS
    <3>4. Cardinality(Of(s \ {x})) <= iter[s \ {x}]
      BY <1>3
    <3> HIDE DEF Of
    <3> DEFINE D == procs[x].deferred
               R == Of(s \ {x})
    <3>5. D \intersect R \in SUBSET Tasks
      BY <3>3
    <3>6. Cardinality(D \union R) = Cardinality(D) + Cardinality(R) - Cardinality(D \cap R)
      BY <1>2, <3>3, FS_Union
    <3>7. Cardinality(D) \in Nat /\ Cardinality(R) \in Nat /\ Cardinality(D \cap R) \in Nat
      BY <1>2, <3>3, <3>5
    <3>8. Cardinality(D) <= procs[x].counts[k] /\ procs[x].counts[k] \in Nat
      OBVIOUS
    <3>9. iter[s] \in Nat /\ iter[s \ {x}] \in Nat
      BY <1>1
    <3> HIDE DEF D, R
    <3>10. Cardinality(Of(s)) <= iter[s]
      BY <3>1, <3>2, <3>4, <3>6, <3>7, <3>8, <3>9 DEF D, R
    <3> QED BY <3>10
  <2> QED BY <2>1, <2>2
<1>4. \A s \in SUBSET Procs : s \in B
  <2> HIDE DEF B
  <2> QED BY <1>3, ProcsFinite, SubsetInduction
<1>5. Cardinality(Of(Procs)) <= iter[Procs]
  BY <1>4
<1> QED BY <1>1, <1>5 DEF SumTable, Collected

-----------------------------------------------------------------------------
(* What each process is at, and what it has reported.                       *)

\* What the first pass reports of tasks.
Marks == {"exists", "ok", "absent", "failed", "deferred"}

\* The process that takes a stage, and its tasks.
Worker(i)  == IF Parallel THEN Stages[i].binary ELSE Main
Handled(p) == {t \in Tasks : \E i \in DOMAIN Stages : Worker(i) = p /\ t \in TasksOf(Stages[i])}

\* The tasks that a process has still before it.
Ahead(p) ==
    {t \in Tasks : \E i \in DOMAIN Stages : \E k \in DOMAIN Stages[i].tasks :
        /\ Worker(i) = p /\ t = Stages[i].tasks[k]
        /\ procs[p].stage < i \/ (procs[p].stage = i /\ procs[p].task <= k)}

\* Who works is the binaries or the main process; a process stands before a
\* task of its own, or is through.
PlaceInv(p) ==
    /\ procs[p].pc # "none" <=> (Parallel <=> p # Main)
    /\ procs[p].pc = "ended" => procs[p].stage = Through
    /\ procs[p].stage # Through => /\ Mine(p, procs[p].stage)
                                   /\ procs[p].task \in DOMAIN Stages[procs[p].stage].tasks

\* Deferred tasks are among the skipped.
SkipsInv ==
    /\ \A p \in Procs : Cardinality(procs[p].deferred) <= procs[p].counts.skipped
    /\ Cardinality(pending) <= totals.skipped

Inv1 == TypeOK /\ SkipsInv /\ \A p \in Procs : PlaceInv(p)

-----------------------------------------------------------------------------
(* Types.                                                                   *)

LEMMA StageFacts ==
  /\ Len(Stages) \in Nat /\ DOMAIN Stages = 1..Len(Stages)
  /\ Through = Len(Stages) + 1 /\ Through \in Nat
  /\ \A i \in DOMAIN Stages : Stages[i].binary \in Binaries /\ Stages[i].tasks \in Seq(Tasks)
<1>1. Stages \in Seq([binary : Binaries, tasks : Seq(Tasks)])
  BY AnalysisAssumption DEF AnalysisAssumption
<1>2. \A i \in DOMAIN Stages : Stages[i] \in [binary : Binaries, tasks : Seq(Tasks)]
  <2> DEFINE R == [binary : Binaries, tasks : Seq(Tasks)]
  <2>1. Stages \in Seq(R)
    BY <1>1
  <2> HIDE DEF R
  <2>2. \A i \in DOMAIN Stages : Stages[i] \in R
    BY <2>1
  <2> QED BY <2>2 DEF R
<1>3. Len(Stages) \in Nat /\ DOMAIN Stages = 1..Len(Stages)
  BY <1>1
<1> QED BY <1>2, <1>3 DEF Through

LEMMA LeastStage ==
  ASSUME NEW S \in SUBSET Nat, S # {}
  PROVE  Min(S) \in S /\ \A n \in S : Min(S) <= n
<1>1. PICK m \in S : \A n \in S : ~ (<<n, m>> \in OpToRel(<, Nat))
  BY NatLessThanWellFounded, WFMin
<1>2. ASSUME NEW n \in S PROVE m <= n
  <2>1. ~ (<<n, m>> \in OpToRel(<, Nat))
    BY <1>1
  <2>2. n \in Nat /\ m \in Nat
    OBVIOUS
  <2>3. ~ (n < m)
    BY <2>1, <2>2 DEF OpToRel
  <2> QED BY <2>2, <2>3
<1> QED BY <1>2 DEF Min

\* After is the next stage of a process, if there is one.
LEMMA AfterIs ==
  ASSUME NEW p, NEW i \in 0..Len(Stages)
  PROVE  /\ After(p, i) \in 1..Through /\ i < After(p, i)
         /\ After(p, i) # Through => Mine(p, After(p, i))
         /\ \A j \in DOMAIN Stages : i < j /\ Mine(p, j) => After(p, i) <= j
<1> DEFINE S == {j \in DOMAIN Stages : i < j /\ Mine(p, j)} \union {Through}
<1>1. S \in SUBSET Nat /\ S # {} /\ S \subseteq 1..Through /\ \A j \in S : i < j
  BY StageFacts
<1>2. Min(S) \in S /\ \A n \in S : Min(S) <= n
  <2> HIDE DEF S
  <2> QED BY <1>1, LeastStage
<1>3. After(p, i) = Min(S)
  BY DEF After
<1> QED BY <1>1, <1>2, <1>3

LEMMA TaskSets ==
  ASSUME NEW T \in SUBSET Tasks
  PROVE  IsFiniteSet(T) /\ Cardinality(T) \in Nat
BY FS_Subset, FS_CardinalityType, AnalysisAssumption DEF AnalysisAssumption

LEMMA Subsets ==
  ASSUME NEW T \in SUBSET Tasks, NEW U \in SUBSET T
  PROVE  Cardinality(U) <= Cardinality(T)
BY TaskSets, FS_Subset

LEMMA Unions ==
  ASSUME NEW T \in SUBSET Tasks, NEW U \in SUBSET Tasks
  PROVE  /\ Cardinality(T \union U) <= Cardinality(T) + Cardinality(U)
         /\ T \intersect U = {} => Cardinality(T \union U) = Cardinality(T) + Cardinality(U)
<1>1. Cardinality(T \union U) = Cardinality(T) + Cardinality(U) - Cardinality(T \cap U)
  BY TaskSets, FS_Union
<1>2. Cardinality(T \cap U) \in Nat /\ (T \cap U = {} => Cardinality(T \cap U) = 0)
  BY TaskSets, FS_EmptySet
<1> QED BY <1>1, <1>2, TaskSets

\* What is reported of tasks is counted in natural numbers, deferred tasks as
\* skipped.
LEMMA CountTypes ==
  ASSUME NEW out, DOMAIN out \subseteq Tasks
  PROVE  /\ Count(out) \in Counts
         /\ \A st : Reported(out, st) \in SUBSET Tasks
         /\ Cardinality(Reported(out, {"deferred"})) <= Count(out).skipped
<1>1. \A st : Reported(out, st) \in SUBSET Tasks
  BY DEF Reported
<1>2. \A st : Cardinality(Reported(out, st)) \in Nat
  BY <1>1, TaskSets
<1>3. Count(out) \in Counts /\ Count(out).skipped = Cardinality(Reported(out, {"exists", "absent", "deferred"}))
  BY <1>2 DEF Count, CountWith, Counts
<1>4. Reported(out, {"deferred"}) \in SUBSET Reported(out, {"exists", "absent", "deferred"})
  BY DEF Reported
<1>5. Cardinality(Reported(out, {"deferred"})) <= Cardinality(Reported(out, {"exists", "absent", "deferred"}))
  BY <1>1, <1>4, Subsets
<1> QED BY <1>1, <1>3, <1>5

LEMMA PlusTypes ==
  ASSUME NEW a \in Counts, NEW b \in Counts
  PROVE  /\ Plus(a, b) \in Counts
         /\ Plus(a, b).skipped = a.skipped + b.skipped
         /\ Plus(a, b).failed = a.failed + b.failed
         /\ Plus(a, b).ok = a.ok + b.ok
BY DEF Plus, Counts

\* A process at work in the first pass stands before a task.
LEMMA AtTask ==
  ASSUME Inv1, NEW p \in Procs, Busy(p)
  PROVE  /\ procs[p].stage \in DOMAIN Stages /\ Mine(p, procs[p].stage)
         /\ procs[p].task \in DOMAIN Stages[procs[p].stage].tasks /\ procs[p].task \in Nat
         /\ Stages[procs[p].stage].tasks \in Seq(Tasks)
         /\ Current(p) \in Tasks /\ Before(p) \subseteq Tasks
<1>1. procs[p].stage \in 1..Through /\ procs[p].stage # Through /\ procs[p].task \in Nat
  BY DEF Inv1, TypeOK, Busy
<1>2. procs[p].stage \in DOMAIN Stages
  BY <1>1, StageFacts
<1>3. Mine(p, procs[p].stage) /\ procs[p].task \in DOMAIN Stages[procs[p].stage].tasks
  BY <1>1 DEF Inv1, PlaceInv
<1> DEFINE tasks == Stages[procs[p].stage].tasks
<1>4. tasks \in Seq(Tasks)
  BY <1>2, StageFacts
<1> HIDE DEF tasks
<1>5. tasks[procs[p].task] \in Tasks
  BY <1>3, <1>4 DEF tasks
<1>6. {tasks[k] : k \in procs[p].task..Len(tasks)} \subseteq Tasks
  BY <1>1, <1>3, <1>4 DEF tasks
<1> QED BY <1>1, <1>2, <1>3, <1>4, <1>5, <1>6 DEF tasks, Current, Before

\* What a process reports keeps the types and its place.
LEMMA ReportTypes ==
  ASSUME Inv1, NEW p \in Procs, Busy(p), NEW out, DOMAIN out \subseteq Tasks,
         \A t \in DOMAIN out : out[t] \in Status, NEW next \in Nat, next > 0, Report(p, out, next)
  PROVE  Inv1'
<1> DEFINE counts == Plus(procs[p].counts, Count(out))
           i == procs[p].stage
           onward == Onward(p, i, next, counts.failed > 0)
           deferred == procs[p].deferred \union Reported(out, {"deferred"})
<1>1. /\ procs \in [Procs -> [pc : ProcState, stage : 1..Through, task : Nat,
                             counts : Counts, deferred : SUBSET Tasks]]
      /\ procs[p].counts \in Counts /\ procs[p].deferred \in SUBSET Tasks
  BY DEF Inv1, TypeOK
<1>2. counts \in Counts /\ counts.skipped = procs[p].counts.skipped + Count(out).skipped
  BY <1>1, CountTypes, PlusTypes
<1>3. i \in DOMAIN Stages /\ Mine(p, i) /\ i \in 0..Len(Stages) /\ i # Through /\ Stages[i].tasks \in Seq(Tasks)
  BY AtTask, StageFacts DEF Busy
<1>4. /\ onward.stage \in 1..Through /\ onward.task \in Nat
      /\ onward.stage # Through => /\ Mine(p, onward.stage)
                                   /\ onward.task \in DOMAIN Stages[onward.stage].tasks
  <2>1. CASE next <= Len(Stages[i].tasks)
    <3>1. onward.stage = i /\ onward.task = next
      BY <2>1 DEF Onward
    <3>2. next \in DOMAIN Stages[i].tasks
      BY <1>3, <2>1
    <3>3. i \in 1..Through
      BY <1>3, StageFacts
    <3> QED BY <1>3, <3>1, <3>2, <3>3
  <2>2. CASE ~(next <= Len(Stages[i].tasks))
    <3>1. onward.task = 1 /\ onward.stage \in {Through, After(p, i)}
      BY <2>2 DEF Onward
    <3>2. /\ After(p, i) \in 1..Through
          /\ After(p, i) # Through => Mine(p, After(p, i))
      BY <1>3, AfterIs
    <3>3. Through \in 1..Through
      BY StageFacts
    <3>4. ASSUME onward.stage # Through PROVE 1 \in DOMAIN Stages[onward.stage].tasks
      <4>1. Mine(p, onward.stage) /\ onward.stage \in DOMAIN Stages
        BY <3>1, <3>2, <3>4, StageFacts
      <4>2. Stages[onward.stage].tasks # <<>> /\ Stages[onward.stage].tasks \in Seq(Tasks)
        BY <4>1, StageFacts DEF Mine
      <4> QED BY <4>2
    <3> QED BY <3>1, <3>2, <3>3, <3>4
  <2> QED BY <2>1, <2>2
<1>5. deferred \in SUBSET Tasks /\ Cardinality(deferred) <= counts.skipped
  <2>1. Reported(out, {"deferred"}) \in SUBSET Tasks /\ Cardinality(Reported(out, {"deferred"})) <= Count(out).skipped
    BY CountTypes
  <2>2. Cardinality(deferred) <= Cardinality(procs[p].deferred) + Cardinality(Reported(out, {"deferred"}))
    BY <1>1, <2>1, Unions
  <2>3. Cardinality(procs[p].deferred) <= procs[p].counts.skipped
    BY DEF Inv1, SkipsInv
  <2>4. /\ procs[p].counts.skipped \in Nat /\ Count(out).skipped \in Nat
        /\ Cardinality(deferred) \in Nat /\ Cardinality(procs[p].deferred) \in Nat
        /\ Cardinality(Reported(out, {"deferred"})) \in Nat
    BY <1>1, <2>1, CountTypes, TaskSets DEF Counts
  <2> HIDE DEF counts, deferred
  <2> QED BY <1>1, <1>2, <2>1, <2>2, <2>3, <2>4 DEF deferred
<1>6. /\ procs' = [procs EXCEPT ![p] = [pc |-> "running", stage |-> onward.stage, task |-> onward.task,
                                       counts |-> counts, deferred |-> deferred]]
      /\ artifacts' = artifacts \union Reported(out, {"ok"})
      /\ status' = [t \in Tasks |-> IF t \in DOMAIN out THEN out[t] ELSE status[t]]
      /\ UNCHANGED <<options, stop, phase, pending, totals, deaths>>
  BY <1>1 DEF Report
<1>7. procs[p].pc = "running"
  BY DEF Busy
<1> HIDE DEF counts, onward, deferred, i
<1>8. TypeOK'
  <2>1. procs' \in [Procs -> [pc : ProcState, stage : 1..Through, task : Nat,
                             counts : Counts, deferred : SUBSET Tasks]]
    BY <1>1, <1>2, <1>4, <1>5, <1>6 DEF ProcState
  <2>2. artifacts' \subseteq Tasks
    BY <1>6, CountTypes DEF Inv1, TypeOK
  <2>3. status' \in [Tasks -> Status]
    BY <1>6 DEF Inv1, TypeOK
  <2> QED BY <1>6, <2>1, <2>2, <2>3 DEF Inv1, TypeOK
<1>9. SkipsInv'
  <2>1. \A q \in Procs : procs'[q] = IF q = p THEN [pc |-> "running", stage |-> onward.stage, task |-> onward.task,
                                       counts |-> counts, deferred |-> deferred] ELSE procs[q]
    BY <1>1, <1>6
  <2> QED BY <1>5, <1>6, <2>1 DEF Inv1, SkipsInv
<1>10. ASSUME NEW q \in Procs PROVE PlaceInv(q)'
  <2>1. Parallel' = Parallel
    BY <1>6 DEF Parallel, Jobs
  <2>2. CASE q = p
    <3>1. procs'[q].stage = onward.stage /\ procs'[q].task = onward.task /\ procs'[q].pc = "running"
      BY <1>1, <1>6, <2>2
    <3> QED BY <1>4, <1>7, <2>1, <2>2, <3>1 DEF Inv1, PlaceInv, Mine
  <2>3. CASE q # p
    <3>1. procs'[q] = procs[q]
      BY <1>1, <1>6, <2>3
    <3> QED BY <2>1, <3>1 DEF Inv1, PlaceInv, Mine
  <2> QED BY <2>2, <2>3
<1> QED BY <1>8, <1>9, <1>10 DEF Inv1

LEMMA InitInv1 == Init => Inv1
<1> SUFFICES ASSUME Init PROVE Inv1
  OBVIOUS
<1>1. ASSUME NEW p \in Procs, NEW pc \in ProcState
      PROVE  /\ Process(pc, p) \in [pc : ProcState, stage : 1..Through, task : Nat,
                                   counts : Counts, deferred : SUBSET Tasks]
             /\ Process(pc, p).pc = pc /\ Process(pc, p).counts = NoCounts /\ Process(pc, p).deferred = {}
             /\ Process(pc, p).stage = After(p, 0) /\ Process(pc, p).task = 1
  <2>1. After(p, 0) \in 1..Through
    BY StageFacts, AfterIs
  <2>2. NoCounts \in Counts
    BY DEF NoCounts, Counts
  <2> QED BY <2>1, <2>2 DEF Process
<1>2. ASSUME NEW p \in Procs
      PROVE  \E pc \in ProcState : procs[p] = Process(pc, p) /\ pc # "ended" /\ (pc # "none" <=> (Parallel <=> p # Main))
  <2>1. procs[p] = IF p = Main
                   THEN Process(IF Parallel THEN "none" ELSE "running", p)
                   ELSE Process(IF Parallel THEN "queued" ELSE "none", p)
    BY DEF Init
  <2> QED BY <2>1 DEF ProcState
<1>3. TypeOK
  <2>1. procs \in [Procs -> [pc : ProcState, stage : 1..Through, task : Nat,
                            counts : Counts, deferred : SUBSET Tasks]]
    <3>1. DOMAIN procs = Procs /\ procs = [p \in Procs |-> procs[p]]
      BY DEF Init
    <3> QED BY <1>1, <1>2, <3>1
  <2>2. totals \in Counts
    BY DEF Init, NoCounts, Counts
  <2>3. status \in [Tasks -> Status] /\ deaths \in 0..MaxDeaths
    BY AnalysisAssumption DEF Init, Status, AnalysisAssumption
  <2> QED BY <2>1, <2>2, <2>3 DEF Init, TypeOK
<1>4. SkipsInv
  <2>1. Cardinality({}) = 0 /\ NoCounts.skipped = 0
    BY FS_EmptySet DEF NoCounts
  <2>2. ASSUME NEW p \in Procs PROVE procs[p].deferred = {} /\ procs[p].counts = NoCounts
    BY <1>1, <1>2
  <2>3. pending = {} /\ totals = NoCounts
    BY DEF Init
  <2>4. ASSUME NEW p \in Procs PROVE Cardinality(procs[p].deferred) <= procs[p].counts.skipped
    <3>1. Cardinality(procs[p].deferred) = 0 /\ procs[p].counts.skipped = 0
      BY <2>1, <2>2
    <3> QED BY <3>1
  <2>5. Cardinality(pending) <= totals.skipped
    BY <2>1, <2>3
  <2> QED BY <2>4, <2>5 DEF SkipsInv
<1>5. ASSUME NEW p \in Procs PROVE PlaceInv(p)
  <2>1. PICK pc \in ProcState : procs[p] = Process(pc, p) /\ pc # "ended" /\ (pc # "none" <=> (Parallel <=> p # Main))
    BY <1>2
  <2>2. procs[p].pc = pc /\ procs[p].stage = After(p, 0) /\ procs[p].task = 1
    BY <1>1, <2>1
  <2>3. ASSUME procs[p].stage # Through
        PROVE  Mine(p, procs[p].stage) /\ 1 \in DOMAIN Stages[procs[p].stage].tasks
    <3>1. After(p, 0) \in 1..Through /\ Mine(p, After(p, 0))
      BY <2>2, <2>3, StageFacts, AfterIs
    <3>2. procs[p].stage \in DOMAIN Stages
      BY <2>2, <2>3, <3>1, StageFacts
    <3>3. Stages[procs[p].stage].tasks # <<>> /\ Stages[procs[p].stage].tasks \in Seq(Tasks)
      BY <2>2, <3>1, <3>2, StageFacts DEF Mine
    <3> QED BY <2>2, <3>1, <3>3
  <2> QED BY <2>1, <2>2, <2>3 DEF PlaceInv
<1> QED BY <1>3, <1>4, <1>5 DEF Inv1

\* RunTask and GiveUp report outcomes of the tasks from the current one on.
Reporting(p, out, next) ==
  /\ next \in procs[p].task + 1..Len(Stages[procs[p].stage].tasks) + 1
  /\ DOMAIN out = {Stages[procs[p].stage].tasks[k] : k \in procs[p].task..next - 1}
  /\ \A t \in DOMAIN out : out[t] \in Marks
  /\ Report(p, out, next)

LEMMA Reports ==
  ASSUME Inv1, NEW p \in Procs, RunTask(p) \/ GiveUp(p)
  PROVE  /\ Busy(p)
         /\ \E out, next : Reporting(p, out, next)
<1> DEFINE tasks == Stages[procs[p].stage].tasks
           n == Len(tasks)
           k0 == procs[p].task
<1>1. Busy(p)
  BY DEF RunTask, GiveUp
<1>2. n \in Nat /\ k0 \in 1..n
  <2>1. k0 \in DOMAIN tasks /\ tasks \in Seq(Tasks)
    BY <1>1, AtTask
  <2> HIDE DEF tasks, k0
  <2> QED BY <2>1 DEF n
<1>3. CASE RunTask(p)
  <2>1. PICK o \in Outcome(Current(p)) : Report(p, [t \in {Current(p)} |-> o], k0 + 1)
    BY <1>3 DEF RunTask
  <2>2. o \in Marks
    BY DEF Outcome, Marks
  <2> DEFINE out == [t \in {Current(p)} |-> o]
  <2>3. DOMAIN out = {tasks[k] : k \in k0..(k0 + 1) - 1}
    <3>1. k0..(k0 + 1) - 1 = {k0}
      BY <1>2
    <3> QED BY <3>1 DEF Current
  <2>4. k0 + 1 \in k0 + 1..n + 1
    BY <1>2
  <2>5. Report(p, out, k0 + 1) /\ \A t \in DOMAIN out : out[t] \in Marks
    BY <2>1, <2>2
  <2> HIDE DEF out
  <2>6. Reporting(p, out, k0 + 1)
    BY <2>3, <2>4, <2>5 DEF Reporting
  <2> QED BY <1>1, <2>6
<1>4. CASE GiveUp(p)
  <2> DEFINE out == [t \in Before(p) |-> IF t \in artifacts THEN "exists" ELSE "failed"]
  <2>1. Report(p, out, n + 1)
    BY <1>4 DEF GiveUp
  <2>2. DOMAIN out = {tasks[k] : k \in k0..(n + 1) - 1}
    <3>1. (n + 1) - 1 = n
      BY <1>2
    <3> QED BY <3>1 DEF Before
  <2>3. \A t \in DOMAIN out : out[t] \in Marks
    BY DEF Marks
  <2>4. n + 1 \in k0 + 1..n + 1
    BY <1>2
  <2> HIDE DEF out
  <2>5. Reporting(p, out, n + 1)
    BY <2>1, <2>2, <2>3, <2>4 DEF Reporting
  <2> QED BY <1>1, <2>5
<1> QED BY <1>3, <1>4

LEMMA ProcessTypes ==
  ASSUME Inv1, NEW p \in Procs, Take(p) \/ End(p) \/ Die(p)
  PROVE  Inv1'
<1> DEFINE Proc == [pc : ProcState, stage : 1..Through, task : Nat,
                    counts : Counts, deferred : SUBSET Tasks]
<1>1. procs \in [Procs -> Proc] /\ TypeOK /\ SkipsInv /\ procs[p] \in Proc
  BY DEF Inv1, TypeOK
<1>2. /\ UNCHANGED <<options, artifacts, phase, pending, totals, status>>
      /\ stop' \in BOOLEAN /\ deaths' \in 0..MaxDeaths
  <2>1. stop \in BOOLEAN /\ deaths \in 0..MaxDeaths /\ MaxDeaths \in Nat
    BY <1>1, AnalysisAssumption DEF TypeOK, AnalysisAssumption
  <2>2. stop' = stop \/ stop' \in BOOLEAN
    BY DEF Take, End, Die
  <2>3. deaths' = deaths \/ (deaths < MaxDeaths /\ deaths' = deaths + 1)
    BY DEF Take, End, Die
  <2>4. deaths' \in 0..MaxDeaths
    BY <2>1, <2>3
  <2>5. UNCHANGED <<options, artifacts, phase, pending, totals, status>>
    BY DEF Take, End, Die
  <2> QED BY <2>1, <2>2, <2>4, <2>5
<1>3. /\ Parallel' = Parallel
      /\ \A q \in Procs : q # p => procs'[q] = procs[q]
      /\ DOMAIN procs' = Procs /\ procs' = [q \in Procs |-> procs'[q]]
  BY <1>1, <1>2 DEF Parallel, Jobs, Take, End, Die
<1>4. /\ procs'[p] \in Proc
      /\ Cardinality(procs'[p].deferred) <= procs'[p].counts.skipped
      /\ PlaceInv(p)'
  <2>1. CASE Take(p) \/ End(p)
    <3>1. procs'[p] \in Proc /\ \E pc \in ProcState : procs'[p] = [procs[p] EXCEPT !.pc = pc]
      BY <1>1, <2>1 DEF Take, End, ProcState
    <3>2. /\ procs'[p].stage = procs[p].stage /\ procs'[p].task = procs[p].task
          /\ procs'[p].deferred = procs[p].deferred /\ procs'[p].counts = procs[p].counts
          /\ procs[p].pc # "none"
      BY <1>1, <2>1, <3>1 DEF Take, End
    <3>3. procs'[p].pc \notin {"none", "ended"} \/ (procs'[p].pc = "ended" /\ procs[p].stage = Through)
      BY <1>1, <2>1 DEF Take, End
    <3>4. PlaceInv(p)'
      BY <1>3, <3>2, <3>3 DEF Inv1, PlaceInv, Mine
    <3> QED BY <1>1, <3>1, <3>2, <3>4 DEF SkipsInv
  <2>2. CASE Die(p)
    <3>1. procs'[p] = [pc |-> "dead", stage |-> Through, task |-> 1, counts |-> NoResult, deferred |-> {}]
      BY <1>1, <2>2 DEF Die
    <3>2. NoResult \in Counts /\ NoResult.skipped = 0
      BY DEF NoResult, NoCounts, Counts
    <3>3. Through \in 1..Through
      BY StageFacts
    <3>4. procs[p].pc # "none"
      BY <2>2 DEF Die
    <3>5. PlaceInv(p)'
      BY <1>3, <3>1, <3>4 DEF Inv1, PlaceInv
    <3>6. Cardinality({}) = 0
      BY FS_EmptySet
    <3> QED BY <3>1, <3>2, <3>3, <3>5, <3>6 DEF ProcState
  <2> QED BY <2>1, <2>2
<1>5. procs' \in [Procs -> Proc]
  <2> HIDE DEF Proc
  <2> QED BY <1>1, <1>3, <1>4
<1>6. TypeOK'
  BY <1>1, <1>2, <1>5 DEF TypeOK
<1>7. SkipsInv'
  BY <1>1, <1>2, <1>3, <1>4 DEF SkipsInv
<1>8. \A q \in Procs : PlaceInv(q)'
  BY <1>3, <1>4 DEF Inv1, PlaceInv, Mine
<1> QED BY <1>6, <1>7, <1>8 DEF Inv1

LEMMA GatherTypes ==
  ASSUME Inv1, Gather
  PROVE  Inv1'
<1>1. /\ totals' = [ok |-> Sum("ok"), failed |-> Sum("failed"), skipped |-> Sum("skipped")]
      /\ pending' = Collected /\ phase' \in {"done", "retry"}
      /\ UNCHANGED <<options, artifacts, procs, stop, status, deaths>>
  BY DEF Gather
<1>2. ASSUME NEW p \in Procs
      PROVE  /\ procs[p].counts.ok \in Nat /\ procs[p].counts.failed \in Nat /\ procs[p].counts.skipped \in Nat
             /\ procs[p].deferred \subseteq Tasks /\ Cardinality(procs[p].deferred) <= procs[p].counts.skipped
  BY DEF Inv1, TypeOK, SkipsInv, Counts
<1>3. Sum("ok") \in Nat /\ Sum("failed") \in Nat
  <2>1. \A k \in {"ok", "failed"} : \A p \in Procs : procs[p].counts[k] \in Nat
    BY <1>2
  <2>2. ASSUME NEW k \in {"ok", "failed"} PROVE Sum(k) \in Nat
    <3>1. PICK iter : /\ SumTable(k, iter)
                      /\ \A s \in SUBSET Procs : iter[s] \in Nat /\ \A p \in s : procs[p].counts[k] <= iter[s]
      BY <2>1, SumsOfNumbers
    <3> QED BY <3>1 DEF SumTable
  <2> QED BY <2>2
<1>4. Cardinality(Collected) <= Sum("skipped") /\ Sum("skipped") \in Nat
  BY <1>2, CollectedAreCounted
<1>5. Collected \subseteq Tasks
  BY <1>2 DEF Collected
<1>6. TypeOK'
  <2>1. totals' \in Counts
    BY <1>1, <1>3, <1>4 DEF Counts
  <2> QED BY <1>1, <1>5, <2>1 DEF Inv1, TypeOK
<1>7. SkipsInv'
  BY <1>1, <1>4 DEF Inv1, SkipsInv
<1>8. \A q \in Procs : PlaceInv(q)'
  BY <1>1 DEF Inv1, PlaceInv, Mine, Parallel, Jobs
<1> QED BY <1>6, <1>7, <1>8 DEF Inv1

LEMMA RetryTypes ==
  ASSUME Inv1, Retry
  PROVE  Inv1'
<1>1. PICK out \in [Found(Ready) -> {"ok", "failed", "absent"}] :
         /\ totals' = [Plus(totals, Count(out)) EXCEPT !.failed  = @ + Cardinality(Over),
                                                       !.skipped = @ - TakenBack]
         /\ artifacts' = artifacts \union Reported(out, {"ok"})
         /\ status' = [t \in Tasks |-> IF t \in Over THEN "missing"
                                       ELSE IF t \in DOMAIN out THEN out[t] ELSE status[t]]
  BY DEF Retry
<1>2. /\ pending' = pending \ (Ready \union Over) /\ phase' \in {"done", "retry"}
      /\ UNCHANGED <<options, procs, stop, deaths>>
  BY DEF Retry
<1>3. /\ pending \in SUBSET Tasks /\ Ready \in SUBSET pending /\ Over \in SUBSET Tasks
      /\ DOMAIN out \subseteq Tasks /\ totals \in Counts
      /\ \A t \in DOMAIN out : out[t] \in Status
  BY DEF Inv1, TypeOK, Ready, Over, Found, Status
<1>4. /\ Cardinality(Ready) <= Cardinality(pending) /\ Cardinality(pending) <= totals.skipped
      /\ Cardinality(Ready) \in Nat /\ Cardinality(pending) \in Nat /\ Cardinality(Over) \in Nat
  BY <1>3, Subsets, TaskSets DEF Inv1, SkipsInv
<1>5. Count(out) \in Counts /\ Plus(totals, Count(out)) \in Counts
      /\ Plus(totals, Count(out)).skipped = totals.skipped + Count(out).skipped
  BY <1>3, CountTypes, PlusTypes
<1>6. totals' \in Counts /\ totals'.skipped >= totals.skipped - Cardinality(Ready)
  <2>1. totals.skipped \in Nat /\ Count(out).skipped \in Nat
    BY <1>3, <1>5 DEF Counts
  <2>2. totals.skipped + Count(out).skipped - Cardinality(Ready) \in Nat
    BY <1>4, <2>1
  <2> DEFINE c == Plus(totals, Count(out))
  <2>3. c \in [ok : Nat, failed : Nat, skipped : Nat] /\ c.skipped = totals.skipped + Count(out).skipped
    BY <1>5 DEF Counts
  <2> HIDE DEF c
  <2>4. totals' = [c EXCEPT !.failed = @ + Cardinality(Over), !.skipped = @ - Cardinality(Ready)]
    BY <1>1 DEF TakenBack, c
  <2>5. totals'.skipped = c.skipped - Cardinality(Ready) /\ totals'.failed = c.failed + Cardinality(Over)
        /\ totals'.ok = c.ok /\ totals' = [ok |-> totals'.ok, failed |-> totals'.failed, skipped |-> totals'.skipped]
    BY <2>3, <2>4
  <2>6. totals'.skipped \in Nat /\ totals'.failed \in Nat /\ totals'.ok \in Nat
    <3>1. c.ok \in Nat /\ c.failed \in Nat
      BY <2>3
    <3>2. totals'.skipped = totals.skipped + Count(out).skipped - Cardinality(Ready)
      BY <1>4, <2>1, <2>3, <2>5
    <3>3. totals'.failed = c.failed + Cardinality(Over) /\ totals'.ok = c.ok
      BY <2>5
    <3> QED BY <1>4, <2>2, <3>1, <3>2, <3>3
  <2> QED BY <1>4, <2>1, <2>3, <2>5, <2>6 DEF Counts
<1>7. Cardinality(pending') <= totals'.skipped
  <2>1. pending' \in SUBSET (pending \ Ready)
    BY <1>2
  <2>2. Cardinality(pending') <= Cardinality(pending \ Ready)
    BY <1>3, <2>1, Subsets
  <2>3. Cardinality(pending) = Cardinality(pending \ Ready) + Cardinality(Ready)
    <3>1. pending = (pending \ Ready) \union Ready /\ (pending \ Ready) \intersect Ready = {}
      BY <1>3
    <3>2. pending \ Ready \in SUBSET Tasks /\ Ready \in SUBSET Tasks
      BY <1>3
    <3> QED BY <3>1, <3>2, Unions
  <2>4. Cardinality(pending \ Ready) \in Nat /\ Cardinality(pending') \in Nat
    <3>1. pending \ Ready \in SUBSET Tasks /\ pending' \in SUBSET Tasks
      BY <1>3, <2>1
    <3> QED BY <3>1, TaskSets
  <2>5. totals.skipped \in Nat /\ totals'.skipped \in Nat
    BY <1>3, <1>6 DEF Counts
  <2> QED BY <1>4, <1>6, <2>2, <2>3, <2>4, <2>5
<1>8. TypeOK'
  <2>1. artifacts' \subseteq Tasks
    BY <1>1, <1>3, CountTypes DEF Inv1, TypeOK
  <2>2. status' \in [Tasks -> Status]
    BY <1>1, <1>3 DEF Inv1, TypeOK, Status
  <2>3. pending' \subseteq Tasks
    BY <1>2, <1>3
  <2> QED BY <1>2, <1>6, <2>1, <2>2, <2>3 DEF Inv1, TypeOK
<1>9. SkipsInv'
  BY <1>2, <1>7 DEF Inv1, SkipsInv
<1>10. \A q \in Procs : PlaceInv(q)'
  BY <1>2 DEF Inv1, PlaceInv, Mine, Parallel, Jobs
<1> QED BY <1>8, <1>9, <1>10 DEF Inv1

LEMMA NextInv1 == Inv1 /\ [Next]_vars => Inv1'
<1> SUFFICES ASSUME Inv1, [Next]_vars PROVE Inv1'
  OBVIOUS
<1>1. ASSUME NEW p \in Procs, RunTask(p) \/ GiveUp(p) PROVE Inv1'
  <2>1. Busy(p)
    BY <1>1, Reports
  <2>2. PICK out, next : Reporting(p, out, next)
    BY <1>1, Reports
  <2> DEFINE tasks == Stages[procs[p].stage].tasks
  <2>3. tasks \in Seq(Tasks) /\ procs[p].task \in DOMAIN tasks /\ procs[p].task \in Nat
    BY <2>1, AtTask
  <2> DEFINE k0 == procs[p].task
  <2>4. /\ next \in k0 + 1..Len(tasks) + 1 /\ DOMAIN out = {tasks[k] : k \in k0..next - 1}
        /\ Report(p, out, next)
    BY <2>2 DEF Reporting
  <2>5. \A t \in DOMAIN out : out[t] \in Status
    BY <2>2 DEF Reporting, Marks, Status
  <2> HIDE DEF tasks, k0
  <2>6. next \in Nat /\ next > 0 /\ DOMAIN out \subseteq Tasks
    BY <2>3, <2>4 DEF k0
  <2> QED BY <2>1, <2>4, <2>5, <2>6, ReportTypes
<1>2. CASE Terminated \/ UNCHANGED vars
  BY <1>2 DEF Terminated, vars, Inv1, TypeOK, SkipsInv, PlaceInv, Mine, Parallel, Jobs
<1> QED BY <1>1, <1>2, ProcessTypes, GatherTypes, RetryTypes DEF Next

\* The types of the state; the summary never counts below zero, since a task
\* that is tried again was counted as skipped by the pass that deferred it.
THEOREM AnalysisTypes == Spec => []TypeOK
<1>1. Inv1 => TypeOK
  BY DEF Inv1
<1> QED BY InitInv1, NextInv1, <1>1, PTL DEF Spec

-----------------------------------------------------------------------------
(* A verdict of the retry.                                                  *)

\* After the first pass no process of a binary is at work.
NobodyWorks ==
    phase # "first" => \A p \in Procs : procs[p].pc \notin {"queued", "running"}

\* The verdict is the last word, and nothing is produced after it.
VerdictInv ==
    Parallel => \A t \in Tasks : status[t] = "missing" => phase = "done" /\ Missing(t) # {}

WaitInv == NobodyWorks /\ VerdictInv

\* What a process reports keeps VerdictInv: it works in the first pass, and
\* never reports a task as waiting in vain.
LEMMA ReportKeeps ==
    ASSUME WaitInv, NEW p \in Procs, procs[p].pc = "running", NEW out, NEW next,
           \A t \in DOMAIN out : out[t] # "missing", Report(p, out, next)
    PROVE  WaitInv'
<1>1. phase = "first" /\ phase' = "first"
    BY DEF WaitInv, NobodyWorks, Report
<1>2. Parallel' = Parallel
    BY DEF Report, Parallel, Jobs
<1>3. ASSUME NEW t \in Tasks, Parallel PROVE status'[t] # "missing"
    <2>1. status[t] # "missing"
        BY <1>1, <1>3 DEF WaitInv, VerdictInv
    <2>2. status'[t] = IF t \in DOMAIN out THEN out[t] ELSE status[t]
        BY DEF Report
    <2> QED BY <2>1, <2>2
<1> QED BY <1>1, <1>2, <1>3 DEF WaitInv, NobodyWorks, VerdictInv

LEMMA ProcessKeeps ==
    ASSUME WaitInv, NEW p \in Procs,
           Take(p) \/ RunTask(p) \/ GiveUp(p) \/ End(p) \/ Die(p)
    PROVE  WaitInv'
<1>1. CASE Take(p) \/ End(p) \/ Die(p)
    <2>1. phase = "first"
        BY <1>1 DEF WaitInv, NobodyWorks, Take, End, Die
    <2>2. UNCHANGED <<options, artifacts, phase, status>>
        BY <1>1 DEF Take, End, Die
    <2> QED BY <2>1, <2>2 DEF WaitInv, NobodyWorks, VerdictInv, Parallel, Jobs, Missing
<1>2. CASE RunTask(p)
    <2>1. PICK o \in Outcome(Current(p)) : Report(p, [t \in {Current(p)} |-> o], procs[p].task + 1)
        BY <1>2 DEF RunTask
    <2>2. o # "missing"
        BY DEF Outcome
    <2> QED BY <1>2, <2>1, <2>2, ReportKeeps DEF RunTask, Busy
<1>3. CASE GiveUp(p)
    BY <1>3, ReportKeeps DEF GiveUp, Busy
<1> QED BY <1>1, <1>2, <1>3

\* A pass of the retry gives a task up only when no task is ready, produces
\* nothing then, and is the last.
LEMMA RetryKeeps ==
    ASSUME WaitInv, Retry
    PROVE  WaitInv'
<1>1. PICK out \in [Found(Ready) -> {"ok", "failed", "absent"}] :
         /\ artifacts' = artifacts \union Reported(out, {"ok"})
         /\ status' = [t \in Tasks |-> IF t \in Over THEN "missing"
                                       ELSE IF t \in DOMAIN out THEN out[t] ELSE status[t]]
    BY DEF Retry
<1>2. /\ phase = "retry" /\ UNCHANGED <<options, procs>>
      /\ phase' = IF pending \subseteq Ready \union Over THEN "done" ELSE "retry"
    BY DEF Retry
<1>3. Parallel' = Parallel
    BY <1>2 DEF Parallel, Jobs
<1>4. NobodyWorks'
    BY <1>2 DEF WaitInv, NobodyWorks
<1>5. ASSUME Parallel, NEW t \in Tasks, status'[t] = "missing"
      PROVE  phase' = "done" /\ Missing(t)' # {}
    <2>1. t \in Over
        BY <1>1, <1>2, <1>5 DEF WaitInv, VerdictInv
    <2>2. Ready = {} /\ Over = pending /\ t \in pending
        BY <1>5, <2>1 DEF Over
    <2>3. phase' = "done"
        BY <1>2, <2>2
    <2>4. Missing(t) # {}
        BY <2>2 DEF Ready
    <2>5. artifacts' = artifacts
        <3>1. DOMAIN out = {}
            BY <2>2 DEF Found
        <3> QED BY <1>1, <3>1 DEF Reported
    <2> QED BY <2>3, <2>4, <2>5 DEF Missing
<1> QED BY <1>3, <1>4, <1>5 DEF WaitInv, VerdictInv

LEMMA InitWait == Init => WaitInv
BY DEF Init, WaitInv, NobodyWorks, VerdictInv

LEMMA NextWait == WaitInv /\ [Next]_vars => WaitInv'
<1> SUFFICES ASSUME WaitInv, [Next]_vars PROVE WaitInv'
    OBVIOUS
<1>1. CASE Gather
    <2>1. \A p \in Procs : procs[p].pc \notin {"queued", "running"}
        BY <1>1 DEF Gather
    <2>2. phase = "first" /\ UNCHANGED <<options, artifacts, procs, status>>
        BY <1>1 DEF Gather
    <2> QED BY <2>1, <2>2 DEF WaitInv, NobodyWorks, VerdictInv, Parallel, Jobs, Missing
<1>2. CASE Terminated \/ UNCHANGED vars
    BY <1>2 DEF Terminated, vars, WaitInv, NobodyWorks, VerdictInv, Parallel, Jobs, Missing
<1> QED BY <1>1, <1>2, ProcessKeeps, RetryKeeps DEF Next

\* No report of a task as "waiting for inputs" is wrong: after the last pass of
\* _run_ready_deferred it does lack one.
THEOREM WaitingIsReal == Spec => []WaitsForReal
<1>1. WaitInv => WaitsForReal
    BY DEF WaitInv, VerdictInv, WaitsForReal
<1> QED BY InitWait, NextWait, <1>1, PTL DEF Spec

-----------------------------------------------------------------------------
(* The summary of a run whose deferred tasks are found again.               *)

\* The tasks that may be deferred.
Foreign == {t \in Tasks : \E i \in Inputs[t] : BinaryOf(i) # BinaryOf(t)}

\* A task has one place, and those that may be deferred are in the stage that
\* by_name finds for their binary: the only one, or the last.  AnalysisStages
\* shows what happens to a deferred task of an earlier stage.
LastStagesDefer ==
  /\ \A i, j \in DOMAIN Stages : \A k \in DOMAIN Stages[i].tasks : \A l \in DOMAIN Stages[j].tasks :
        Stages[i].tasks[k] = Stages[j].tasks[l] => i = j /\ k = l
  /\ Found(Foreign) = Foreign

Skips == {"exists", "absent", "deferred", "missing"}

With(S, st) == {t \in S : status[t] \in st}

\* The counts c are those of the tasks S.
Agree(c, S) ==
  /\ c.ok = Cardinality(With(S, {"ok"}))
  /\ c.failed = Cardinality(With(S, Failures))
  /\ c.skipped = Cardinality(With(S, Skips))

\* A process has reported nothing of what is ahead of it, counts what it
\* reported, and leaves nothing out unless a failure ends it.
PassInv(p) ==
  /\ procs[p].pc \in {"queued", "running"} => \A t \in Ahead(p) : status[t] = "none"
  /\ procs[p].pc # "dead" => /\ Agree(procs[p].counts, Handled(p))
                             /\ procs[p].deferred = With(Handled(p), {"deferred"})
  /\ procs[p].pc \in {"queued", "running", "ended"} /\ (procs[p].counts.failed = 0 \/ options.skipError)
        => \A t \in Handled(p) \ Ahead(p) : status[t] # "none"

FirstInv == phase = "first" =>
  /\ \A t \in Tasks : status[t] # "missing"
  /\ \A p \in Procs : PassInv(p)

\* Whatever keeps a process from its tasks counts as a failure somewhere.
FailInv == phase = "first" =>
  /\ stop \/ deaths > 0 => \E p \in Procs : procs[p].counts.failed > 0
  /\ \A p \in Procs : procs[p].pc = "unstarted" => stop
  /\ \A p \in Procs : procs[p].pc = "dead" => deaths > 0

SecondInv == phase # "first" =>
  /\ deaths = 0 => /\ Agree(totals, Tasks)
                   /\ phase = "retry" => pending = With(Tasks, {"deferred"})
                   /\ phase = "done" /\ ~stop => With(Tasks, {"deferred"}) = {}
  /\ totals.failed = 0 => deaths = 0 /\ ~stop /\ With(Tasks, {"none"}) = {}
  /\ phase = "retry" => ~stop

\* Only what waits for another binary is ever deferred.
ForeignInv == pending \subseteq Foreign /\ \A p \in Procs : procs[p].deferred \subseteq Foreign

Inv2 == Inv1 /\ WaitInv /\ ForeignInv /\ FirstInv /\ FailInv /\ SecondInv

LEMMA Places ==
  ASSUME NEW t \in Tasks
  PROVE  \E i \in DOMAIN Stages : \E k \in DOMAIN Stages[i].tasks :
            t = Stages[i].tasks[k] /\ t \in TasksOf(Stages[i]) /\ t \in Handled(Worker(i))
<1>1. PICK s \in Stage : t \in TasksOf(s)
  BY AnalysisAssumption DEF AnalysisAssumption
<1>2. PICK i \in DOMAIN Stages : s = Stages[i]
  BY DEF Stage
<1>3. PICK k \in DOMAIN Stages[i].tasks : t = Stages[i].tasks[k]
  BY <1>1, <1>2 DEF TasksOf
<1>4. t \in Handled(Worker(i))
  BY <1>1, <1>2 DEF Handled
<1> QED BY <1>1, <1>2, <1>3, <1>4

LEMMA Workers ==
  ASSUME NEW i \in DOMAIN Stages
  PROVE  /\ Worker(i) \in Procs /\ (Parallel <=> Worker(i) # Main)
         /\ \A p \in Procs : p = Worker(i) => p \in {Stages[i].binary, Main}
         /\ \A p \in Procs : (Parallel <=> p # Main) /\ p \in {Stages[i].binary, Main} => p = Worker(i)
<1>1. Stages[i].binary \in Binaries /\ Main \notin Binaries
  BY StageFacts, AnalysisAssumption DEF AnalysisAssumption
<1> QED BY <1>1 DEF Worker, Procs

\* Every task is handled by one process.
LEMMA HandledApart ==
  ASSUME LastStagesDefer
  PROVE  /\ \A p, q \in Procs : p # q => Handled(p) \intersect Handled(q) = {}
         /\ UNION {Handled(p) : p \in Procs} = Tasks
         /\ \A p : Handled(p) \in SUBSET Tasks /\ Ahead(p) \subseteq Handled(p)
<1>1. ASSUME NEW p \in Procs, NEW q \in Procs, NEW t \in Handled(p), t \in Handled(q) PROVE p = q
  <2>1. PICK i \in DOMAIN Stages : Worker(i) = p /\ t \in TasksOf(Stages[i])
    BY DEF Handled
  <2>2. PICK j \in DOMAIN Stages : Worker(j) = q /\ t \in TasksOf(Stages[j])
    BY <1>1 DEF Handled
  <2>3. i = j
    BY <2>1, <2>2 DEF LastStagesDefer, TasksOf
  <2> QED BY <2>1, <2>2, <2>3
<1>2. \A t \in Tasks : \E p \in Procs : t \in Handled(p)
  BY Places, Workers
<1>3. \A p : Handled(p) \in SUBSET Tasks /\ Ahead(p) \subseteq Handled(p)
  BY DEF Handled, Ahead, TasksOf
<1> QED BY <1>1, <1>2, <1>3

\* A report moves a process on past the tasks it reports, and past others only
\* when a failure ends it.
LEMMA MovesOn ==
  ASSUME LastStagesDefer, Inv1, NEW p \in Procs, Busy(p), NEW out, NEW next, Reporting(p, out, next)
  PROVE  /\ DOMAIN out \subseteq Ahead(p)
         /\ Ahead(p)' \subseteq Ahead(p) \ DOMAIN out
         /\ procs'[p].counts.failed = 0 \/ options.skipError => Ahead(p) \ Ahead(p)' \subseteq DOMAIN out
         /\ \A q \in Procs : Handled(q)' = Handled(q) /\ (q # p => Ahead(q)' = Ahead(q) /\ procs'[q] = procs[q])
         /\ procs'[p].pc = "running" /\ procs'[p].counts = Plus(procs[p].counts, Count(out))
         /\ procs'[p].deferred = procs[p].deferred \union Reported(out, {"deferred"})
<1> DEFINE i == procs[p].stage
           k0 == procs[p].task
           tasks == Stages[i].tasks
           counts == Plus(procs[p].counts, Count(out))
           onward == Onward(p, i, next, counts.failed > 0)
<1>1. /\ i \in DOMAIN Stages /\ Mine(p, i) /\ k0 \in DOMAIN tasks /\ k0 \in Nat
      /\ tasks \in Seq(Tasks) /\ i # Through /\ i \in 0..Len(Stages)
  BY AtTask, StageFacts DEF Busy
<1>2. /\ Report(p, out, next) /\ next \in k0 + 1..Len(tasks) + 1
      /\ DOMAIN out = {tasks[k] : k \in k0..next - 1}
  BY DEF Reporting
<1>3. /\ \A q \in Procs : q # p => procs'[q] = procs[q]
      /\ procs'[p] = [pc |-> "running", stage |-> onward.stage, task |-> onward.task, counts |-> counts,
                      deferred |-> procs[p].deferred \union Reported(out, {"deferred"})]
      /\ options' = options
  BY <1>2 DEF Report, Inv1, TypeOK
<1>4. Parallel' = Parallel /\ \A j : Worker(j)' = Worker(j)
  BY <1>3 DEF Parallel, Jobs, Worker
<1>5. \A q \in Procs : Handled(q)' = Handled(q) /\ (q # p => Ahead(q)' = Ahead(q))
  BY <1>3, <1>4 DEF Handled, Ahead
<1>6. procs[p].pc = "running" /\ (Parallel <=> p # Main)
  BY DEF Busy, Inv1, PlaceInv
<1>7. Worker(i) = p
  BY <1>1, <1>6, Workers DEF Mine
<1>8. Len(tasks) \in Nat /\ DOMAIN tasks = 1..Len(tasks) /\ next \in Nat /\ k0 >= 1 /\ next > k0 /\ next <= Len(tasks) + 1
  <2> HIDE DEF tasks, k0
  <2> QED BY <1>1, <1>2
<1>9. DOMAIN out \subseteq Ahead(p)
  <2> SUFFICES ASSUME NEW t \in DOMAIN out PROVE t \in Ahead(p)
    OBVIOUS
  <2>1. PICK k \in k0..next - 1 : t = tasks[k]
    BY <1>2
  <2>2. k \in DOMAIN tasks /\ k0 <= k
    <3> HIDE DEF tasks, k0
    <3> QED BY <1>8, <1>1
  <2>3. t \in Tasks
    <3> HIDE DEF tasks
    <3> QED BY <1>1, <2>1, <2>2
  <2> QED BY <1>1, <1>7, <2>1, <2>2, <2>3 DEF Ahead
<1>10. /\ procs'[p].stage = onward.stage /\ procs'[p].task = onward.task
       /\ next <= Len(tasks) => onward.stage = i /\ onward.task = next
       /\ ~(next <= Len(tasks)) => onward.stage \in {Through, After(p, i)} /\ onward.task = 1
       /\ ~(next <= Len(tasks)) /\ ~(counts.failed > 0 /\ ~options.skipError) => onward.stage = After(p, i)
  BY <1>3 DEF Onward
<1>11. After(p, i) \in 1..Through /\ i < After(p, i) /\ i < Through
  BY <1>1, StageFacts, AfterIs
<1>12. ASSUME NEW t \in Ahead(p)' PROVE t \in Ahead(p) /\ t \notin DOMAIN out
  <2>a. PICK j \in DOMAIN Stages : \E l \in DOMAIN Stages[j].tasks :
           /\ Worker(j) = p /\ t = Stages[j].tasks[l] /\ t \in Tasks
           /\ onward.stage < j \/ (onward.stage = j /\ onward.task <= l)
    BY <1>4, <1>10, <1>12 DEF Ahead
  <2>1. PICK l \in DOMAIN Stages[j].tasks :
           /\ Worker(j) = p /\ t = Stages[j].tasks[l] /\ t \in Tasks
           /\ onward.stage < j \/ (onward.stage = j /\ onward.task <= l)
    BY <2>a
  <2>2. i < j \/ (i = j /\ next <= l)
    <3>1. CASE next <= Len(tasks)
      BY <1>10, <2>1, <3>1
    <3>2. CASE ~(next <= Len(tasks))
      <4>1. i < onward.stage /\ onward.stage \in Int /\ i \in Int /\ j \in Int
        BY <1>1, <1>10, <1>11, <3>2, StageFacts
      <4> HIDE DEF onward, i
      <4> QED BY <2>1, <4>1
    <3> QED BY <3>1, <3>2
  <2>3. i < j \/ (i = j /\ k0 <= l)
    <3>1. l \in Nat \/ i < j
      <4>1. CASE i = j
        <5>1. l \in DOMAIN tasks
          BY <2>1, <4>1
        <5> QED BY <1>8, <5>1
      <4> QED BY <2>2, <4>1
    <3> HIDE DEF i, k0
    <3> QED BY <1>1, <1>8, <2>2, <3>1
  <2>4. t \in Ahead(p)
    BY <2>1, <2>3 DEF Ahead
  <2>5. ASSUME t \in DOMAIN out PROVE FALSE
    <3>1. PICK k \in k0..next - 1 : t = tasks[k]
      BY <1>2, <2>5
    <3>2. k \in DOMAIN tasks /\ k < next
      <4> HIDE DEF tasks, k0
      <4> QED BY <1>8, <1>1
    <3>3. i = j /\ k = l
      <4>1. /\ Stages[i].tasks[k] = Stages[j].tasks[l] /\ i \in DOMAIN Stages
            /\ k \in DOMAIN Stages[i].tasks
        BY <1>1, <2>1, <3>1, <3>2
      <4> HIDE DEF i
      <4> QED BY <4>1 DEF LastStagesDefer
    <3>4. ~(i < j) /\ k \in Nat
      BY <1>1, <1>8, <3>2, <3>3, StageFacts
    <3> HIDE DEF i, k0
    <3> QED BY <1>8, <2>2, <3>2, <3>3, <3>4
  <2> QED BY <2>4, <2>5
<1>13. ASSUME procs'[p].counts.failed = 0 \/ options.skipError, NEW t \in Ahead(p), t \notin DOMAIN out
       PROVE  t \in Ahead(p)'
  <2>a. PICK j \in DOMAIN Stages : \E l \in DOMAIN Stages[j].tasks :
           /\ Worker(j) = p /\ t = Stages[j].tasks[l] /\ t \in Tasks
           /\ i < j \/ (i = j /\ k0 <= l)
    BY DEF Ahead
  <2>1. PICK l \in DOMAIN Stages[j].tasks :
           /\ Worker(j) = p /\ t = Stages[j].tasks[l] /\ t \in Tasks
           /\ i < j \/ (i = j /\ k0 <= l)
    BY <2>a
  <2>2. procs'[p].counts = counts
    BY <1>3
  <2>3. ~(counts.failed > 0 /\ ~options.skipError)
    BY <1>13, <2>2
  <2>4. onward.stage < j \/ (onward.stage = j /\ onward.task <= l)
    <3>1. CASE i = j
      <4>1. l \in DOMAIN tasks /\ k0 <= l
        BY <1>1, <2>1, <3>1, StageFacts
      <4>2. ~(l \in k0..next - 1)
        BY <1>2, <1>13, <2>1, <3>1
      <4>3. next <= l /\ next <= Len(tasks)
        <5> HIDE DEF tasks, k0
        <5> QED BY <1>1, <1>8, <4>1, <4>2
      <4> QED BY <1>10, <3>1, <4>3
    <3>2. CASE i < j
      <4>1. CASE next <= Len(tasks)
        BY <1>10, <3>2, <4>1
      <4>2. CASE ~(next <= Len(tasks))
        <5>1. onward.stage = After(p, i) /\ onward.task = 1
          BY <1>10, <2>3, <4>2
        <5>2. Mine(p, j)
          <6>1. Stages[j].tasks # <<>> /\ p \in {Stages[j].binary, Main}
            BY <2>1, Workers, StageFacts
          <6> QED BY <6>1 DEF Mine
        <5>3. After(p, i) <= j
          BY <1>1, <3>2, <5>2, AfterIs
        <5>4. l >= 1
          BY <2>1, StageFacts
        <5>5. After(p, i) \in Int /\ j \in Int
          BY <1>11, StageFacts
        <5> HIDE DEF onward, i
        <5> QED BY <5>1, <5>3, <5>4, <5>5
      <4> QED BY <4>1, <4>2
    <3> QED BY <2>1, <3>1, <3>2
  <2> QED BY <1>4, <1>10, <2>1, <2>4 DEF Ahead
<1> QED BY <1>3, <1>5, <1>9, <1>12, <1>13

\* The tasks of S with a status in st, when those of out get theirs.
LEMMA WithGrows ==
  ASSUME TypeOK, NEW S \in SUBSET Tasks, NEW out, DOMAIN out \subseteq S,
         \A t \in DOMAIN out : status[t] = "none", NEW st, "none" \notin st,
         status' = [t \in Tasks |-> IF t \in DOMAIN out THEN out[t] ELSE status[t]]
  PROVE  /\ With(S, st)' = With(S, st) \union Reported(out, st)
         /\ Cardinality(With(S, st)') = Cardinality(With(S, st)) + Cardinality(Reported(out, st))
<1>1. With(S, st)' = With(S, st) \union Reported(out, st) /\ With(S, st) \intersect Reported(out, st) = {}
  BY DEF With, Reported
<1>2. With(S, st) \in SUBSET Tasks /\ Reported(out, st) \in SUBSET Tasks
  BY DEF With, Reported
<1> QED BY <1>1, <1>2, Unions

LEMMA AgreeGrows ==
  ASSUME TypeOK, NEW S \in SUBSET Tasks, NEW out, DOMAIN out \subseteq S,
         \A t \in DOMAIN out : status[t] = "none", \A t \in DOMAIN out : out[t] \in Marks,
         status' = [t \in Tasks |-> IF t \in DOMAIN out THEN out[t] ELSE status[t]],
         NEW c, Agree(c, S)
  PROVE  /\ Plus(c, Count(out)).ok = Cardinality(With(S, {"ok"})')
         /\ Plus(c, Count(out)).failed = Cardinality(With(S, Failures)')
         /\ Plus(c, Count(out)).skipped = Cardinality(With(S, Skips)')
<1>1. /\ Reported(out, Failures) = Reported(out, {"failed"})
      /\ Reported(out, Skips) = Reported(out, {"exists", "absent", "deferred"})
  BY DEF Reported, Failures, Skips, Marks
<1>2. "none" \notin {"ok"} /\ "none" \notin Failures /\ "none" \notin Skips
  BY DEF Failures, Skips
<1>3. /\ Plus(c, Count(out)).ok = c.ok + Cardinality(Reported(out, {"ok"}))
      /\ Plus(c, Count(out)).failed = c.failed + Cardinality(Reported(out, {"failed"}))
      /\ Plus(c, Count(out)).skipped = c.skipped + Cardinality(Reported(out, {"exists", "absent", "deferred"}))
  BY DEF Plus, Count, CountWith
<1>4. Cardinality(With(S, {"ok"})') = Cardinality(With(S, {"ok"})) + Cardinality(Reported(out, {"ok"}))
  BY <1>2, WithGrows
<1>5. Cardinality(With(S, Failures)') = Cardinality(With(S, Failures)) + Cardinality(Reported(out, Failures))
  BY <1>2, WithGrows
<1>6. Cardinality(With(S, Skips)') = Cardinality(With(S, Skips)) + Cardinality(Reported(out, Skips))
  BY <1>2, WithGrows
<1> QED BY <1>1, <1>3, <1>4, <1>5, <1>6 DEF Agree

\* The tasks of other processes keep what was reported of them.
LEMMA OthersKeep ==
  ASSUME NEW S \in SUBSET Tasks, NEW out, (DOMAIN out) \intersect S = {},
         status' = [t \in Tasks |-> IF t \in DOMAIN out THEN out[t] ELSE status[t]]
  PROVE  /\ \A t \in S : status'[t] = status[t]
         /\ \A st : With(S, st)' = With(S, st)
BY DEF With

LEMMA ReportFirst ==
  ASSUME LastStagesDefer, Inv1, WaitInv, FirstInv, FailInv, NEW p \in Procs, Busy(p),
         NEW out, NEW next, Reporting(p, out, next)
  PROVE  FirstInv' /\ FailInv' /\ phase' = "first"
<1>1. /\ phase = "first" /\ phase' = "first" /\ stop' = stop /\ deaths' = deaths /\ options' = options
      /\ status' = [t \in Tasks |-> IF t \in DOMAIN out THEN out[t] ELSE status[t]]
      /\ \A t \in DOMAIN out : out[t] \in Marks
  BY DEF Reporting, Report, WaitInv, NobodyWorks, Busy
<1>2. /\ DOMAIN out \subseteq Ahead(p)
      /\ Ahead(p)' \subseteq Ahead(p) \ DOMAIN out
      /\ procs'[p].counts.failed = 0 \/ options.skipError => Ahead(p) \ Ahead(p)' \subseteq DOMAIN out
      /\ \A q \in Procs : Handled(q)' = Handled(q) /\ (q # p => Ahead(q)' = Ahead(q) /\ procs'[q] = procs[q])
      /\ procs'[p].pc = "running" /\ procs'[p].counts = Plus(procs[p].counts, Count(out))
      /\ procs'[p].deferred = procs[p].deferred \union Reported(out, {"deferred"})
  BY MovesOn
<1>3. /\ procs[p].pc = "running" /\ PassInv(p)
      /\ \A t \in Tasks : status[t] # "missing"
      /\ \A q \in Procs : PassInv(q)
  BY <1>1 DEF Busy, FirstInv
<1>4. /\ \A t \in Ahead(p) : status[t] = "none"
      /\ Agree(procs[p].counts, Handled(p)) /\ procs[p].deferred = With(Handled(p), {"deferred"})
  BY <1>3 DEF PassInv
<1>5. Handled(p) \in SUBSET Tasks /\ Ahead(p) \subseteq Handled(p)
  BY HandledApart
<1>6. procs[p].counts \in Counts /\ Count(out) \in Counts /\ TypeOK
  BY <1>2, <1>5, CountTypes DEF Inv1, TypeOK
<1>7. procs'[p].counts.failed >= procs[p].counts.failed /\ procs'[p].counts.failed \in Nat /\ procs[p].counts.failed \in Nat
  <2>1. procs'[p].counts.failed = procs[p].counts.failed + Count(out).failed
    BY <1>2 DEF Plus
  <2>2. procs[p].counts.failed \in Nat /\ Count(out).failed \in Nat
    BY <1>6 DEF Counts
  <2> QED BY <2>1, <2>2
<1>8. PassInv(p)'
  <2> DEFINE S == Handled(p)
  <2>1. /\ S \in SUBSET Tasks /\ DOMAIN out \subseteq S /\ \A t \in DOMAIN out : status[t] = "none"
        /\ Agree(procs[p].counts, S) /\ Handled(p)' = S
    BY <1>2, <1>4, <1>5
  <2>2. \A t \in Ahead(p)' : status'[t] = "none"
    BY <1>1, <1>2, <1>4, <1>5
  <2>3. /\ Plus(procs[p].counts, Count(out)).ok = Cardinality({t \in S : status'[t] \in {"ok"}})
        /\ Plus(procs[p].counts, Count(out)).failed = Cardinality({t \in S : status'[t] \in Failures})
        /\ Plus(procs[p].counts, Count(out)).skipped = Cardinality({t \in S : status'[t] \in Skips})
    <3> SUFFICES ASSUME NEW S1, S1 = S
                 PROVE  /\ Plus(procs[p].counts, Count(out)).ok = Cardinality({t \in S1 : status'[t] \in {"ok"}})
                        /\ Plus(procs[p].counts, Count(out)).failed = Cardinality({t \in S1 : status'[t] \in Failures})
                        /\ Plus(procs[p].counts, Count(out)).skipped = Cardinality({t \in S1 : status'[t] \in Skips})
      OBVIOUS
    <3> HIDE DEF S
    <3>1. /\ Plus(procs[p].counts, Count(out)).ok = Cardinality(With(S1, {"ok"})')
          /\ Plus(procs[p].counts, Count(out)).failed = Cardinality(With(S1, Failures)')
          /\ Plus(procs[p].counts, Count(out)).skipped = Cardinality(With(S1, Skips)')
      BY <1>1, <1>6, <2>1, AgreeGrows
    <3> QED BY <3>1 DEF With
  <2>4. procs'[p].deferred = {t \in S : status'[t] \in {"deferred"}}
    <3>1. procs'[p].deferred = With(S, {"deferred"}) \union Reported(out, {"deferred"})
      BY <1>2, <1>4
    <3>2. \A t \in S : status'[t] = IF t \in DOMAIN out THEN out[t] ELSE status[t]
      BY <1>1, <2>1
    <3> HIDE DEF S
    <3> QED BY <2>1, <3>1, <3>2 DEF With, Reported
  <2>5. ASSUME procs'[p].counts.failed = 0 \/ options.skipError, NEW t \in S \ Ahead(p)'
        PROVE  status'[t] # "none"
    <3>1. CASE t \in Ahead(p)
      <4>1. t \in DOMAIN out /\ t \in Tasks
        BY <1>2, <1>5, <2>5, <3>1
      <4> QED BY <1>1, <4>1 DEF Marks
    <3>2. CASE t \notin Ahead(p)
      <4>1. procs[p].counts.failed = 0 \/ options.skipError
        BY <1>7, <2>5
      <4>2. status[t] # "none" /\ t \in Tasks
        BY <1>3, <1>5, <3>2, <4>1 DEF PassInv
      <4> QED BY <1>1, <4>2 DEF Marks
    <3> QED BY <3>1, <3>2
  <2> HIDE DEF S
  <2>6. Agree(procs[p].counts, Handled(p))'
    BY <1>2, <2>1, <2>3 DEF Agree, With
  <2>7. procs'[p].deferred = With(Handled(p), {"deferred"})'
    BY <2>1, <2>4 DEF With
  <2> QED BY <1>1, <1>2, <2>1, <2>2, <2>5, <2>6, <2>7 DEF PassInv
<1>9. ASSUME NEW q \in Procs, q # p PROVE PassInv(q)'
  <2>1. /\ procs'[q] = procs[q] /\ Handled(q)' = Handled(q) /\ Ahead(q)' = Ahead(q) /\ PassInv(q)
        /\ Handled(q) \in SUBSET Tasks /\ Ahead(q) \subseteq Handled(q)
    BY <1>2, <1>3, <1>9, HandledApart
  <2>2. (DOMAIN out) \intersect Handled(q) = {}
    BY <1>2, <1>5, <1>9, HandledApart
  <2>3. \A t \in Handled(q) : status'[t] = status[t]
    BY <1>1, <2>1, <2>2
  <2>4. \A st : With(Handled(q), st)' = With(Handled(q), st)
    BY <2>1, <2>3 DEF With
  <2>5. procs'[q].pc # "dead" => Agree(procs[q].counts, Handled(q))'
    <3>1. procs[q].pc # "dead" => Agree(procs[q].counts, Handled(q))
      BY <2>1 DEF PassInv
    <3> QED BY <2>1, <2>4, <3>1 DEF Agree
  <2>6. procs'[q].pc # "dead" => procs'[q].deferred = With(Handled(q), {"deferred"})'
    BY <2>1, <2>4 DEF PassInv
  <2> QED BY <1>1, <2>1, <2>3, <2>5, <2>6 DEF PassInv
<1>10. \A t \in Tasks : status'[t] # "missing"
  BY <1>1, <1>3 DEF Marks
<1>11. FirstInv'
  BY <1>8, <1>9, <1>10 DEF FirstInv
<1>12. FailInv'
  <2>1. stop \/ deaths > 0 => \E q \in Procs : procs'[q].counts.failed > 0
    BY <1>1, <1>2, <1>7 DEF FailInv
  <2>2. \A q \in Procs : procs'[q].pc = procs[q].pc
    BY <1>2, <1>3
  <2> QED BY <1>1, <2>1, <2>2 DEF FailInv
<1> QED BY <1>1, <1>11, <1>12

LEMMA InitSummary ==
  ASSUME LastStagesDefer, Init
  PROVE  FirstInv /\ FailInv /\ SecondInv
<1>1. Inv1
  BY InitInv1
<1>2. ASSUME NEW p \in Procs
      PROVE  /\ procs[p].pc \in {"none", "queued", "running"} /\ procs[p].stage = After(p, 0) /\ procs[p].task = 1
             /\ procs[p].counts = NoCounts /\ procs[p].deferred = {}
  <2>1. procs[p] = IF p = Main
                   THEN Process(IF Parallel THEN "none" ELSE "running", p)
                   ELSE Process(IF Parallel THEN "queued" ELSE "none", p)
    BY <1>2 DEF Init
  <2> QED BY <2>1 DEF Process
<1>3. phase = "first" /\ stop = FALSE /\ deaths = 0 /\ \A t \in Tasks : status[t] = "none"
  BY DEF Init
<1>4. \A S \in SUBSET Tasks : /\ With(S, {"ok"}) = {} /\ With(S, Failures) = {} /\ With(S, Skips) = {}
                              /\ With(S, {"deferred"}) = {}
  BY <1>3 DEF With, Failures, Skips
<1>5. \A S \in SUBSET Tasks : Agree(NoCounts, S)
  BY <1>4, FS_EmptySet DEF Agree, NoCounts
<1>6. ASSUME NEW p \in Procs PROVE PassInv(p)
  <2>1. Handled(p) \in SUBSET Tasks /\ Ahead(p) \subseteq Handled(p)
    BY HandledApart
  <2>2. Agree(procs[p].counts, Handled(p)) /\ procs[p].deferred = With(Handled(p), {"deferred"})
    BY <1>2, <1>4, <1>5, <2>1
  <2>3. ASSUME NEW t \in Handled(p) PROVE t \in Ahead(p)
    <3>1. PICK j \in DOMAIN Stages : Worker(j) = p /\ t \in TasksOf(Stages[j]) /\ t \in Tasks
      BY DEF Handled
    <3>2. PICK l \in DOMAIN Stages[j].tasks : t = Stages[j].tasks[l]
      BY <3>1 DEF TasksOf
    <3>3. Mine(p, j)
      <4>1. Stages[j].tasks # <<>> /\ p \in {Stages[j].binary, Main}
        BY <3>1, <3>2, Workers, StageFacts
      <4> QED BY <4>1 DEF Mine
    <3>4. After(p, 0) <= j /\ After(p, 0) \in Int /\ j \in Int /\ 0 < j
      <4>1. 0 \in 0..Len(Stages) /\ 0 < j /\ j \in Int
        BY StageFacts
      <4> QED BY <3>3, <4>1, AfterIs, StageFacts
    <3>5. 1 <= l
      BY <3>2, StageFacts
    <3>6. After(p, 0) < j \/ (After(p, 0) = j /\ 1 <= l)
      BY <3>4, <3>5
    <3> QED BY <1>2, <3>1, <3>2, <3>6 DEF Ahead
  <2> QED BY <1>2, <1>3, <2>1, <2>2, <2>3 DEF PassInv
<1>7. FirstInv
  BY <1>3, <1>6 DEF FirstInv
<1>8. FailInv
  BY <1>2, <1>3 DEF FailInv
<1>9. SecondInv
  BY <1>3 DEF SecondInv
<1> QED BY <1>7, <1>8, <1>9

LEMMA ProcessFirst ==
  ASSUME Inv1, WaitInv, FirstInv, FailInv, NEW p \in Procs, Take(p) \/ End(p) \/ Die(p)
  PROVE  FirstInv' /\ FailInv' /\ phase' = "first"
<1>1. /\ phase = "first" /\ phase' = "first" /\ status' = status /\ options' = options
      /\ \A q \in Procs : q # p => procs'[q] = procs[q]
  BY DEF Take, End, Die, WaitInv, NobodyWorks, Inv1, TypeOK
<1>2. \A q \in Procs : PassInv(q)
  BY <1>1 DEF FirstInv
<1>3. Parallel' = Parallel /\ (\A j : Worker(j)' = Worker(j)) /\ \A q : Handled(q)' = Handled(q)
  BY <1>1 DEF Parallel, Jobs, Worker, Handled
<1>4. \A S : \A st : With(S, st)' = With(S, st)
  BY <1>1 DEF With
<1>5. ASSUME NEW q \in Procs, q # p PROVE PassInv(q)'
  <2>1. procs'[q] = procs[q] /\ Ahead(q)' = Ahead(q) /\ Handled(q)' = Handled(q) /\ PassInv(q)
    BY <1>1, <1>2, <1>3, <1>5 DEF Ahead
  <2>2. Agree(procs[q].counts, Handled(q))' <=> Agree(procs[q].counts, Handled(q))
    BY <1>1, <2>1 DEF Agree, With
  <2>3. With(Handled(q), {"deferred"})' = With(Handled(q), {"deferred"})
    BY <1>1, <2>1 DEF With
  <2> QED BY <1>1, <2>1, <2>2, <2>3 DEF PassInv
<1>6. PassInv(p)'
  <2>1. CASE Take(p) \/ End(p)
    <3>1. /\ procs'[p].stage = procs[p].stage /\ procs'[p].task = procs[p].task
          /\ procs'[p].deferred = procs[p].deferred /\ procs'[p].counts = procs[p].counts
          /\ procs[p].pc \in {"queued", "running"} /\ procs'[p].pc \in {"running", "unstarted", "ended"}
      BY <2>1 DEF Take, End, Inv1, TypeOK
    <3>2. Ahead(p)' = Ahead(p) /\ Handled(p)' = Handled(p) /\ PassInv(p)
      BY <1>2, <1>3, <3>1 DEF Ahead
    <3>3. Agree(procs[p].counts, Handled(p))' <=> Agree(procs[p].counts, Handled(p))
      BY <1>1, <3>1, <3>2 DEF Agree, With
    <3>4. With(Handled(p), {"deferred"})' = With(Handled(p), {"deferred"})
      BY <1>1, <3>2 DEF With
    <3> QED BY <1>1, <3>1, <3>2, <3>3, <3>4 DEF PassInv
  <2>2. CASE Die(p)
    <3>1. procs'[p].pc = "dead"
      BY <2>2 DEF Die, Inv1, TypeOK
    <3> QED BY <3>1 DEF PassInv
  <2> QED BY <2>1, <2>2
<1>7. FirstInv'
  BY <1>1, <1>5, <1>6 DEF FirstInv
<1>8. FailInv'
  <2>1. CASE Take(p)
    <3>1. /\ procs'[p].counts = procs[p].counts /\ procs'[p].pc \in {"running", "unstarted"}
          /\ procs'[p].pc = "unstarted" => stop
          /\ stop' = stop /\ deaths' = deaths
      BY <2>1 DEF Take, Inv1, TypeOK
    <3>2. \A q \in Procs : procs'[q].counts = procs[q].counts
      BY <1>1, <3>1
    <3>3. \A q \in Procs : /\ procs'[q].pc = "unstarted" => stop
                           /\ procs'[q].pc = "dead" => deaths > 0
      BY <1>1, <3>1 DEF FailInv
    <3> QED BY <1>1, <3>1, <3>2, <3>3 DEF FailInv
  <2>2. CASE End(p)
    <3>1. /\ procs'[p].counts = procs[p].counts /\ procs'[p].pc = "ended" /\ deaths' = deaths
          /\ stop' = (stop \/ (procs[p].counts.failed > 0 /\ ~options.skipError))
      BY <2>2 DEF End, Inv1, TypeOK
    <3>2. \A q \in Procs : procs'[q].counts = procs[q].counts
      BY <1>1, <3>1
    <3>3. \A q \in Procs : /\ procs'[q].pc = "unstarted" => stop'
                           /\ procs'[q].pc = "dead" => deaths > 0
      BY <1>1, <3>1 DEF FailInv
    <3>4. stop' \/ deaths' > 0 => \E q \in Procs : procs'[q].counts.failed > 0
      BY <1>1, <3>1, <3>2 DEF FailInv
    <3> QED BY <3>1, <3>3, <3>4 DEF FailInv
  <2>3. CASE Die(p)
    <3>1. /\ procs'[p].counts = NoResult /\ procs'[p].pc = "dead" /\ deaths' = deaths + 1
          /\ stop' = (stop \/ ~options.skipError)
      BY <2>3 DEF Die, Inv1, TypeOK
    <3>2. procs'[p].counts.failed > 0
      BY <3>1 DEF NoResult, NoCounts
    <3>3. deaths \in Nat
      BY AnalysisAssumption DEF Inv1, TypeOK, AnalysisAssumption
    <3>4. deaths' > 0
      BY <3>1, <3>3
    <3>5. \A q \in Procs : procs'[q].pc = "unstarted" => stop'
      BY <1>1, <3>1 DEF FailInv
    <3> QED BY <3>2, <3>4, <3>5 DEF FailInv
  <2> QED BY <2>1, <2>2, <2>3
<1> QED BY <1>1, <1>7, <1>8

\* What the processes counted is what was reported of all tasks.
LEMMA SumsAgree ==
  ASSUME LastStagesDefer, Inv1, NEW k, NEW st, \A p \in Procs : procs[p].counts[k] = Cardinality(With(Handled(p), st))
  PROVE  Sum(k) = Cardinality(With(Tasks, st))
<1> DEFINE A == [p \in Procs |-> With(Handled(p), st)]
<1>1. Counting(k, A)
  <2>1. ASSUME NEW p \in Procs PROVE IsFiniteSet(A[p]) /\ procs[p].counts[k] = Cardinality(A[p])
    <3>1. A[p] \in SUBSET Tasks
      BY HandledApart DEF With
    <3> QED BY <3>1, TaskSets
  <2>2. \A p, q \in Procs : p # q => A[p] \intersect A[q] = {}
    BY HandledApart DEF With
  <2>3. DOMAIN A = Procs
    OBVIOUS
  <2> HIDE DEF A
  <2> QED BY <2>1, <2>2, <2>3 DEF Counting
<1>2. Sum(k) = Cardinality(UNION {A[p] : p \in Procs})
  <2> HIDE DEF A
  <2> QED BY <1>1, SumIsCardinality
<1>3. UNION {A[p] : p \in Procs} = With(Tasks, st)
  BY HandledApart DEF With
<1> QED BY <1>2, <1>3

LEMMA GatherAgrees ==
  ASSUME LastStagesDefer, Inv1, WaitInv, FirstInv, FailInv, Gather
  PROVE  SecondInv'
<1>1. /\ phase = "first" /\ phase' = IF stop \/ Collected = {} THEN "done" ELSE "retry"
      /\ totals' = [ok |-> Sum("ok"), failed |-> Sum("failed"), skipped |-> Sum("skipped")]
      /\ pending' = Collected /\ UNCHANGED <<options, procs, stop, status, deaths>>
      /\ \A p \in Procs : procs[p].pc \notin {"queued", "running"}
  BY DEF Gather
<1>2. \A S : \A st : With(S, st)' = With(S, st)
  BY <1>1 DEF With
<1>3. ASSUME deaths = 0
      PROVE  /\ Sum("ok") = Cardinality(With(Tasks, {"ok"}))
             /\ Sum("failed") = Cardinality(With(Tasks, Failures))
             /\ Sum("skipped") = Cardinality(With(Tasks, Skips))
             /\ Collected = With(Tasks, {"deferred"})
  <2>1. ASSUME NEW p \in Procs
        PROVE  Agree(procs[p].counts, Handled(p)) /\ procs[p].deferred = With(Handled(p), {"deferred"})
    <3>1. procs[p].pc # "dead" /\ PassInv(p)
      BY <1>1, <1>3 DEF FailInv, FirstInv
    <3> QED BY <3>1 DEF PassInv
  <2>2. Sum("ok") = Cardinality(With(Tasks, {"ok"}))
    BY <2>1, SumsAgree DEF Agree
  <2>3. Sum("failed") = Cardinality(With(Tasks, Failures))
    BY <2>1, SumsAgree DEF Agree
  <2>4. Sum("skipped") = Cardinality(With(Tasks, Skips))
    BY <2>1, SumsAgree DEF Agree
  <2>5. Collected = With(Tasks, {"deferred"})
    BY <2>1, HandledApart DEF Collected, With
  <2> QED BY <2>2, <2>3, <2>4, <2>5
<1>4. deaths = 0 => Agree(totals, Tasks)'
  BY <1>1, <1>2, <1>3 DEF Agree
<1>5. ASSUME Sum("failed") = 0
      PROVE  deaths = 0 /\ ~stop /\ With(Tasks, {"none"}) = {}
  <2>1. \A p \in Procs : procs[p].counts.failed \in Nat
    BY DEF Inv1, TypeOK, Counts
  <2>2. PICK iter : /\ SumTable("failed", iter)
                    /\ \A s \in SUBSET Procs : iter[s] \in Nat /\ \A p \in s : procs[p].counts["failed"] <= iter[s]
    BY <2>1, SumsOfNumbers
  <2>3. \A p \in Procs : procs[p].counts.failed = 0
    <3>1. iter[Procs] = 0 /\ \A p \in Procs : procs[p].counts["failed"] <= iter[Procs]
      BY <1>5, <2>2 DEF SumTable
    <3> QED BY <2>1, <3>1
  <2>4. ~stop /\ ~(deaths > 0)
    BY <1>1, <2>3 DEF FailInv
  <2>5. deaths = 0
    BY <2>4, AnalysisAssumption DEF Inv1, TypeOK, AnalysisAssumption
  <2>6. ASSUME NEW t \in Tasks PROVE status[t] # "none"
    <3>1. PICK i \in DOMAIN Stages : t \in Handled(Worker(i))
      BY Places
    <3> DEFINE p == Worker(i)
    <3>2. p \in Procs /\ (Parallel <=> p # Main)
      BY Workers
    <3> HIDE DEF p
    <3>3. procs[p].pc = "ended" /\ procs[p].stage = Through
      <4>1. procs[p].pc \in ProcState /\ procs[p].pc # "none" /\ (procs[p].pc = "ended" => procs[p].stage = Through)
        BY <3>2 DEF Inv1, TypeOK, PlaceInv
      <4>2. procs[p].pc \notin {"queued", "running", "dead", "unstarted"}
        BY <1>1, <2>4, <3>2 DEF FailInv
      <4> QED BY <4>1, <4>2 DEF ProcState
    <3>4. Ahead(p) = {}
      <4> SUFFICES ASSUME NEW i1 \in DOMAIN Stages, Through < i1 \/ Through = i1 PROVE FALSE
        BY <3>3 DEF Ahead
      <4> QED BY StageFacts
    <3>5. PassInv(p)
      BY <1>1, <3>2 DEF FirstInv
    <3> QED BY <2>3, <3>1, <3>2, <3>3, <3>4, <3>5 DEF PassInv, p
  <2> QED BY <2>4, <2>5, <2>6 DEF With
<1>6. totals'.failed = Sum("failed")
  BY <1>1
<1>7. phase' = "retry" => ~stop
  BY <1>1
<1>8. deaths = 0 => /\ phase' = "retry" => pending' = With(Tasks, {"deferred"})
                    /\ phase' = "done" /\ ~stop => With(Tasks, {"deferred"}) = {}
  BY <1>1, <1>3
<1> QED BY <1>1, <1>2, <1>4, <1>5, <1>6, <1>7, <1>8 DEF SecondInv

LEMMA NextForeign ==
  ASSUME Inv1, ForeignInv, [Next]_vars
  PROVE  ForeignInv'
<1>1. ASSUME NEW p \in Procs, RunTask(p) \/ GiveUp(p) PROVE ForeignInv'
  <2>1. PICK out, next : Report(p, out, next) /\ Reported(out, {"deferred"}) \subseteq Foreign
    <3>1. CASE RunTask(p)
      <4>1. PICK o \in Outcome(Current(p)) : Report(p, [t \in {Current(p)} |-> o], procs[p].task + 1)
        BY <3>1 DEF RunTask
      <4>2. o = "deferred" => \E i \in Missing(Current(p)) : BinaryOf(i) # BinaryOf(Current(p))
        BY DEF Outcome
      <4>3. Current(p) \in Tasks
        BY <3>1, AtTask DEF RunTask
      <4>4. o = "deferred" => Current(p) \in Foreign
        BY <4>2, <4>3 DEF Missing, Foreign
      <4> QED BY <4>1, <4>4 DEF Reported
    <3>2. CASE GiveUp(p)
      <4>1. Reported([t \in Before(p) |-> IF t \in artifacts THEN "exists" ELSE "failed"], {"deferred"}) = {}
        BY DEF Reported
      <4> QED BY <3>2, <4>1 DEF GiveUp
    <3> QED BY <1>1, <3>1, <3>2
  <2>2. /\ pending' = pending
        /\ \A q \in Procs : procs'[q].deferred = IF q = p THEN procs[p].deferred \union Reported(out, {"deferred"})
                                                 ELSE procs[q].deferred
    BY <2>1 DEF Report, Inv1, TypeOK
  <2> QED BY <2>1, <2>2 DEF ForeignInv
<1>2. ASSUME NEW p \in Procs, Take(p) \/ End(p) \/ Die(p) PROVE ForeignInv'
  BY <1>2 DEF Take, End, Die, ForeignInv, Inv1, TypeOK
<1>3. CASE Gather
  BY <1>3 DEF Gather, Collected, ForeignInv
<1>4. CASE Retry
  BY <1>4 DEF Retry, ForeignInv
<1>5. CASE Terminated \/ UNCHANGED vars
  BY <1>5 DEF Terminated, vars, ForeignInv
<1> QED BY <1>1, <1>2, <1>3, <1>4, <1>5 DEF Next

LEMMA RetryAgrees ==
  ASSUME LastStagesDefer, Inv1, ForeignInv, SecondInv, Retry
  PROVE  SecondInv'
<1>1. PICK out \in [Found(Ready) -> {"ok", "failed", "absent"}] :
         /\ totals' = [Plus(totals, Count(out)) EXCEPT !.failed  = @ + Cardinality(Over),
                                                       !.skipped = @ - TakenBack]
         /\ status' = [t \in Tasks |-> IF t \in Over THEN "missing"
                                       ELSE IF t \in DOMAIN out THEN out[t] ELSE status[t]]
  BY DEF Retry
<1>2. /\ phase = "retry" /\ pending' = pending \ (Ready \union Over)
      /\ phase' = IF pending \subseteq Ready \union Over THEN "done" ELSE "retry"
      /\ UNCHANGED <<stop, deaths>>
  BY DEF Retry
<1>3. /\ pending \in SUBSET Tasks /\ Ready \in SUBSET pending /\ Over \in SUBSET pending
      /\ Ready \intersect Over = {} /\ totals \in Counts /\ Ready \in SUBSET Tasks /\ Over \in SUBSET Tasks
  BY DEF Inv1, TypeOK, Ready, Over
<1>4. DOMAIN out = Ready /\ \A t \in Ready : out[t] \in {"ok", "failed", "absent"}
  <2>1. Found(Ready) = Ready
    BY <1>3 DEF LastStagesDefer, ForeignInv, Found
  <2> QED BY <2>1
<1>5. /\ Count(out) \in Counts
      /\ Count(out).ok = Cardinality(Reported(out, {"ok"}))
      /\ Count(out).failed = Cardinality(Reported(out, {"failed"}))
      /\ Count(out).skipped = Cardinality(Reported(out, {"exists", "absent", "deferred"}))
  BY <1>3, <1>4, CountTypes DEF Count, CountWith
<1>6. /\ totals'.ok = totals.ok + Count(out).ok
      /\ totals'.failed = totals.failed + Count(out).failed + Cardinality(Over)
      /\ totals'.skipped = totals.skipped + Count(out).skipped - Cardinality(Ready)
  <2> DEFINE c == Plus(totals, Count(out))
  <2>1. /\ c \in [ok : Nat, failed : Nat, skipped : Nat] /\ c.ok = totals.ok + Count(out).ok
        /\ c.failed = totals.failed + Count(out).failed /\ c.skipped = totals.skipped + Count(out).skipped
    BY <1>3, <1>5, PlusTypes DEF Counts
  <2> HIDE DEF c
  <2>2. totals' = [c EXCEPT !.failed = @ + Cardinality(Over), !.skipped = @ - Cardinality(Ready)]
    BY <1>1 DEF TakenBack, c
  <2>3. totals'.skipped = c.skipped - Cardinality(Ready) /\ totals'.failed = c.failed + Cardinality(Over)
        /\ totals'.ok = c.ok
    BY <2>1, <2>2
  <2>4. /\ totals.skipped \in Nat /\ Count(out).skipped \in Nat /\ Cardinality(Ready) \in Nat
        /\ totals.failed \in Nat /\ Count(out).failed \in Nat /\ Cardinality(Over) \in Nat
    BY <1>3, <1>5, TaskSets DEF Counts
  <2>5. /\ c.ok = totals.ok + Count(out).ok
        /\ c.failed = totals.failed + Count(out).failed /\ c.skipped = totals.skipped + Count(out).skipped
    BY <2>1
  <2> QED BY <2>3, <2>4, <2>5
<1>7. \A t \in Tasks : status'[t] = IF t \in Over THEN "missing" ELSE IF t \in Ready THEN out[t] ELSE status[t]
  BY <1>1, <1>4
<1>8. /\ totals.ok \in Nat /\ totals.failed \in Nat /\ totals.skipped \in Nat
      /\ Count(out).ok \in Nat /\ Count(out).failed \in Nat /\ Count(out).skipped \in Nat
      /\ Cardinality(Over) \in Nat /\ Cardinality(Ready) \in Nat
  BY <1>3, <1>5, TaskSets DEF Counts
<1>9. ~stop
  BY <1>2 DEF SecondInv
<1>10. ASSUME deaths = 0
       PROVE  Agree(totals, Tasks)' /\ pending' = With(Tasks, {"deferred"})'
  <2>1. Agree(totals, Tasks) /\ pending = With(Tasks, {"deferred"})
    BY <1>2, <1>10 DEF SecondInv
  <2>2. \A t \in Ready \union Over : t \in Tasks /\ status[t] = "deferred"
    BY <1>3, <2>1 DEF With
  <2>3. totals'.ok = Cardinality(With(Tasks, {"ok"})')
    <3>1. With(Tasks, {"ok"})' = With(Tasks, {"ok"}) \union Reported(out, {"ok"})
      BY <1>4, <1>7, <2>2, <1>3 DEF With, Reported
    <3>2. With(Tasks, {"ok"}) \intersect Reported(out, {"ok"}) = {}
      BY <1>4, <2>2 DEF With, Reported
    <3>3. With(Tasks, {"ok"}) \in SUBSET Tasks /\ Reported(out, {"ok"}) \in SUBSET Tasks
      BY <1>3, <1>4 DEF With, Reported
    <3>4. Cardinality(With(Tasks, {"ok"})') = Cardinality(With(Tasks, {"ok"})) + Cardinality(Reported(out, {"ok"}))
      BY <3>1, <3>2, <3>3, Unions
    <3> QED BY <1>5, <1>6, <2>1, <3>4 DEF Agree
  <2>4. totals'.failed = Cardinality(With(Tasks, Failures)')
    <3> DEFINE F == With(Tasks, Failures)
               R == Reported(out, {"failed"})
    <3>1. With(Tasks, Failures)' = (F \union R) \union Over
      BY <1>4, <1>7, <2>2, <1>3 DEF With, Reported, Failures
    <3>2. F \intersect R = {} /\ (F \union R) \intersect Over = {}
      BY <1>3, <1>4, <2>2 DEF With, Reported, Failures
    <3>3. F \in SUBSET Tasks /\ R \in SUBSET Tasks /\ F \union R \in SUBSET Tasks
      BY <1>3, <1>4 DEF With, Reported
    <3> HIDE DEF F, R
    <3>4. Cardinality((F \union R) \union Over) = Cardinality(F \union R) + Cardinality(Over)
      BY <1>3, <3>2, <3>3, Unions
    <3>5. Cardinality(F \union R) = Cardinality(F) + Cardinality(R)
      BY <3>2, <3>3, Unions
    <3>6. totals.failed = Cardinality(F) /\ Count(out).failed = Cardinality(R)
      BY <1>5, <2>1 DEF Agree, F, R
    <3> QED BY <1>6, <3>1, <3>4, <3>5, <3>6
  <2>5. totals'.skipped = Cardinality(With(Tasks, Skips)')
    <3> DEFINE K == With(Tasks, Skips) \ Ready
               R == Reported(out, {"exists", "absent", "deferred"})
    <3>1. With(Tasks, Skips)' = K \union R
      BY <1>4, <1>7, <2>2, <1>3 DEF With, Reported, Skips
    <3>2. K \intersect R = {} /\ K \intersect Ready = {} /\ With(Tasks, Skips) = K \union Ready
      BY <1>3, <1>4, <2>2 DEF With, Reported, Skips
    <3>3. K \in SUBSET Tasks /\ R \in SUBSET Tasks
      BY <1>3, <1>4 DEF With, Reported
    <3> HIDE DEF K, R
    <3>4. Cardinality(K \union R) = Cardinality(K) + Cardinality(R)
      BY <3>2, <3>3, Unions
    <3>5. Cardinality(K \union Ready) = Cardinality(K) + Cardinality(Ready)
      BY <1>3, <3>2, <3>3, Unions
    <3>6. totals.skipped = Cardinality(K \union Ready) /\ Count(out).skipped = Cardinality(R)
      BY <1>5, <2>1, <3>2 DEF Agree, R
    <3>7. Cardinality(K) \in Nat /\ Cardinality(R) \in Nat
      BY <3>3, TaskSets
    <3> QED BY <1>6, <1>8, <3>1, <3>4, <3>5, <3>6, <3>7
  <2>6. pending' = With(Tasks, {"deferred"})'
    BY <1>2, <1>3, <1>4, <1>7, <2>1 DEF With
  <2> QED BY <2>3, <2>4, <2>5, <2>6 DEF Agree
<1>11. ASSUME totals'.failed = 0 PROVE deaths = 0 /\ With(Tasks, {"none"})' = {}
  <2>1. totals.failed = 0
    <3>1. totals.failed + Count(out).failed + Cardinality(Over) = 0
      BY <1>6, <1>11
    <3>2. \A a, b, c \in Nat : a + b + c = 0 => a = 0
      OBVIOUS
    <3>3. totals.failed \in Nat /\ Count(out).failed \in Nat /\ Cardinality(Over) \in Nat
      BY <1>8
    <3> QED BY <3>1, <3>2, <3>3, Zenon
  <2>2. deaths = 0 /\ With(Tasks, {"none"}) = {}
    BY <1>2, <2>1 DEF SecondInv
  <2>3. ASSUME NEW t \in Tasks PROVE status'[t] # "none"
    BY <1>4, <1>7, <2>2 DEF With
  <2> QED BY <2>2, <2>3 DEF With
<1>12. phase' \in {"retry", "done"} /\ (phase' = "done" => pending' = {})
  BY <1>2
<1> QED BY <1>2, <1>9, <1>10, <1>11, <1>12 DEF SecondInv

LEMMA NextInv2 ==
  ASSUME LastStagesDefer, Inv2, Inv1', WaitInv', ForeignInv', [Next]_vars
  PROVE  Inv2'
<1> USE DEF Inv2
<1>1. ASSUME phase' = "first" PROVE SecondInv'
  BY <1>1 DEF SecondInv
<1>2. ASSUME NEW p \in Procs, RunTask(p) \/ GiveUp(p) PROVE Inv2'
  <2>1. Busy(p) /\ \E out, next : Reporting(p, out, next)
    BY <1>2, Reports
  <2>2. FirstInv' /\ FailInv' /\ phase' = "first"
    BY <2>1, ReportFirst
  <2> QED BY <1>1, <2>2
<1>3. ASSUME NEW p \in Procs, Take(p) \/ End(p) \/ Die(p) PROVE Inv2'
  BY <1>1, <1>3, ProcessFirst
<1>4. CASE Gather \/ Retry
  <2>1. phase' # "first"
    BY <1>4 DEF Gather, Retry
  <2>2. FirstInv' /\ FailInv'
    BY <2>1 DEF FirstInv, FailInv
  <2> QED BY <1>4, <2>2, GatherAgrees, RetryAgrees
<1>5. CASE Terminated \/ UNCHANGED vars
  <2>1. UNCHANGED vars
    BY <1>5 DEF Terminated
  <2>2. FirstInv'
    <3>1. ASSUME NEW q \in Procs PROVE PassInv(q)' <=> PassInv(q)
      BY <2>1 DEF vars, PassInv, Ahead, Handled, Worker, Parallel, Jobs, Agree, With
    <3> QED BY <2>1, <3>1 DEF vars, FirstInv
  <2>3. FailInv' /\ SecondInv'
    BY <2>1 DEF vars, FailInv, SecondInv, Agree, With
  <2> QED BY <2>2, <2>3
<1> QED BY <1>2, <1>3, <1>4, <1>5 DEF Next

LEMMA SummaryInv ==
  ASSUME LastStagesDefer
  PROVE  Spec => []Inv2
<1>1. Init => Inv2
  <2>1. Init => ForeignInv
    BY DEF Init, ForeignInv, Process
  <2> QED BY <2>1, InitInv1, InitWait, InitSummary DEF Inv2
<1>2. Inv2 /\ [Next]_vars => Inv2'
  BY NextInv1, NextWait, NextForeign, NextInv2 DEF Inv2
<1> QED BY <1>1, <1>2, PTL DEF Spec

\* Exit code 0 means that every task was dealt with, whatever was deferred on
\* the way: a task that no process came to leaves a failure in the summary.
THEOREM SuccessMeansComplete ==
  ASSUME LastStagesDefer
  PROVE  Spec => []SuccessIsComplete
<1>1. Inv2 => SuccessIsComplete
  <2> SUFFICES ASSUME Inv2, phase = "done", totals.failed = 0, NEW t \in Tasks
               PROVE  status[t] \in {"exists", "ok", "absent"}
    BY DEF SuccessIsComplete
  <2>1. deaths = 0 /\ ~stop /\ With(Tasks, {"none"}) = {}
    BY DEF Inv2, SecondInv
  <2>2. Agree(totals, Tasks) /\ With(Tasks, {"deferred"}) = {}
    BY <2>1 DEF Inv2, SecondInv
  <2>3. With(Tasks, Failures) = {}
    <3>1. With(Tasks, Failures) \in SUBSET Tasks
      BY DEF With
    <3>2. IsFiniteSet(With(Tasks, Failures)) /\ Cardinality(With(Tasks, Failures)) = 0
      BY <2>2, <3>1, TaskSets DEF Agree
    <3> QED BY <3>2, FS_EmptySet
  <2>4. status[t] \in Status
    BY DEF Inv2, Inv1, TypeOK
  <2> QED BY <2>1, <2>2, <2>3, <2>4 DEF With, Status, Failures
<1> QED BY SummaryInv, <1>1, PTL

\* A run that ends without an abort leaves no deferred task whose inputs are
\* there.
THEOREM DeferredRetried ==
  ASSUME LastStagesDefer
  PROVE  Spec => []DeferredAreRetried
<1>1. Inv2 => DeferredAreRetried
  BY DEF Inv2, SecondInv, With, DeferredAreRetried
<1> QED BY SummaryInv, <1>1, PTL

\* The summary agrees with what was reported of the tasks, over all processes
\* and passes.
THEOREM TotalsAreRight ==
  ASSUME LastStagesDefer
  PROVE  Spec => []TotalsAgree
<1>1. Inv2 => TotalsAgree
  BY DEF Inv2, SecondInv, Agree, With, TotalsAgree, Skips
<1> QED BY SummaryInv, <1>1, PTL
=============================================================================
