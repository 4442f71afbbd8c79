----------------------------- MODULE AnalysisRun -----------------------------
(***************************************************************************)
(* One run of the analyzer over all binaries: ida_analyze_bin.py from      *)
(* _execute_analysis down to the tasks.  A stage is an entry of "modules"  *)
(* in the config for one platform: a binary and its tasks, in topological  *)
(* order; one binary may have several stages.  With several jobs every     *)
(* binary has a process of its own (a group), otherwise the main process   *)
(* takes the stages one after the other.  A task whose inputs belong to    *)
(* another binary and are missing is deferred and retried at the end.      *)
(*                                                                         *)
(* Artifacts are named by the task that produces them.  Left out: tasks of *)
(* the other platform, binaries that were not downloaded, vcall targets    *)
(* and post-processing, which only add to the counts.                      *)
(***************************************************************************)
EXTENDS Integers, Sequences, FiniteSets, FiniteSetsExt

CONSTANTS
    Tasks,
    Stages,     \* the sequence of [binary, tasks]
    Inputs,     \* expected_input, as the tasks that produce it
    Options,    \* the command lines considered: [jobs, skipError]
    MaxDeaths   \* bound on children that end without a result

Stage    == {Stages[i] : i \in DOMAIN Stages}
Binaries == {s.binary : s \in Stage}
Main     == "main"
Procs    == Binaries \union {Main}

TasksOf(s) == {s.tasks[i] : i \in DOMAIN s.tasks}

AnalysisAssumption ==
    /\ IsFiniteSet(Tasks)
    /\ Stages \in Seq([binary : Binaries, tasks : Seq(Tasks)])
    /\ Inputs \in [Tasks -> SUBSET Tasks]
    /\ Options \subseteq [jobs : Nat \ {0}, skipError : BOOLEAN]
    /\ MaxDeaths \in Nat
    /\ Main \notin Binaries
    /\ \A t \in Tasks : \E s \in Stage : t \in TasksOf(s)

ASSUME AnalysisAssumption

StageOf(t)  == CHOOSE s \in Stage : t \in TasksOf(s)
BinaryOf(t) == StageOf(t).binary

\* The number of a process's stage when it has none left.
Through == Len(Stages) + 1

VARIABLES
    options,    \* the command line
    artifacts,  \* tasks whose outputs exist
    procs,      \* the processes that analyse binaries
    stop,       \* the event stop, or abort_processing of the main process
    phase,      \* "first" pass, "retry" of deferred tasks, "done"
    pending,    \* _DEFERRED_INPUT_SKILLS of the parent
    totals,     \* the summary
    status,     \* what was reported last of each task
    deaths

vars == <<options, artifacts, procs, stop, phase, pending, totals, status, deaths>>

Counts    == [ok : Nat, failed : Nat, skipped : Nat]
NoCounts  == [ok |-> 0, failed |-> 0, skipped |-> 0]
Status    == {"none", "exists", "ok", "absent", "failed", "deferred", "missing"}
Failures  == {"failed", "missing"}
ProcState == {"none", "queued", "running", "ended", "dead", "unstarted"}

TypeOK ==
    /\ options \in Options
    /\ artifacts \subseteq Tasks
    /\ procs \in [Procs -> [pc : ProcState, stage : 1..Through, task : Nat,
                          counts : Counts, deferred : SUBSET Tasks]]
    /\ stop \in BOOLEAN
    /\ phase \in {"first", "retry", "done"}
    /\ pending \subseteq Tasks
    /\ totals \in Counts
    /\ status \in [Tasks -> Status]
    /\ deaths \in 0..MaxDeaths

-----------------------------------------------------------------------------

\* -jobs: at most one job per binary; a single one runs in the main process.
Jobs     == Min({options.jobs, Cardinality(Binaries)})
Parallel == Jobs > 1

\* The stages of a process are those of its binary that have tasks, all of them
\* for the main process.
Mine(p, i) == Stages[i].tasks # <<>> /\ p \in {Stages[i].binary, Main}

\* The next stage of a process after i, in the order of the config.
After(p, i) == Min({j \in DOMAIN Stages : i < j /\ Mine(p, j)} \union {Through})

\* Where a process stands: before the task with the number task of a stage.
Process(pc, p) ==
    [pc |-> pc, stage |-> After(p, 0), task |-> 1, counts |-> NoCounts, deferred |-> {}]

Init ==
    /\ options \in Options
    /\ artifacts \in SUBSET Tasks
    /\ procs = [p \in Procs |->
                  IF p = Main
                  THEN Process(IF Parallel THEN "none" ELSE "running", p)
                  ELSE Process(IF Parallel THEN "queued" ELSE "none", p)]
    /\ stop = FALSE
    /\ phase = "first"
    /\ pending = {}
    /\ totals = NoCounts
    /\ status = [t \in Tasks |-> "none"]
    /\ deaths = 0

Running == {p \in Procs : procs[p].pc = "running"}

\* A worker of the pool takes the next group, or leaves it after a failure.
\* The order, heaviest binary first, is left open.
Take(p) ==
    /\ procs[p].pc = "queued"
    /\ Cardinality(Running) < Jobs
    /\ procs' = [procs EXCEPT ![p].pc = IF stop THEN "unstarted" ELSE "running"]
    /\ UNCHANGED <<options, artifacts, stop, phase, pending, totals, status, deaths>>

\* What a pass reported of the tasks in the domain of out.
Reported(out, st) == {t \in DOMAIN out : out[t] \in st}
CountWith(out, skips) == [ok      |-> Cardinality(Reported(out, {"ok"})),
                          failed  |-> Cardinality(Reported(out, {"failed"})),
                          skipped |-> Cardinality(Reported(out, skips))]

\* Mutant: a deferred task is not counted.
Count_Deferred(out) == CountWith(out, {"exists", "absent"})

Count(out) == CountWith(out, {"exists", "absent", "deferred"})

Plus(a, b) == [ok |-> a.ok + b.ok, failed |-> a.failed + b.failed, skipped |-> a.skipped + b.skipped]

Missing(t) == Inputs[t] \ artifacts

\* The outcomes of a task of a process.  "absent": its outputs are optional or
\* have no reader, and the free preprocessor did not find them.
Outcome(t) ==
    IF t \in artifacts THEN {"exists"}
    ELSE IF Missing(t) = {} THEN {"ok", "failed", "absent"}
    ELSE IF \A i \in Missing(t) : BinaryOf(i) # BinaryOf(t) THEN {"deferred"}
    ELSE {"failed"}

\* Where a process goes that is in the stage i and at its task k next, with or
\* without failures so far; a failure ends the process with the stage, unless
\* -skip_error.
Onward(p, i, k, failed) ==
    IF k <= Len(Stages[i].tasks) THEN [stage |-> i, task |-> k]
    ELSE [stage |-> IF failed /\ ~options.skipError THEN Through ELSE After(p, i), task |-> 1]

\* A process reports the outcomes out of its tasks before the number next.
Report(p, out, next) ==
    LET counts == Plus(procs[p].counts, Count(out))
        onward == Onward(p, procs[p].stage, next, counts.failed > 0)
    IN
    /\ procs' = [procs EXCEPT ![p] =
                   [pc |-> "running", stage |-> onward.stage, task |-> onward.task,
                    counts |-> counts, deferred |-> @.deferred \union Reported(out, {"deferred"})]]
    /\ artifacts' = artifacts \union Reported(out, {"ok"})
    /\ status' = [t \in Tasks |-> IF t \in DOMAIN out THEN out[t] ELSE status[t]]
    /\ UNCHANGED <<options, stop, phase, pending, totals, deaths>>

Busy(p) == procs[p].pc = "running" /\ procs[p].stage # Through

\* The tasks that a process has before it in its stage.
Before(p) == LET tasks == Stages[procs[p].stage].tasks
             IN  {tasks[k] : k \in procs[p].task..Len(tasks)}

Current(p) == Stages[procs[p].stage].tasks[procs[p].task]

RunTask(p) ==
    /\ Busy(p)
    /\ \E o \in Outcome(Current(p)) : Report(p, [t \in {Current(p)} |-> o], procs[p].task + 1)

\* IDA cannot be reached or has the wrong database open: what is left of the
\* binary fails.
GiveUp(p) ==
    /\ Busy(p)
    /\ Current(p) \notin artifacts
    /\ Report(p, [t \in Before(p) |-> IF t \in artifacts THEN "exists" ELSE "failed"],
              Len(Stages[procs[p].stage].tasks) + 1)

\* A process is through; its failures stop the run, unless -skip_error.
End(p) ==
    /\ procs[p].pc = "running" /\ procs[p].stage = Through
    /\ procs' = [procs EXCEPT ![p].pc = "ended"]
    /\ stop' = (stop \/ (procs[p].counts.failed > 0 /\ ~options.skipError))
    /\ UNCHANGED <<options, artifacts, phase, pending, totals, status, deaths>>

\* Mutant: a child without a result does not count.
NoResult_Silent == NoCounts

\* What a child without a result counts as.
NoResult == [NoCounts EXCEPT !.failed = 1]

\* A child ends without a result: what it deferred is lost, what it produced is
\* there.
Die(p) ==
    /\ procs[p].pc = "running" /\ p # Main
    /\ deaths < MaxDeaths /\ deaths' = deaths + 1
    /\ procs' = [procs EXCEPT ![p] =
                   [pc |-> "dead", stage |-> Through, task |-> 1, counts |-> NoResult, deferred |-> {}]]
    /\ stop' = (stop \/ ~options.skipError)
    /\ UNCHANGED <<options, artifacts, phase, pending, totals, status>>

-----------------------------------------------------------------------------
(* The parent, when every process has ended.                                *)

Sum(k) == MapThenSumSet(LAMBDA p : procs[p].counts[k], Procs)

\* Mutant: the deferred tasks of a child with failures are lost.
Collected_Clean == UNION {procs[p].deferred : p \in {q \in Procs : procs[q].counts.failed = 0}}

Collected == UNION {procs[p].deferred : p \in Procs}

\* The results are added up, the deferred tasks collected.
Gather ==
    /\ phase = "first"
    /\ \A p \in Procs : procs[p].pc \notin {"queued", "running"}
    /\ totals' = [ok |-> Sum("ok"), failed |-> Sum("failed"), skipped |-> Sum("skipped")]
    /\ pending' = Collected
    /\ phase' = IF stop \/ Collected = {} THEN "done" ELSE "retry"
    /\ UNCHANGED <<options, artifacts, procs, stop, status, deaths>>

\* by_name keeps the last stage of a binary, and of the tasks to retry those
\* in it.
ByName(b) == LET is == {i \in DOMAIN Stages : Stages[i].binary = b} IN Stages[Max(is)]
Found(ts) == {t \in ts : t \in TasksOf(ByName(BinaryOf(t)))}

Ready == {t \in pending : Missing(t) = {}}

\* Mutant: a single pass in any case.
Over_OnePass == pending \ Ready

\* Mutant: tasks that wait stay in the list.
Over_Never == IF Parallel THEN {} ELSE pending \ Ready

\* The tasks that fail in a pass because they still wait.  With several
\* processes the ready ones are tried again as long as there are any
\* (_run_ready_deferred); a single process makes one pass.
Over == IF Parallel /\ Ready # {} THEN {} ELSE pending \ Ready

\* Mutant: their skips are kept.
TakenBack_Nothing == 0

\* The first pass counted these as skipped.
TakenBack == Cardinality(Ready)

\* One pass of _retry_deferred_skills.
Retry ==
    /\ phase = "retry"
    /\ \E out \in [Found(Ready) -> {"ok", "failed", "absent"}] :
          /\ totals' = [Plus(totals, Count(out)) EXCEPT !.failed  = @ + Cardinality(Over),
                                                        !.skipped = @ - TakenBack]
          /\ artifacts' = artifacts \union Reported(out, {"ok"})
          /\ status' = [t \in Tasks |-> IF t \in Over THEN "missing"
                                        ELSE IF t \in DOMAIN out THEN out[t] ELSE status[t]]
    /\ pending' = pending \ (Ready \union Over)
    /\ phase' = IF pending \subseteq Ready \union Over THEN "done" ELSE "retry"
    /\ UNCHANGED <<options, procs, stop, deaths>>

Terminated == phase = "done" /\ UNCHANGED vars

Next ==
    \/ \E p \in Procs : Take(p) \/ RunTask(p) \/ GiveUp(p) \/ End(p) \/ Die(p)
    \/ Gather \/ Retry \/ Terminated

Spec == Init /\ [][Next]_vars

\* Tasks end, by their own timeouts if need be, workers take groups, and the
\* parent goes on.
FairSpec ==
    /\ Spec
    /\ \A p \in Procs : WF_vars(Take(p) \/ RunTask(p) \/ End(p))
    /\ WF_vars(Gather) /\ WF_vars(Retry)

-----------------------------------------------------------------------------
(* Properties.                                                              *)

\* A task that was reported as waiting for inputs after every module ran does
\* lack one: the retry tries ready tasks in an order that respects what they
\* wait for.
WaitsForReal ==
    Parallel => \A t \in Tasks : status[t] = "missing" => Missing(t) # {}

\* A run without failures (exit code 0) has dealt with every task, whatever
\* was deferred, lost or not started on the way.
SuccessIsComplete ==
    phase = "done" /\ totals.failed = 0 =>
        \A t \in Tasks : status[t] \in {"exists", "ok", "absent"}

\* "A task whose input another module produces is retried once every module
\* ran": when a run that was not aborted is over, no deferred task has its
\* inputs and was not run.
DeferredAreRetried ==
    phase = "done" /\ ~stop /\ deaths = 0 =>
        \A t \in Tasks : status[t] = "deferred" => Missing(t) # {}

\* The summary over processes and passes agrees with what was reported of the
\* tasks, each counted once, except that one which waits in vain is counted as
\* skipped by the first pass and as failed by the retry.
TotalsAgree ==
    LET N(st) == Cardinality({t \in Tasks : status[t] \in st}) IN
    phase = "done" /\ deaths = 0 =>
        /\ totals.ok = N({"ok"})
        /\ totals.failed = N(Failures)
        /\ totals.skipped = N({"exists", "absent", "deferred", "missing"})

\* The run ends: no group waits for ever, and the passes of the retry end.
RunEnds == <>(phase = "done")
=============================================================================
