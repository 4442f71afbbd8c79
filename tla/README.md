# Verification of CS2_VibeSignatures: run queue, progress reporting, live view, analysis, user files

CS2_VibeSignatures analyses the binaries of each game build with IDA and
language-model agents and turns what it finds into gamedata. This directory
holds TLA+ models of its concurrent core, TLC configurations that check them on
small instances, and proofs, checked by TLAPS, of their main properties for
every value of the constants. Paths below are relative to the repository's root.

## 1. Inventory

| Component | State it keeps | Operations | Hard behaviour | What makes it correct |
|---|---|---|---|---|
| **Redis keys of a run** (`process_reporter_redis_scripts.py`) | meta hash (status, revision, counters), task status and task data hashes, the set of running runs, a heartbeat key with a TTL, an event stream | six Lua scripts, each atomic | three programs write the same keys; writes are repeated and arrive late | counters equal the tally of the statuses; terminal statuses stay; the running set agrees with the statuses |
| **Redis reporter** (`process_reporter_redis*.py`) | local snapshots of run and tasks with revisions, `_dirty`, the final summary | `initialize_run`, `emit`, `heartbeat`, `finalize_run`, `flush`, `close`, resync | two threads; a call is many commands, each may fail before or after its effect; rollback of rejected events | after reconnection Redis shows the latest local snapshots; a finished run shows its verdict |
| **Analyzer reporting** (`ida_analyze_bin.py:185-318`, `main`) | the status of each task as the Analyzer believes it | `emit_task_status`, `emit_agent_progress`, `abort_pending`, `summary` | Ctrl-C in the middle of a call; aborting what is left | every task is terminal at the end |
| **Run queue and scheduler** (`process_scheduler_redis.py`) | a stream and its consumer group (delivered, pending, idle), the child process | `submit`, `next_entry`, `_handle_entry`, `serve_forever` | crash between any two commands, orphan Analyzers, recovery by timeout, several schedulers | FIFO, one Analyzer at a time, one launch per run, an entry acknowledged only when its run is over, every run settled |
| **Status reader, API** (`process_status_reader_redis*.py`, `process_api*.py`) | a cursor per open stream | `list_runs`, `get_run`, `get_snapshot`, `read_events`, SSE | a snapshot is several reads; the stream is trimmed under the reader | a client that follows snapshot and stream misses nothing |
| **Dashboard** (`pages/src/api/sse.ts`, `pages/src/features/run-detail`) | live store, two queries and their last answers, the SSE client | load and reload the snapshot, poll the run, apply an event, reset, reconnect, close | answers and events in any order; lost connections; equal answers are no change | the view converges to the run's state; a reset is never forgotten |
| **Plan and skill graph** (`ida_analyze_bin.py:2170-2860`, `ida_shards.py:55-128`) | none | topological order, stages, jobs, planning of shards | orderings that exist only through tasks that are not run | an order respects every edge; a plan keeps the orderings of what it leaves out |
| **Analysis execution** (`ida_analyze_bin.py:6399-7051`) | deferred tasks, counters per process, a pool of processes | first pass, deferral, retry, parallel jobs, summary | a task waits for the output of another binary; two passes count the same task; a child ends without a result | what can run is run; the summary, and with it the exit code, says what happened |
| **Shards of a binary** (`ida_analyze_bin.py:6641-6737`, `ida_shards.py`) | marker files, the plan files, the children | plan, wait for producers, mark, exit, sweep | processes that wait for each other; one that dies | no circular wait; nobody runs before its producers; each task counted once |
| **IDA database and its server** (`ida_analyze_bin.py:1100-1690`, `3977-4132`, `4515-4771`) | the packed file, the unpacked parts, the last-good copy, the server, a restart budget | start, verify, recover, rebuild, save and restore a copy, stop | a server killed while packing; restarts that fail into each other; a run killed in the middle | the copy is always good; `-require_warm_idb` keeps a database that opens; every run ends |
| Agent runner (`agent_runner.py`) | attempts | run, validate, retry | timeouts, partial output | no invalid output survives |
| IDB cache (`idb_cache.py`) | immutable generations, `READY.json` | publish, restore, probe, prune | several processes on one directory | what is restored is complete; prune keeps what READY names |
| **User files** (`user_files.py`, `verify_service.py:492-542`, `user_gamedata.py:405-467`) | a folder for each file, the index of manage tokens, a lock file | create, fetch, replace, delete; the job of a build: expire, plan, `record_update` | a file is several files; two programs write; what is read without the lock is used under it; hours between plan and update | a file is whole and speaks of one upload; a job that ends has updated every file |
| The rest of the verify service | caches, counters, reports | verify, report | threads | left for later |
| Release and bump workflow, repair loop, snapshots of symbols, signature search, gamedata generation, bot | files | sequential pipelines | retries of a publish | not state machines worth a model, or left for later |

The components whose names are bold are modelled. The first six interact as follows. A client submits a
run to the queue. A scheduler reads the entry, marks the run `starting`,
launches an Analyzer with the run's id in its environment and waits for it. The
Analyzer writes its progress through the reporter to the keys of the run and
keeps a heartbeat key alive. A scheduler that is restarted claims the pending
entry: it leaves the run alone while the heartbeat lives, and otherwise aborts
it. So three programs, and the clock, write the status of one run, and none of
them holds a lock over two commands. Each of their writes but the last appends an
event to the stream of the run. A page of the dashboard loads a snapshot of the run
through the API, follows the stream from the snapshot's cursor, and polls the
run beside it; it reads keys that change between any two of its reads.
That is why this part is modelled first.

The Analyzer itself is a tree of processes. The main process gives every binary a child
(`-jobs`), which runs the stages of that binary and starts an IDA server for each; for a heavy
binary a child starts shards first, each with a throwaway copy of the database, and does
what they left. They meet in artifact files, in marker files and in the result file
of each child; there are no locks. `AnalysisRun` models the level of the binaries, `ShardRun` that of the
shards, `IdaDatabase` the server of one binary. A step of one level is a whole run of the
level below: a task of `AnalysisRun` that succeeds or fails is `Work` in
`IdaDatabase`, its `GiveUp` is a `Stop` of `IdaDatabase` that did not come by
the last skill, and the sweep of `ShardRun` is a process of `AnalysisRun`.

The user files stand apart: owners and game servers reach them through the verify service, and when a build
is finished `autopilot.sh` runs `user_gamedata.py` over all of them. `UserFiles` models the store with both programs.

## 2. Modules

| Module | Models | Notes |
|---|---|---|
| `RunStatuses` | statuses, transition tables, the replies of the scripts that use them | shared by the two specifications below |
| `RunStore` | the keys of one run and the Lua scripts as operators | a script is atomic, so it is one operator; its reply is a separate operator because callers react to it |
| `ProcessReporter` | one Analyzer run: main thread, heartbeat thread, reporter, with the scheduler and the clock as environment | one action per Redis command |
| `RunLifecycle` | what queueing a run promises, whoever writes | abstract specification |
| `RunScheduler` | queue, schedulers, Analyzer processes of all runs | one action per Redis command of `_handle_entry`; implements `RunLifecycle` |
| `EventStream` | the stream of one run and what its readers see of the keys, beside the writers | what a reader can tell apart: the revision of a task, whether the run is over |
| `LiveView` | the run page, its two queries, its stream, and the API that serves them | extends `EventStream`; the writers are its environment |
| `AnalysisRun` | one run over all binaries: pool, stages, deferral, retries, summary | a task's artifact stands for its outputs |
| `ShardPlan` | how tasks are dealt out to shards | functions, evaluated by `MCShardRun` for every graph |
| `ShardRun` | the shards of a binary, their markers, the parent, the sweep | takes any plan; `ShardPlan` makes them |
| `IdaDatabase` | database files, server and last-good copy of one binary through many runs | |
| `UserFiles` | the store of user files, the service's requests, the job of a build | one action per file system operation under the lock |
| `MC*` | the instances for TLC | |
| `ProcessReporter_proofs` | theorems about `ProcessReporter`: types, what readers see of tasks, the running set, the counters, Redis in step with the reporter, the final report, who corrects a verdict | |
| `RunScheduler_proofs` | theorems about `RunScheduler`: types, acknowledgement | |
| `RunSchedulerLaunch_proofs` | theorems about `RunScheduler`: one launch per run, it implements `RunLifecycle`, no live run is given up, one run at a time and in order | extends `RunScheduler_proofs` |
| `LiveView_proofs` | theorems about `LiveView`: types, resets, no gap | |
| `AnalysisRun_proofs` | theorems about `AnalysisRun`: types, who waits in vain; and, where only last stages defer: totals, complete success, deferred tasks retried | |
| `ShardRun_proofs` | theorems about `ShardRun`: types, no circular wait, settled stays settled, producers first, each task counted once, the plans of the planner | uses `ShardPlan` as well |
| `IdaDatabase_proofs` | theorems about `IdaDatabase`: types, strict runs, the last-good copy, a rank that every step of a run lowers | |
| `UserFiles_proofs` | theorems about `UserFiles`: types, whole files, complete updates | |

Operators whose name has the form `Name_Fault` are mutants: the way a plausible
bug would change `Name`. No specification uses them; each property is known to
fail when one of them takes the place of the operator it is named for.

### ProcessReporter

The state of `RedisProcessReporter` is `tasks`, `runState`, `final` (the summary
handed to `finalize_run`), `dirty` and `beating` (the heartbeat thread runs).
A snapshot is its status and its revision: revision, status and the moment are
all that the scripts compare, so phases, messages and payloads are left out.
The lock is the variable `call`: `NoCall` when it is free, otherwise the call
that holds it, with `step` naming the next Redis command and `todo` the tasks a
resync has still to write. The order of a resync, its early exits, and what
each operation does after a failed resync follow `_try_resync_locked`, `emit`,
`heartbeat` and `finalize_run`; a task order within the resync is any order.

`Command` is what a network does to a command: it is executed and answered, it
is executed but the answer is lost, or it is never executed; the last two raise
and mark the reporter dirty. A command is sent once: a retry inside the client
library is not modelled.

The Analyzer's own work is any sequence of events that
`AnalysisReporting.emit_task_status` lets through, plus progress events of
running tasks; `mainPc` follows `main()` from `initialize_run` to `close`,
`EndWork` being the return of the analysis or an exception in it. Ctrl-C
(`Interrupt`) unwinds the call in progress: the command of the moment may or may
not have reached Redis and `main` continues with its except clause. `Kill` stops
the process at any point. The scheduler appears as three environment actions
(it finds the heartbeat expired; it aborts, possibly much later; it fills in a
final status of a process that is gone).

### RunScheduler

`queue`, `delivered`, `pending` and `idle` are the stream and its consumer group;
`idle` holds the entries that have been pending for `recovery_idle_ms` since
they were last claimed. `sched[s]` is the state of one scheduler process between
two commands, `procs[r]` the Analyzers of a run in the order of their launch,
`meta` and `heartbeat` the keys. A crash forgets everything but leaves the entry
pending and the child alive, as any `RedisError` in `serve_forever` does.
The Analyzers are modelled by what they write of the run as a whole.

Time appears only in `HeartbeatExpires` (the key of a run that no connected
Analyzer refreshes) and `GrowIdle`. The constant `Delays` says which of the code's
implicit timing assumptions may be broken:

- without `"stall"`, a scheduler goes through the commands before and after
  `process.wait()` faster than `recovery_idle_ms`;
- without `"boot"`, an Analyzer writes its first heartbeat within that time;
- without `"outage"`, an Analyzer stays in touch with Redis.

### EventStream and LiveView

`events` is the whole history of the stream; an event's id is its place in it, and
`first` the oldest entry that Redis still has (`MAXLEN ~` lets Redis remove
entries when it likes, as long as `MaxLen` stay). Every script appends one event
but FINALIZE, which has none. A task is its revision, 0 being its snapshot in
INITIALIZE and -1 its absence; revisions may be skipped, as a reporter
that was offline writes only the latest snapshot.

`LiveView` follows `useRunLive`. `view` is the live store; `snapshot` and `runData`
are the data of the two queries, `fetch` and `poll` their requests under way.
`SnapshotRead` makes one read of `get_snapshot` at a time: the pipeline there is not
a transaction, so the run goes on between its commands. `SnapshotArrives` is
the answer with `replaceSnapshot` and both effects: a new stream from the new cursor,
closed at once when the run is over. Two facts of the query library matter
and are modelled from how the page uses it: `refetch()` cancels a request under way, and
an answer equal to the last one keeps the old object, so that no effect runs. Run
views carry fields the model leaves out, so that where two views are equal in the model
the page may see a change or not; both are in `ShowSnapshot`, `SnapshotArrives` and
`PollArrives`.

`stream` is the `ProcessEventStream`: its state, its cursor and the cursor `at` of
the server's generator; `wire` the events sent and not handled. A connection that
breaks (`Drop`: the client, the network, the server or Redis) loses the wire and connects
again from the page's cursor; the delay before it is the time that passes until `Connect`.
`Connect` reads the bounds of the stream, as `stream_events` does before
its generator checks the cursor. The store's copy of the cursor is left out: it is read only
right after a snapshot has set it. Heartbeat comments, counters and times of a run and
the text of events are left out too.

The constant `Overtaken` says whether entries may be trimmed that the server has
not read for a connected client. With 10,000 entries kept by default and a server that
is reading all the time this takes a client that does not read at all; the API
has no defence, see section 6.

### AnalysisRun

A stage is an entry of `modules` in a config for one platform. `procs` are the processes: one for
each binary when there are several jobs, or `Main`; each stands before the task `task` of its stage `stage`, and has
its counts and what it deferred (`After` and `Onward` take it to the next task or to its next stage). `RunTask` is one turn of the loop of `process_binary`: what exists already is
skipped, a task whose missing inputs all belong to other binaries is deferred, one that lacks an input
of its own binary fails, and one that has its inputs succeeds, fails, or is
skipped because what it did not find is optional. `GiveUp` is the abort of a binary whose
IDA is lost, `Die` a child without a result file. `End` has the effect of `run()` in
`_execute_parallel`, `Gather` adds up what the children returned, and `Retry` is one pass of
`_retry_deferred_skills`, in the loop of `_run_ready_deferred` where several processes were used.
`ByName` is `by_name`: of several stages of a binary it keeps the last.
The tasks of a retry pass may run in any order and with any outcome. The heaviest-first order of the groups
is any order.

### ShardPlan and ShardRun

A task is its place in the topological order. `plan` is what the plan files hold; it is
never written again. `done` and `markers` are the marker files, which only ever appear; a child is at the
`boot` of its process (which ends with the up-front marks), between two tasks (`next`), `waiting` in
`wait_for`, `running`, or `closed`, the loop being over and the finally clause executed. `Resume`
marks the task before, as the generator in `iterate` does when it is resumed. A shard may die
anywhere (`Crash`), the parent too (`ParentDies`); shards then stop waiting, since nobody is left to
mark exits. That a shard leaves an artifact or not stands for everything that may go wrong with a
task. The sweep is one step: the ordinary run of the parent, with the adjustment of
its counts.

### IdaDatabase

A database is told apart by what becomes of opening it: `good`, of another binary
(`foreign`), with a header but damaged (`bad`), without a header (`broken`); parts alone may be cut short
(`partial`) or lack their .id0 (`stray`). `same` says whether packed file and copy have the same size and
time, which is how the code tells them apart. `pc` follows `process_binary` into `start_idalib_mcp`
(`start` to `refused`; its calls of itself are jumps back to `start`), into verification and recovery
(`verify`, `recover`, `judge`), then through the skills. `phase` says which of the three
verifications it is about. What a server leaves when it ends is `Closed`: packed well or badly, killed
in the middle of packing, or killed before. Where a comment of the code tells of a case ("internal error 1228",
"indeterminate unpacked state"), it is one of these.
A server may hang or exit at any moment and a run be killed at any moment, leaving its
server behind. `Reap` and `ClearAux` are what `run_linux.sh` does between runs.
The files that are set aside are not kept: no code reads them.

`RestoresParts` is a fact about IDA that the repository does not settle: whether it opens unpacked
parts that lie beside a packed file it could not pack. See section 6.

### UserFiles

`folder`, `original`, `current` and `meta` are the directories below `files/` with the three files in each, `manage`
the ids that `by_manage/` leads to, `lock` the holder of `.lock`. A text is the upload it comes from and the last
build whose values it has. `meta` keeps the upload that baseline, format and history are about, the builds with an
entry in the history, and `old`: the file was neither fetched nor uploaded for 90 days. `Forgotten` is the passing of
those days; it happens only while nothing runs. A fourth field, `raced`, is no part of the file: it is a history
variable that `StoreIsWhole` needs, set when an upload is saved while the job has a plan of the file (`Planned`).

`work[p]` is the store call that a thread of the service, or the job, is in, and its next step. `Enter` takes the lock and
loads meta.json again; `Missing` is where that fails, and `Raise` what follows: an answer 404 in the service, the end of the
job in `user_gamedata.py`, which catches nothing there (`job.phase = "failed"`). Then each file is written or removed in a step
of its own, as `_write` makes a write whole but not two of them. `Create` holds the lock while it counts and draws an id; a drawn id is
never drawn again (128 random bits). `Fetch` joins the reads of text and meta.json: nothing follows from the text.
Noting a fetch, renaming a file and setting its webhook change nothing but meta.json, and are one operation, `touch`.

`StartJob` takes the next build, or the last one again: autopilot repeats a job when it was killed before it noted that it is done with the build,
during the job or after.
`job` is the run of `user_gamedata.py` for one build: it expires files (`expiring`), plans each file (`planning`: meta.json, then
the text, without the lock), waits for the hunter, and records the updates (`recording`). `ReadText` makes
the plan: the text as read or what the build's values make of it. `known` is the upload of each file
when the job began, kept for `UpdateIsComplete` only. Order within a phase is any order. A kill of either program frees
the lock and leaves the files as they are.

## 3. Runs

| Run | Instance | Shows |
|---|---|---|
| `Reporter` | one node, one job; 2 failing commands, 2 revisions, fairness | counters, data and statuses in Redis follow the local snapshots; only `aborted` is ever corrected; an offline reporter reconnects without any call of the main thread |
| `ReporterInterrupted` | 1 failing command, the first INITIALIZE included, Ctrl-C at any step | the counters still follow, the final report still arrives |
| `Scheduler` | 2 runs, 1 scheduler, 2 crashes, no delays, fairness | FIFO, one Analyzer at a time, no live run is aborted, a run queued behind an orphan is settled in the end |
| `SchedulerDelays` | 1 run, 2 schedulers, 2 crashes, slow and disconnected Analyzers, fairness | one launch per run, acknowledged runs are final, implements `RunLifecycle`, the run is settled in the end |
| `LiveView` | 1 task with 1 revision, 3 events, 1 entry kept, 2 failures, fairness | the page misses nothing, a reset is never forgotten, the page catches up with the run |
| `Shards` | every acyclic graph of 4 tasks, every set of 3 or 4 of them pending, 2 shards, 1 process that dies, fairness | no circular wait, producers first, settled is final, every task counted once, the shards end |
| `Analysis` | 3 binaries, one with two stages, and 5 tasks that wait for each other across binaries, 1 or 2 jobs, with and without `-skip_error`, any artifacts left from before, 1 lost child, fairness | what can be retried is, the summary is right, a run without failures is complete, the run ends |
| `IdaDatabase` | 2 skills, any number of runs, kills and failures, fairness | the last-good copy is good, strict runs keep a database that opens, every run ends |
| `UserFiles` | 2 uploads, 2 requests at a time, the jobs of 2 builds, 1 kill | a file is whole and about its last upload, except for an update planned before it; a job that ends has updated every file whose history and text stayed those of the upload it found |
| `ReporterInitOutage`, `LiveViewPlan`, `AnalysisStages` | | disagreements between documentation or tests and the code, section 6 |

Bounds. `MaxLosses` and `MaxCrashes` bound the faults; two of either are enough for a fault during the recovery
from a fault, and the four of `ReporterInitOutage` are what it takes to keep Redis away until a task
has changed. `MaxRevision` bounds the events of one task, two of them being
enough for a rejected, a repeated and a stale one. With its one failing command, `ReporterInterrupted` does not reach the case of
`ReporterInitOutage`; with four, and Redis down from the first INITIALIZE until after the last event of a task, `FinalReport` fails as `InStep` does,
for the same reason (section 6), which is why its theorem is stated for runs whose first INITIALIZE is answered. One counted node and one
uncounted job are the two kinds of task; tasks do not interact except through
the counters. Two runs are enough for order and overlap. `MaxLaunches` = 2 allows
the second launch that must not happen.
Every scheduler run explores the whole state space of its instance.
`MaxEvents` bounds the history of the stream: three events are the submission, the plan
and one more, so that a cursor can expire and a snapshot can be read between two events (the
invariants are proved for any number); `MaxLen` = 1 lets trimming happen at every one.
Tasks do not interact in the view, so one is enough. `MaxMishaps` counts failed requests,
lost connections and clicks on refresh; two failed requests make the page give up.
In `Analysis` the engine waits for the server, the server for the engine, and the network for both,
so that deferred tasks wait for deferred tasks and for each other's stages. Four tasks are the
smallest number with a dependency that runs through a task that is not pending and
two shards that wait in turn. `IdaDatabase` bounds neither runs nor failures: the model is finite.
Two uploads are two files, where a job that stops leaves the second one, or a file and its replacement; two builds are an update with a history
before it; two requests and the job are three callers for the lock.
`MCUserFiles` uses symmetry of ids and requests, for invariants only; no run with liveness uses any.

Deadlock is checked in all runs but those of `LiveView`, where a page that shows a
run that is over has nothing left to do, `Shards`, where everything ends (`ShardsEnd`
excludes that it stops before), and `UserFiles`, where the bounds on uploads and builds leave nothing to do. In `ProcessReporter`, `Finished` is the stutter
of a run that is over and whose keys nobody will write again.

Fairness. `ProcessReporter!FairSpec`: a call in progress takes its next step
(every socket operation has a timeout), and the heartbeat thread wakes up (it
waits with a timeout). Nothing is assumed about the analysis, which may take hours.
`RunScheduler!FairSpec`: schedulers that run make progress and are restarted
when they are down (systemd, an operator), Analyzers end, keys expire and idle
times grow.
`LiveView!FairSpec`: requests are answered, timers fire, the server sends what is in the
stream and the browser handles what arrives. Nothing is assumed of the run, which may
stop for good or write for ever, nor of failures.
`AnalysisRun!FairSpec`: tasks end, as IDA scripts and agents have timeouts, workers of the pool take the
next group, the parent goes on. `ShardRun!FairSpec`: processes that live take their next step, and so do the threads of
the parent. `IdaDatabase!FairSpec`: a run takes its next step, all its waits having timeouts; that a server stays up or
that a run is begun is not assumed. Nothing is assumed in `UserFiles`: `flock` is not fair.

## 4. Properties

Each is stated with a comment in its module. The main ones:

- `CountersMatch`, `CountersFollow`: the counters that the API serves are the
  tally of the status hash, in spite of replays, lost answers and restarts of a
  resync. `CountersMatch` includes the summary that `finalize_run` writes over them.
- `InStep`: an idle reporter that believes it is in step with Redis is.
- `FinalReport`: an Analyzer that leaves in step leaves its verdict behind, even
  after a scheduler took it for dead.
- `RunningSetAgrees`, `OnlyAbortedIsCorrected`, `Reconnects`. `Reconnects` leaves out, on purpose, a run whose status in Redis is
  terminal: after a recovery abort the resync of a newer run revision is rejected every time, and the reporter stays out of step
  for good. That hazard of the code is in the list without a property. `TaskViewAdvances` is not among the runs: it is a theorem.
- `AckedIsFinal`, `LaunchedOnce`, `OneAtATime`, `InOrder`, `NoLiveAbort`.
- `KeepsLifecycle` and `EveryRunSettles`: `RunScheduler` implements the safety and
  the liveness part of `RunLifecycle`. `EveryRunSettles` is asked twice: of one run with every delay but stalls, and of two runs, where the second waits
  behind a pending entry that is passed over as long as its orphan's heartbeat lives. Both assume that Analyzers end;
  one that hangs and keeps its heartbeat does block the queue.

- `NoGap`: what an event up to the cursor reported is shown, or a snapshot that
  will show it is on its way. Reads of snapshot, stream, reset and reconnection take part.
- `ResetReloads`: after a reset a snapshot is on its way that differs from the last one;
  without that the page would not even look at it and stay without a stream.
- `CatchesUp`: once the run is quiet, the page shows its tasks as Redis has them, with
  two exceptions that the code makes on purpose: it closed its stream because the run is over,
  or it shows an error and waits for the user.

- `WaitsForReal`, `DeferredAreRetried`, `SuccessIsComplete`, `TotalsAgree`: a task that is given up for want of
  an input lacks it; one that has its inputs when all is over was run; a run without failures, which is what the exit code
  says, has dealt with every task; the summary put together from children and passes agrees with
  what was reported of each task. `TotalsAgree` states the one double count of the code: a task that waits in vain
  is skipped in the first pass and failed in the retry. `WaitsForReal` is claimed for several jobs; with one, a single
  pass is made on purpose (`_retry_deferred_skills`).
- `NoCircularWait`, `StartsAfterProducers`, `SettledIsFinal`, `CountsOnce`, `ShardsEnd`: what the comments of
  `ida_shards.py` promise, with processes that die. `StartsAfterProducers` ties planner and protocol together: it looks at the
  whole graph of the module, not at the dependencies in the plan.
- `CopyIsVerified`, `StrictKeepsDatabase`, `RunEnds`: the copy is taken of the packed file while IDA works in the parts,
  and is good although the file was not opened at that moment; a strict run gives an openable database
  up only for the copy; attempts, restorations, rebuild and restart come to an end together.
- `StoreIsWhole`: whenever nobody writes a file, its three files and its token are there and meta.json is about the upload in `original`;
  the served text comes from that upload too, with the one exception of section 6: the job had a plan of the file when the upload was saved
  (`meta.raced`) and an update was recorded since. So the property excludes every other way to serve another upload's text; the lost update itself
  it cannot exclude, the code has it. Stated for stores in which no program was killed in the
  middle of a write, since no code repairs one.
- `UpdateIsComplete`: a job that ends has its build in the history of every file whose history and served text are both of the upload
  that the job found, although fetches rewrite the same history; without a kill a job fails only because a file was deleted. The served text is part of
  the statement because of kills: a replacement that is cut short leaves the text of one upload beside the history of another, and then neither says
  that the file stayed as it was.

## 5. Proofs

`RunScheduler_proofs` proves, for all sets of runs and schedulers, all bounds and
every combination of delays:

- `SchedulerTypes`: `Spec => []TypeOK`. The invariant `TypeInv` adds that a scheduler in
  mid-handling holds an entry of the queue and one that waits has a child; both
  are needed to type the transition a scheduler makes for its child's verdict.
- `SchedulerAcksOnlyFinalRuns`: `Spec => []AckedIsFinal`. The invariant `AckInv` adds
  that a scheduler about to acknowledge holds a run with a terminal status. It is
  inductive because of three facts, each a lemma: nobody leaves a terminal status
  for another kind of status (`TerminalStays`, where the guards of the two scripts
  are used), a scheduler reaches the acknowledgement only after it saw or wrote a
  terminal status (`AckReached`), and only an acknowledgement settles a run
  (`SettledMoves`).

`RunSchedulerLaunch_proofs` proves `SchedulerLaunchesOnce`: if `"stall"` is not in
`Delays` then `Spec => []LaunchedOnce`, with slow and disconnected Analyzers and any
number of schedulers. Its invariant `LaunchInv` says that

- every run is in the queue once (`QueueInv`), and an entry that was not delivered
  has no Analyzer and no holder (`UndeliveredInv`);
- many schedulers may hold an entry, those that launched its Analyzer and wait, but
  at most one of them is still on its way to a launch (`OneEarly`), and its entry is
  not idle, so that nobody can claim it meanwhile. This is where the absence of stalls
  is needed, in `TimeLaunch`;
- that scheduler, if it may come to a launch (`Fresh`: the entry is new, or it was
  recovered before its run was started), holds a run without an Analyzer (`EarlyInv`);
  it can tell, because a run that has an Analyzer was started and nobody ever sets
  it back to `queued` (`ProcsInv`, lemma `LeftStays`).

Under the same hypothesis it proves `SchedulerKeepsLifecycle`: `Spec => KeepsLifecycle`, the refinement of `RunLifecycle`. With `LaunchInv`
and `AckInv` it needs `LifeInv`, which says why two writers of one status never contradict each other:

- `Story`: neither the status of a run nor what its Analyzer holds of it is a verdict before that Analyzer gave one, nor another verdict than
  its own; and a snapshot has left `starting`. So what an Analyzer writes late, after it was given up as `aborted`, is a correction, and a resync
  after an outage moves the status forwards (`WriteMoves`: what the reporter's script accepts of such a write is a move of `RunLifecycle`);
- `HeldInv`: a scheduler that may still launch a run holds one that is not over, one that gives a run up holds one that was started, and one whose
  child has exited holds one whose Analyzer has, so that the status it writes for it is the last word.

Each step is then a move of one status with nothing settled (`StatusMove`, `SettledSame`), or an acknowledgement that settles a run with a terminal
status (`AckSettles`).

Three theorems say what happens on time, and with one worker. `Delays = {}` rules out stalls, slow Analyzers and lost connections; `OneWorker` says that
there is one scheduler, which may crash and be restarted.

- `SchedulerAbortsNoLiveRun`: if `Delays = {}` then `Spec => NoLiveAbort`, for any number of schedulers. `LiveInv` says that an Analyzer that has booted keeps
  its heartbeat and that an entry is not idle while an Analyzer boots. So a scheduler that recovers an entry and finds no heartbeat finds that
  the Analyzer has ended, which is what it decides on (`Ended`), and an Analyzer that has ended stays so (`AbortIsGivenUp`).
- `SchedulerStartsInOrder`: if `OneWorker`, and `"stall"` is not in `Delays`, then `Spec => []InOrder`. `WorkInv` says that the one scheduler reads a new entry only when
  none is pending, so that what is pending is the entry read last and all before it are acknowledged, that is, over (`AckedIsFinal`).
- `SchedulerRunsOneAtATime`: if `OneWorker` and `Delays = {}` then `Spec => []OneAtATime`. An Analyzer analyses only while its entry is
  pending (`BusyInv`), because a run is over only when its Analyzer is done with the analysis (the last part of `LiveInv`).

The hypotheses are needed: two schedulers may each read an entry when nothing is pending (section 7), and an Analyzer that loses its connection for longer than
the heartbeat lives is given up while it goes on analysing, beside the Analyzer of the next run.

Without stalls there is one Analyzer per run, on which all of this rests. With stalls the first theorem is false: with `Delays = {"stall"}`, one run and two schedulers TLC finds a second launch (section 6).

`ProcessReporter_proofs` proves, for any tasks, any number of failing commands and revisions, with kills at any step and
a scheduler that aborts when it likes, eight theorems. The first four hold with Ctrl-C at any step and with Redis down
from the start as well:

- `ReporterTypes`: `Spec => []TypeOK`. `CallInv` adds which steps a call goes through and what an emit may have to take back.
- `TaskViewsOnlyAdvance`: `Spec => TaskViewAdvances`. It is a fact about the scripts alone: lemma `NextStore` says which scripts
  a step may run (`StoreStep`), and no script takes a task back, whatever it is given.
- `RunningSetIsRight`: `Spec => []RunningSetAgrees`. The scripts keep the set right only if the reporter reports nothing but `starting`,
  `running` and verdicts: `RunInv` says so of the local snapshot, of the call in progress and of what a rollback may restore.
- `CountersFollowTasks`: `Spec => []CountersFollow`. INITIALIZE sets the counters to `pending`, so it must find the status hash like that: `EarlyInv`
  says that nothing but heartbeats reaches Redis before it. `TallyMoves` is the arithmetic of moving one task from a status to another.

The others say what Redis holds in terms of the reporter. `~InitOutage` says that the first INITIALIZE is answered, `~Interrupts` that
no Ctrl-C comes; each theorem assumes what it needs, and TLC has a counterexample for the outage.

- `RedisIsInStep`: if `~InitOutage` and `~Interrupts` then `Spec => []InStep`. The invariant `FollowInv` follows each task by itself (`Tracked`). What
  main() believes, the local snapshot and the keys are the same or one event apart (`Agreed`, `Followed`), what a rollback would restore is what the keys hold
  (`Replaces`), and a reporter that is online is in step but for the write under way (`Caught`). In a resync `todo` only shrinks by tasks that are in step, and
  the local snapshot cannot change as the resync has the lock. The lemmas about replies (`ScriptsSay`, `WriteReply`) show where a script that rejects a write says so
  because it is a repetition, so that the rollback takes nothing back that Redis has. With a Ctrl-C between a change and its write, a task stays behind until
  main() aborts it; `Caught` has that case, and the two theorems that look at single tasks exclude it.
- `CountersAreRight`: under the same hypotheses `Spec => []CountersMatch`. Up to `finalize_run` it is `CountersFollowTasks`. FINALIZE then writes a summary that the Analyzer computed
  from its own statuses over the counters; `SummaryIsTally` shows that at that command they are those of Redis, by `Tracked`, as a resync writes all tasks before it
  finalizes, and that nothing moves a task afterwards, since all are terminal (`SummaryInv`).
- `FinalReportIsRight`: if `~InitOutage` then `Spec => []FinalReport`, with Ctrl-C anywhere. `LastWordInv` says that from `finalize_run` on the status of the run
  is main()'s verdict whenever the reporter is not dirty, and at the last command of a resync: a scheduler's late `aborted` is refused for a terminal status, and one that came before is
  written over by FINALIZE. All tasks are terminal because main() aborts the others first and `Caught` has no exception for what main() holds to be terminal.
- `OnlyAbortsAreCorrected`: if `~Interrupts` then `Spec => OnlyAbortedIsCorrected`, with outages of any kind. `VerdictInv`: no program but main(), at its end, and a scheduler,
  which writes `aborted`, puts a terminal status anywhere, whether in Redis, in the local snapshot or in what a rollback restores. A Ctrl-C after the
  verdict was reported makes main() report `failed`, which FINALIZE writes over the earlier one; hence the hypothesis.

`LiveView_proofs` proves, for all tasks and all bounds of length, revisions, events and
failures:

- `LiveViewTypes`: `Spec => []TypeOK`, in which no cursor is ahead of the stream.
- `ResetIsReloaded`: `Spec => []ResetReloads`, with trimming of any kind. The reason is
  the part `Reloading` of the invariant: what a snapshot query will have read is ahead of
  the last snapshot, because the query started after the events that made the cursor
  expire and reads its cursor first.
- `PageHasNoGap`: if `Overtaken` is false then `Spec => []NoGap`. `DataInv` says that the keys
  hold what the events reported, `FetchInv` that a snapshot half read does so up to its
  cursor, `CursorInv` that the stream starts at the snapshot's cursor and moves on, and
  `GapInv` that the wire is exactly what lies between the page's cursor and the server's,
  and that the page covers its cursor unless it is reloading. Without the
  hypothesis it is false: with `Overtaken = TRUE` and the bounds of `LiveView.cfg` TLC finds a
  page that is connected, gets no reset and skips an event that was trimmed.

`ShardRun_proofs` proves, for any number of tasks and shards, any plan whose dependencies point backwards in the
order, and any number of processes that die:

- `ShardTypes`: `Spec => []TypeOK`; that a shard has a task in hand when it marks it is part of what is needed.
- `NoWaitClosesACycle`: `Spec => []NoCircularWait`. `ItemsInv` says that a shard's tasks to come are later than the one
  it is at, `MarksInv` that what it has behind it is marked. So the first task in the order that any shard waits at
  waits for one whose shard is before it, and that shard is not blocked (`BlockedBehind`, and `LeastNumber`, which takes a minimum by
  well-foundedness).
- `SettledStays`: `Spec => SettledIsFinal`, since a running task is not marked and an exit marker comes after the exit.
- `ProducersComeFirst`: for plans of the planner (`Planned`: dependencies as `collapse_deps` makes them of an acyclic graph), `Spec => []StartsAfterProducers`. `RanInv` says that
  what a shard ran or runs had its dependencies in the plan settled. The property speaks of the graph of the whole module: that a dependency through finished tasks
  is in the plan is a fact about `Collapse`, a recursive function; it is proved over the least function that satisfies its recursion (`LeastReach`).
- `TasksCountOnce`: `Spec => []CountsOnce`. `CountsInv` adds that the sweep comes when all shards have ended.
- `PlansAreWellFormed`: what `collapse_deps` and `plan_shards` make of any acyclic graph, any pending tasks and any number of shards is `Planned` and well formed, with one owner
  for each pending task. It links planner and protocol: the other theorems then hold of every plan that the code writes. The greedy loop of `plan_shards` is followed turn by turn; a least
  turn that goes wrong does not exist (`LeastNumber`).

`AnalysisRun_proofs` proves, for any tasks, inputs, options and number of lost children:

- `AnalysisTypes`: `Spec => []TypeOK`. No count falls below zero: a retry takes back a skip that was counted when the task was deferred (`SkipsInv`).
- `WaitingIsReal`: `Spec => []WaitsForReal`. `WaitInv` adds that nobody analyses once the first pass is over and that the verdict comes with the last pass,
  which produces nothing.

and, if `LastStagesDefer`, that is, if a task has one place and only tasks of the last (or only) stage of a binary wait for other binaries:

- `TotalsAreRight`, `DeferredRetried`, `SuccessMeansComplete`: `Spec` implies `[]TotalsAgree`, `[]DeferredAreRetried` and `[]SuccessIsComplete`. One
  invariant serves all three. During the first pass (`PassInv`) the counts of each process are the numbers of the tasks that it
  reported as done, failed and skipped, and a process that gave up has a failure for it (`FailInv`); in the second (`SecondInv`) the totals are those of
  all tasks, with what is still deferred counted as skipped. The totals are sums over processes and the reports are sets of tasks, so the proof goes over cardinalities: a
  sum of the cardinalities of disjoint sets is that of their union (`SumIsCardinality`), and what two processes handle is disjoint (`HandledApart`).

`LastStagesDefer` is as weak as the code allows: `by_name` finds a deferred task only there (`ForeignInv`: nothing else is deferred), and `AnalysisStages` shows what happens to one of an
earlier stage, by a defect of the code (section 6): it is not run, while its skip is taken back, so that all three claims are false. Without the hypothesis the types and `WaitsForReal` are proved, and nothing else.

`IdaDatabase_proofs` proves, for any number of skills, runs and failures:

- `DatabaseTypes`: `Spec => []TypeOK`.
- `RunsGetAhead`: every step of a run lowers `Rank`, and nothing else raises it while the run goes on, whatever the server does. `Rank` is at most 64 * (Skills + 5): one block of 64
  for each verification, restart and skill to come, and within it the place in the program. So a run makes no more steps than that. With `WF(Run)` this gives
  `RunEnds`; that step is about liveness and stays with TLC.
- `StrictRunsKeepTheDatabase`: `Spec => StrictKeepsDatabase`. The invariant says when there is no server,
  that a cold start has no packed file, and that IDA refuses only a damaged one (`AttemptInv`).
- `LastGoodIsGood`: if `RestoresParts` is false then `Spec => []CopyIsVerified`. The strengthening
  (`PackedIsOpen`) is that while a server holds a database, a packed file beside it is what it opened.

`UserFiles_proofs` proves, for any number of files, requests, uploads, builds and kills:

- `FilesTypes`: `Spec => []TypeOK`. `Exclusive` says that exactly the process that has the lock is at a step that needs it, `Control`
  which calls go through which steps and that a call writes only into a folder that exists.
- `FilesAreWhole`: `Spec => []StoreIsWhole`. `Wholes` says it of every file that nobody writes, and of the one that is being written how far its
  writer is (`Holding`): which of the three files are already about the new upload, and that what the writer loaded on entry is still what the store holds.
  A step of another process disturbs neither, as it does not have the lock (`QuietWhole`). `Accounted` is about where the served text comes from: unless
  `raced` is set, the text that is served, a plan of the job and what it is about to record are all of the upload that meta.json is about,
  or is about to be (`Possible`); saving an upload sets `raced` exactly where a plan may be of an older one. That meta.json keeps `raced` through
  touches and updates needs `Seen`, and that there is a text at all needs `Served`. The property speaks of stores whose
  programs were not killed; a kill between two writes does leave a file that is not whole.
- `JobsComplete`: `Spec => []UpdateIsComplete`, with any number of kills. Uploads are told apart for ever (`Fresh`), what a caller loaded under the lock is still
  what the store holds (`Seen`), and the job still comes to every file that is as it found it and has not recorded (`Reached`). So a plan that was made
  before an upload is the only one that goes astray, and the file it belongs to is no longer as it was found. The second half, why a job fails, needs that the job
  goes through the files it listed (`Listed`) and that `record_update` fails only where meta.json is gone (`FailInv`).

The other assumptions are those on the constants: `SchedulerAssumption`,
`TasksAssumption` (tasks are finitely many), `ReporterAssumption`, `StreamAssumption`, `ViewAssumption`, `ShardAssumption`, `AnalysisAssumption`, `SkillsAssumption` and
`FilesAssumption` (finitely many ids, the job is not a request).

Every invariant and every action property of the passing runs is stated by a theorem. Model-checked only, in small instances:

- liveness under fairness, which is beyond the prover: `EveryRunSettles`, `CatchesUp`, `Reconnects`, `ShardsEnd` and the `RunEnds` of `AnalysisRun` and `IdaDatabase`;
- what lies outside the hypotheses above: `ReporterInterrupted` checks `FinalReport` with a first INITIALIZE that is not answered, for a single lost command. That `InStep` fails with a longer outage,
  and `DeferredAreRetried` with a deferred task of an earlier stage, are runs that expect a violation.

With schedulers that stall, `AckedIsFinal` is the theorem; that the run is settled then is neither proved nor checked.

## 6. Where documentation and code disagree

1. `ReporterInitOutage`. `docs/en/process-monitoring.md:16` says that the latest local
   snapshots are replayed after reconnection. When Redis is down from the start, the first
   INITIALIZE stores the *present* snapshot of a task that already changed, next to the
   status `pending`; the replay of the same revision is then stale, so status hash and
   counters stay behind until the task changes again.
2. `LiveViewPlan`. `pages/src/i18n/index.ts:343` promises on the page of a queued run that it
   keeps its SSE connection and refreshes automatically. When the poll finds the run over
   before the stream delivered `run.initialized` (the stream was reconnecting, say),
   `useRunLive.ts:42` closes the stream for good, and the page waits for the plan for ever
   or until a click on refresh.
3. `AnalysisStages`. `tests/test_pipeline_hunt.py:156` says that a task whose input another module produces is retried
   once every module ran. `_retry_deferred_skills` looks the task up in `by_name`, which of the stages with one module
   name keeps the last. `configs/14196.yaml` lists `engine` three times, `server` and `networksystem` twice; a task
   deferred in an earlier stage is looked for in the wrong one, nothing runs, and the run may end without
   a failure. The run uses the options of `run_linux.sh`.

More facts a reader of the code should know. `-require_warm_idb` is documented as "never rebuild it from the
binary" (`ida_analyze_bin.py:1959`), but `start_idalib_mcp` (4113-4131) does not know the option: a packed file that IDA refuses is
set aside and the binary analysed from scratch under it as well. `StrictKeepsDatabase` is therefore stated for databases that open.
And `CopyIsVerified` rests on `RestoresParts = FALSE`: with `TRUE`, TLC finds a start that is killed while packing and leaves a damaged .i64 with a
header beside intact parts; the second attempt opens the parts, verification succeeds, and `_save_lastgood_idb`
copies the damaged file, because it copies what lies there. Its comment says only that the packed file is not written while the
database is open.

`docs/en/process-monitoring.md:27` says that a recovered run is not relaunched while its heartbeat is alive. A scheduler that stalls between
the check and the launch for longer than `recovery_idle_ms` does so, if a second one runs; the documentation promises a
single worker, so this is not counted as a disagreement.

Two facts about user files. `user_files.py:17` calls the served text the original plus every update since. `user_gamedata.py` plans on
the text it reads first and records the result after the hunter ran; an upload of the owner in between is overwritten by the update of
the text it replaced, and meta.json keeps the format of the new one. `record_update` has the lock but does not compare. And
`user_gamedata.sh:9` says that a file that cannot be updated keeps its text and says why: when an owner deletes a file during the job,
`record_update` raises, nothing catches it, the files after it are not updated for this build and the report is not written.
`StoreIsWhole` and `UpdateIsComplete` have both as exceptions, the first no wider than this lost update, and hold for everything else. A kill in the middle of `create`
leaves a folder without meta.json, which `expire` passes over and which counts against `MAX_FILES` for ever.

FINALIZE_RUN_LUA writes the status without a look
at the old one, so that an `aborted` which recovery wrote becomes the verdict of an Analyzer
that was alive after all; `OnlyAbortedIsCorrected` shows that this is the only way a terminal
run status changes, unless a Ctrl-C comes after the verdict was reported: main() then reports `failed`, and FINALIZE writes that over the verdict. The API compares cursor and bounds of a stream only when a client
connects (`process_api.py:120`): a client that trimming overtakes later gets no reset.

## 7. Not modelled, and why

- The paged lists of runs, tasks and events of the API, and the other pages of the
  dashboard: single reads that keep nothing.
- The order of answers of the poll: a run view is only whether the run is over.
- Two schedulers reading two entries at the same moment: the documentation promises a
  single worker, so `OneAtATime` and `InOrder` are claims about one scheduler.
- Trimming of the queue's stream (its scheduler acknowledges but never deletes, and `submit`
  sets no limit), and retries inside the Redis client library.
- A Redis server that loses data.
- The building of the skill graph from file names and its check for cycles: the graph is a parameter of the models,
  acyclic as that check leaves it (cycles through prerequisites alone are only warned about).
- Vcall targets, post-processing and aggregation of an analysis: they follow the tasks and add to the counts.
- Agents: a task's attempts, with their timeouts, are one outcome.
- The IDB cache: its race is in the list of hazards, and a model is planned.
- Of the user files: the options of `user_gamedata.py` for use by hand, webhooks, the limit of the history, and what relocation and hunter find out.
  Of the verify service: verification itself with its caches and limits, and reports.
- What a kill leaves of user files, beyond types and `UpdateIsComplete`.
- Several analyses on one directory at the same time. The check for a .id0 file (`ida_analyze_bin.py:4534`) is a check before the start, not
  a lock; `IdaDatabase` has one run after the other.
- Signature search, gamedata conversion, snapshots and release scripts: computation on
  files, without interleaving.

## 8. Plan

1. (done) `RunStatuses`, `RunStore`, `ProcessReporter`, `RunLifecycle`, `RunScheduler`, their
   runs; types, `AckedIsFinal`, `LaunchedOnce`, `NoLiveAbort`, `InOrder`, `OneAtATime` and the refinement of `RunLifecycle` proved.
2. (done) `EventStream` and `LiveView`: snapshot with cursor, SSE with trimming and reset,
   the dashboard's client; types, `NoGap` and `ResetReloads` proved.
3. (done) `AnalysisRun`, `ShardPlan`, `ShardRun`, `IdaDatabase`: their runs, and `NoCircularWait`, `SettledIsFinal`,
   `WaitsForReal`, `StrictKeepsDatabase`, `CopyIsVerified` proved.
4. (done) All other invariants and action properties of the reporter proved; `UserFiles`, its run, and its invariants proved.
5. (done) The invariants of `AnalysisRun`, `ShardRun` and `IdaDatabase` proved, `ShardPlan` included, and the rank of a run.
6. `AnalyzerView`: `ProcessReporter` implements the Analyzer as `RunScheduler` sees it.
7. `IdbCache` (publish, restore, prune by several processes).
