-------------------------- MODULE ProcessReporter --------------------------
(***************************************************************************)
(* One Analyzer run reporting its progress to Redis.                       *)
(*                                                                         *)
(* Two threads of the Analyzer call the reporter: the main thread, which   *)
(* follows main() and AnalysisReporting, and the heartbeat thread.  A call *)
(* holds the reporter's lock from start to end, but it is made of several  *)
(* Redis commands, and each of them may fail before or after it took       *)
(* effect.  Between two commands the scheduler and the clock (the TTL of   *)
(* the heartbeat) may write to the same keys.                              *)
(***************************************************************************)
EXTENDS RunStore

CONSTANTS MaxLosses,    \* bound: Redis commands that fail
          MaxRevision,  \* bound: snapshots taken of one task
          InitOutage,   \* may the INITIALIZE command of initialize_run fail?
          Interrupts    \* may a KeyboardInterrupt hit the main thread?

ASSUME ReporterAssumption ==
    /\ MaxLosses \in Nat /\ MaxRevision \in Nat
    /\ InitOutage \in BOOLEAN /\ Interrupts \in BOOLEAN

VARIABLES \* AnalysisReporting and main()
          states,      \* what AnalysisReporting believes of each task
          mainPc,      \* where main() stands
          verdict,     \* the final status main() reports, and its exit code
          interrupted, \* main() runs its except clause
          \* RedisProcessReporter
          tasks,       \* local snapshot of each task
          runState,    \* local snapshot of the run
          final,       \* the summary to write, once finalize_run was called
          dirty,       \* the local snapshots may be ahead of Redis
          beating,     \* the heartbeat thread runs
          call,        \* the call that holds the lock
          step,        \* its next step
          todo,        \* the tasks its resync has still to write
          previous,    \* the snapshot an emit returns to if it is rejected
          \* the environment
          losses,      \* Redis commands that failed so far
          scheduled,   \* the run came from the scheduler's queue
          suspect      \* a scheduler found the run's heartbeat expired

analyzerVars == <<states, mainPc, verdict, interrupted>>
localVars    == <<tasks, runState, final>>
callVars     == <<call, step, todo, previous>>
envVars      == <<scheduled, suspect>>
vars == <<storeVars, analyzerVars, localVars, dirty, beating, callVars, losses, envVars>>

NoFinal    == [status |-> "absent", summary |-> NoCounts]
NoCall     == [by |-> "nobody", op |-> "none"]
NoSnapshot == [status |-> "pending", rev |-> 0]
RunSnapshot == [status : RunStatus, rev : Nat]

MainPcs == {"initialize", "running", "beat", "working", "aborting", "finalize",
            "flush", "close", "leave", "exited", "killed"}
Gone == mainPc \in {"exited", "killed"}

Calls == {NoCall} \union [by : {"main"}, op : {"initialize", "heartbeat", "finalize", "flush"}]
                  \union [by : {"beat"}, op : {"heartbeat"}]
                  \union [by : {"main"}, op : {"emitRun"}, status : RunStatus]
                  \union [by : {"main"}, op : {"emitTask"}, task : Tasks, status : TaskStatus]

\* The Redis commands of a resync in their order, then the call's own.
ResyncSteps == {"resyncInit", "resyncRun", "resyncTasks", "resyncFinal", "resyncBeat"}
Steps == ResyncSteps \union {"apply", "write", "idle"}

TypeOK ==
    /\ StoreTypeOK
    /\ states \in [Tasks -> TaskStatus]
    /\ mainPc \in MainPcs
    /\ verdict \in {"succeeded", "failed"}
    /\ interrupted \in BOOLEAN
    /\ tasks \in [Tasks -> Snapshot]
    /\ runState \in RunSnapshot
    /\ final \in [status : MetaStatus, summary : [TaskStatus -> Int]]
    /\ dirty \in BOOLEAN
    /\ beating \in BOOLEAN
    /\ call \in Calls
    /\ step \in Steps
    /\ todo \subseteq Tasks
    /\ previous \in Snapshot \union RunSnapshot
    /\ losses \in 0..MaxLosses
    /\ scheduled \in BOOLEAN
    /\ suspect \in BOOLEAN

\* A run of the queue is 'starting' by the time its Analyzer runs; a run
\* started by hand has no meta hash.
Init ==
    /\ scheduled \in BOOLEAN
    /\ StoreInit(IF scheduled THEN "starting" ELSE "absent")
    /\ states = [t \in Tasks |-> "pending"]
    /\ mainPc = "initialize"
    /\ verdict = "succeeded"
    /\ interrupted = FALSE
    /\ tasks = [t \in Tasks |-> NoSnapshot]
    /\ runState = [status |-> "starting", rev |-> 0]
    /\ final = NoFinal
    /\ dirty = FALSE
    /\ beating = FALSE
    /\ call = NoCall
    /\ step = "idle"
    /\ todo = {}
    /\ previous = NoSnapshot
    /\ losses = 0
    /\ suspect = FALSE

Tally(f) == [s \in TaskStatus |-> Cardinality({t \in Counted : f[t] = s})]

-----------------------------------------------------------------------------
(* A call takes the lock; a dirty reporter first tries to resynchronise.    *)
(* heartbeat and finalize have nothing to apply before their write.         *)

FirstStep(c) == IF c.op \in {"emitRun", "emitTask"} THEN "apply" ELSE "write"

Enter(c) ==
    /\ call = NoCall
    /\ call' = c
    /\ step' = IF dirty' THEN "resyncInit" ELSE FirstStep(c)
    /\ todo' = {t \in Tasks : tasks[t].rev # 0}
    /\ UNCHANGED <<storeVars, states, previous, losses, envVars, beating>>

Initialize ==
    /\ mainPc = "initialize"
    /\ dirty' = TRUE
    /\ Enter([by |-> "main", op |-> "initialize"])
    /\ mainPc' = "running"
    /\ UNCHANGED <<verdict, interrupted, localVars>>

EmitRunning ==
    /\ mainPc = "running"
    /\ UNCHANGED dirty
    /\ Enter([by |-> "main", op |-> "emitRun", status |-> "running"])
    /\ mainPc' = "beat"
    /\ UNCHANGED <<verdict, interrupted, localVars>>

FirstHeartbeat ==
    /\ mainPc = "beat"
    /\ UNCHANGED dirty
    /\ Enter([by |-> "main", op |-> "heartbeat"])
    /\ mainPc' = "working"
    /\ UNCHANGED <<verdict, interrupted, localVars>>

\* AnalysisReporting drops an event its own table does not allow.
EmitTask(t, status) ==
    /\ states[t] \notin TaskTerminal
    /\ TaskAllowed(states[t], status, FALSE)
    /\ UNCHANGED dirty
    /\ Enter([by |-> "main", op |-> "emitTask", task |-> t, status |-> status])
    /\ UNCHANGED <<verdict, interrupted, localVars>>

\* MaxRevision bounds how often a task reports that it is still running.
Work ==
    /\ mainPc = "working"
    /\ \E t \in Tasks, s \in TaskStatus \ {"pending"} :
          (s = "running" => tasks[t].rev < MaxRevision) /\ EmitTask(t, s)
    /\ UNCHANGED mainPc

\* emit_agent_progress does not look at the state of its task; the agent only
\* works on a running one.
AgentProgress ==
    /\ mainPc = "working"
    /\ UNCHANGED dirty
    /\ \E t \in Tasks :
          /\ states[t] = "running" /\ tasks[t].rev < MaxRevision
          /\ Enter([by |-> "main", op |-> "emitTask", task |-> t, status |-> "running"])
    /\ UNCHANGED <<mainPc, verdict, interrupted, localVars>>

\* The analysis returns, or raises; either way abort_pending follows.
EndWork ==
    /\ mainPc = "working"
    /\ call.by # "main"
    /\ verdict' \in {"succeeded", "failed"}
    /\ mainPc' = "aborting"
    /\ UNCHANGED <<storeVars, states, interrupted, localVars, dirty, beating,
                   callVars, losses, envVars>>

AbortPending ==
    /\ mainPc = "aborting"
    /\ \E t \in Tasks : EmitTask(t, "aborted")
    /\ UNCHANGED mainPc

EmitFinal ==
    /\ mainPc = "aborting"
    /\ \A t \in Tasks : states[t] \in TaskTerminal
    /\ UNCHANGED dirty
    /\ Enter([by |-> "main", op |-> "emitRun", status |-> verdict])
    /\ mainPc' = "finalize"
    /\ UNCHANGED <<verdict, interrupted, localVars>>

Finalize ==
    /\ mainPc = "finalize"
    /\ final' = [status |-> verdict, summary |-> Tally(states)]
    /\ UNCHANGED dirty
    /\ Enter([by |-> "main", op |-> "finalize"])
    /\ mainPc' = "flush"
    /\ UNCHANGED <<verdict, interrupted, tasks, runState>>

\* flush() before close(), and once more inside it, when the heartbeat thread
\* has been told to stop.
Flush ==
    /\ \/ mainPc = "flush" /\ mainPc' = "close" /\ UNCHANGED beating
       \/ mainPc = "close" /\ mainPc' = "leave" /\ beating' = FALSE
    /\ call = NoCall
    /\ IF dirty THEN /\ call' = [by |-> "main", op |-> "flush"]
                     /\ step' = "resyncInit"
                     /\ todo' = {t \in Tasks : tasks[t].rev # 0}
       ELSE UNCHANGED <<call, step, todo>>
    /\ UNCHANGED <<storeVars, states, verdict, interrupted, localVars, dirty,
                   previous, losses, envVars>>

Exit ==
    /\ mainPc = "leave"
    /\ call = NoCall
    /\ mainPc' = "exited"
    /\ UNCHANGED <<storeVars, states, verdict, interrupted, localVars, dirty,
                   beating, callVars, losses, envVars>>

\* Mutant: the heartbeat thread leaves an offline reporter alone.
HeartbeatTick_OnlineOnly ==
    /\ beating /\ ~dirty
    /\ UNCHANGED dirty
    /\ Enter([by |-> "beat", op |-> "heartbeat"])
    /\ UNCHANGED <<mainPc, verdict, interrupted, localVars>>

HeartbeatTick ==
    /\ beating
    /\ UNCHANGED dirty
    /\ Enter([by |-> "beat", op |-> "heartbeat"])
    /\ UNCHANGED <<mainPc, verdict, interrupted, localVars>>

-----------------------------------------------------------------------------
(* The steps of a call.  Done releases the lock.                            *)

Done ==
    /\ call' = NoCall
    /\ step' = "idle"
    /\ todo' = {}
    /\ previous' = NoSnapshot
    /\ states' = IF call.op = "emitTask"
                 THEN [states EXCEPT ![call.task] = call.status] ELSE states
    /\ beating' = (beating \/ call.op = "initialize")

Goto(s, left) ==
    /\ step' = s
    /\ todo' = left
    /\ UNCHANGED <<call, previous, states, beating>>

\* Mutant: a resync does not replay the final summary.
AfterTasks_NoFinal == "resyncBeat"

\* A resync skips what has never changed.
AfterTasks == IF final # NoFinal THEN "resyncFinal" ELSE "resyncBeat"
AfterRun   == IF todo # {} THEN "resyncTasks" ELSE AfterTasks
AfterInit  == IF runState.rev # 0 THEN "resyncRun" ELSE AfterRun

\* _try_resync_locked returned False: an emit goes on with the local snapshot
\* only, every other operation gives up.
ResyncFailed ==
    IF call.op \in {"emitRun", "emitTask"} THEN Goto("apply", {}) ELSE Done

\* Mutant: a failed write does not mark the reporter dirty.
Command_Forgets(script, answered) ==
    /\ \/ script /\ answered /\ UNCHANGED losses
       \/ /\ losses < MaxLosses
          /\ InitOutage \/ ~(call.op = "initialize" /\ step = "resyncInit")
          /\ losses' = losses + 1
          /\ dirty' = (step \in ResyncSteps)
          /\ IF step \in ResyncSteps THEN ResyncFailed ELSE Done
          /\ UNCHANGED localVars
          /\ script \/ UNCHANGED storeVars
    /\ UNCHANGED <<mainPc, verdict, interrupted, envVars>>

\* A Redis command of the current step: it takes effect and is answered, or it
\* takes effect but the answer is lost, or it never reaches Redis.
Command(script, answered) ==
    /\ \/ script /\ answered /\ UNCHANGED losses
       \/ /\ losses < MaxLosses
          /\ InitOutage \/ ~(call.op = "initialize" /\ step = "resyncInit")
          /\ losses' = losses + 1
          /\ dirty' = TRUE
          /\ IF step \in ResyncSteps THEN ResyncFailed ELSE Done
          /\ UNCHANGED localVars
          /\ script \/ UNCHANGED storeVars
    /\ UNCHANGED <<mainPc, verdict, interrupted, envVars>>

ResyncInitialize ==
    /\ step = "resyncInit"
    /\ Command(InitializeRun(tasks),
               Goto(AfterInit, todo) /\ UNCHANGED <<localVars, dirty>>)

ResyncRun ==
    /\ step = "resyncRun"
    /\ Command(RunTransition(runState, TRUE),
               /\ IF RunReply(runState, TRUE) = "invalid" THEN ResyncFailed ELSE Goto(AfterRun, todo)
               /\ UNCHANGED <<localVars, dirty>>)

ResyncTask(t) ==
    /\ step = "resyncTasks"
    /\ t \in todo
    /\ Command(TaskTransition(t, tasks[t], TRUE),
               /\ IF TaskReply(t, tasks[t], TRUE) = "invalid" THEN ResyncFailed
                  ELSE Goto(IF todo = {t} THEN AfterTasks ELSE "resyncTasks", todo \ {t})
               /\ UNCHANGED <<localVars, dirty>>)

ResyncFinalize ==
    /\ step = "resyncFinal"
    /\ Command(FinalizeRun(final.status, final.summary),
               Goto("resyncBeat", {}) /\ UNCHANGED <<localVars, dirty>>)

\* The last command of a resync; the operation proper follows.
ResyncHeartbeat ==
    /\ step = "resyncBeat"
    /\ Command(Beat,
               /\ dirty' = FALSE
               /\ IF call.op \in {"initialize", "flush"} THEN Done ELSE Goto(FirstStep(call), {})
               /\ UNCHANGED localVars)

\* Mutant: revisions count down.
Applied_CountsDown(snapshot) == [status |-> call.status, rev |-> snapshot.rev - 1]

\* apply_run_event and apply_task_event; offline, the snapshot waits.
Applied(snapshot) == [status |-> call.status, rev |-> snapshot.rev + 1]

Apply ==
    /\ step = "apply"
    /\ IF call.op = "emitRun"
       THEN runState' = Applied(runState) /\ UNCHANGED tasks
       ELSE tasks' = [tasks EXCEPT ![call.task] = Applied(@)] /\ UNCHANGED runState
    /\ IF dirty THEN Done
       ELSE /\ step' = "write"
            /\ previous' = IF call.op = "emitRun" THEN runState ELSE tasks[call.task]
            /\ UNCHANGED <<call, todo, states, beating>>
    /\ UNCHANGED <<storeVars, mainPc, verdict, interrupted, final, dirty, losses, envVars>>

\* A rejected event is taken back, locally.
WriteRun ==
    /\ step = "write" /\ call.op = "emitRun"
    /\ Command(RunTransition(runState, FALSE),
               /\ Done
               /\ runState' = IF RunReply(runState, FALSE) = "invalid" THEN previous ELSE runState
               /\ UNCHANGED <<tasks, final, dirty>>)

WriteTask ==
    /\ step = "write" /\ call.op = "emitTask"
    /\ LET t == call.task IN
       Command(TaskTransition(t, tasks[t], FALSE),
               /\ Done
               /\ tasks' = IF TaskReply(t, tasks[t], FALSE) = "invalid"
                           THEN [tasks EXCEPT ![t] = previous] ELSE tasks
               /\ UNCHANGED <<runState, final, dirty>>)

WriteHeartbeat ==
    /\ step = "write" /\ call.op = "heartbeat"
    /\ Command(Beat, Done /\ UNCHANGED <<localVars, dirty>>)

WriteFinalize ==
    /\ step = "write" /\ call.op = "finalize"
    /\ Command(FinalizeRun(final.status, final.summary), Done /\ UNCHANGED <<localVars, dirty>>)

ReporterStep ==
    \/ ResyncInitialize \/ ResyncRun \/ (\E t \in Tasks : ResyncTask(t))
    \/ ResyncFinalize \/ ResyncHeartbeat
    \/ Apply \/ WriteRun \/ WriteTask \/ WriteHeartbeat \/ WriteFinalize

-----------------------------------------------------------------------------
(* What can happen to the process.                                          *)

\* The code between try and finally, a call in progress included.
InTry == IF call.by = "main" THEN call.op \notin {"initialize", "flush"}
         ELSE mainPc \in {"running", "beat", "working", "aborting", "finalize"}

\* Ctrl-C unwinds the main thread's call; BestEffortProcessReporter lets it
\* pass.  The command of the moment may have reached Redis.
Interrupt ==
    /\ Interrupts /\ ~interrupted /\ InTry
    /\ interrupted' = TRUE
    /\ verdict' = "failed"
    /\ mainPc' = "aborting"
    /\ IF call.by = "main"
       THEN /\ call' = NoCall /\ step' = "idle" /\ todo' = {} /\ previous' = NoSnapshot
            /\ CASE step = "write" /\ call.op = "emitTask" ->
                      TaskTransition(call.task, tasks[call.task], FALSE) \/ UNCHANGED storeVars
                 [] step = "write" /\ call.op = "emitRun" ->
                      RunTransition(runState, FALSE) \/ UNCHANGED storeVars
                 [] step = "write" /\ call.op = "finalize" ->
                      FinalizeRun(final.status, final.summary) \/ UNCHANGED storeVars
                 [] OTHER -> UNCHANGED storeVars
       ELSE UNCHANGED <<callVars, storeVars>>
    /\ UNCHANGED <<states, localVars, dirty, beating, losses, envVars>>

\* SIGKILL or a crash of the interpreter.
Kill ==
    /\ ~Gone
    /\ mainPc' = "killed"
    /\ verdict' = "failed"
    /\ call' = NoCall /\ step' = "idle" /\ todo' = {} /\ previous' = NoSnapshot
    /\ beating' = FALSE
    /\ UNCHANGED <<storeVars, states, interrupted, localVars, dirty, losses, envVars>>

\* A live reporter that is not offline refreshes the key well within its TTL.
HeartbeatTTL ==
    /\ ~beating \/ dirty
    /\ HeartbeatExpires
    /\ UNCHANGED <<analyzerVars, localVars, dirty, beating, callVars, losses, envVars>>

\* A scheduler that recovers the queue entry looks at status and heartbeat
\* first and aborts the run later.
SchedulerSuspects ==
    /\ scheduled /\ ~suspect
    /\ ~heartbeat
    /\ runStatus \in {"starting", "running", "stale"}
    /\ suspect' = TRUE
    /\ UNCHANGED <<storeVars, analyzerVars, localVars, dirty, beating, callVars, losses, scheduled>>

SchedulerAborts ==
    /\ suspect
    /\ suspect' = FALSE
    /\ SchedulerTransition("aborted")
    /\ UNCHANGED <<analyzerVars, localVars, dirty, beating, callVars, losses, scheduled>>

\* The scheduler that waited for the process fills in a final status.
SchedulerReaps ==
    /\ scheduled /\ Gone
    /\ runStatus \notin RunTerminal
    /\ SchedulerTransition(verdict)
    /\ UNCHANGED <<analyzerVars, localVars, dirty, beating, callVars, losses, envVars>>

\* The run is over and nothing will write to its keys again.
Finished == Gone /\ ~heartbeat /\ ~suspect /\ UNCHANGED vars

MainCall ==
    \/ Initialize \/ EmitRunning \/ FirstHeartbeat \/ Work \/ AgentProgress
    \/ EndWork \/ AbortPending \/ EmitFinal \/ Finalize \/ Flush \/ Exit

Next ==
    \/ MainCall \/ HeartbeatTick \/ ReporterStep
    \/ Interrupt \/ Kill
    \/ HeartbeatTTL \/ SchedulerSuspects \/ SchedulerAborts \/ SchedulerReaps
    \/ Finished

Spec == Init /\ [][Next]_vars

\* A call in progress goes on and the heartbeat thread wakes up; nothing is
\* assumed of the analysis itself, which may take hours.
FairSpec == Spec /\ WF_vars(ReporterStep) /\ WF_vars(HeartbeatTick)

-----------------------------------------------------------------------------
(* Properties.                                                              *)

\* The summary counters that run_view serves are the tally of the task_status
\* hash, whatever was lost, replayed or sent twice, and the summary that
\* finalize_run writes over them at the end says the same.
CountersMatch == initialized => counts = Tally(taskStatus)

\* The same up to the call of finalize_run; it holds even where a Ctrl-C cuts a
\* call short, or the first INITIALIZE is lost.
CountersFollow == initialized /\ final = NoFinal => counts = Tally(taskStatus)

\* "The latest local snapshots are replayed after reconnection": whenever the
\* reporter is idle and believes it is in step with Redis, every task has in
\* Redis the status and the data of its local snapshot.
InStep ==
    call = NoCall /\ ~dirty /\ mainPc \notin {"initialize", "killed"} =>
        \A t \in Tasks : taskData[t] = tasks[t] /\ taskStatus[t] = tasks[t].status

\* A run whose Analyzer left in step with Redis carries the Analyzer's own
\* verdict, even where a scheduler had taken it for dead and aborted it, every
\* task is terminal, and it is not listed as running.  (With Redis down from
\* before the first INITIALIZE until after the last event of a task, the tasks
\* are not: see InStep.)
FinalReport ==
    mainPc = "exited" /\ ~dirty =>
        /\ runStatus = verdict
        /\ \A t \in Tasks : taskStatus[t] \in TaskTerminal
        /\ ~running

\* The set of running runs, kept by three scripts of two programs, agrees with
\* the status in the meta hash.
RunningSetAgrees == running <=> runStatus = "running"

\* What readers see of a task only moves forward: a terminal status stays, and
\* a replay never brings back older data.
TaskViewAdvances ==
    [][\A t \in Tasks :
         /\ taskStatus[t] \in TaskTerminal => taskStatus'[t] = taskStatus[t]
         /\ taskData'[t] = taskData[t] \/ taskData'[t].rev > taskData[t].rev]_vars

\* The only terminal run status that is ever replaced is the scheduler's
\* 'aborted' of an Analyzer that was alive after all, by its own verdict.
OnlyAbortedIsCorrected ==
    [][(runStatus \in RunTerminal /\ runStatus' # runStatus)
          => (runStatus = "aborted" /\ runStatus' = verdict)]_vars

\* A reporter that went offline catches up again while its Analyzer works,
\* unless the scheduler has given the run a terminal status meanwhile.
Reconnects == dirty ~> (~dirty \/ Gone \/ runStatus \in RunTerminal)
=============================================================================
