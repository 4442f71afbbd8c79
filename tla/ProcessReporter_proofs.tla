----------------------- MODULE ProcessReporter_proofs -----------------------
(***************************************************************************)
(* Theorems about ProcessReporter, for any tasks and any number of failing *)
(* commands, with kills and aborts by the scheduler at any step.  Those    *)
(* that assume ~InitOutage or ~Interrupts say why; the others hold with    *)
(* Redis down from the start and with Ctrl-C at any step as well.          *)
(***************************************************************************)
EXTENDS ProcessReporter, TLAPS, FiniteSetTheorems

Emits == {"emitRun", "emitTask"}

\* Which steps a call goes through, and what an emit may have to take back.
CallInv ==
    /\ step # "idle" => call # NoCall
    /\ step = "apply" => call.op \in Emits
    /\ step = "write" => call.op \in Emits \union {"heartbeat", "finalize"}
    /\ step = "write" /\ call.op = "emitRun"  => previous \in RunSnapshot
    /\ step = "write" /\ call.op = "emitTask" => previous \in Snapshot

\* What the reporter says of the run: it is starting until the first event.
Reported == {"running"} \union RunTerminal
Known(snapshot) == snapshot.status \in Reported \/ (snapshot.status = "starting" /\ snapshot.rev = 0)

RunInv ==
    /\ Known(runState)
    /\ call.op = "emitRun" => call.status \in Reported
    /\ step = "resyncRun" => runState.status \in Reported
    /\ step = "write" /\ call.op = "emitRun" => runState.status \in Reported /\ Known(previous)
    /\ final = NoFinal \/ final.status \in RunTerminal
    /\ step = "resyncFinal" \/ call.op = "finalize" => final # NoFinal

\* A reporter writes nothing but a heartbeat before the run is initialised.
EarlyInv ==
    /\ mainPc = "initialize" => call = NoCall /\ ~beating
    /\ mainPc = "killed" => call = NoCall /\ ~beating
    /\ ~dirty => initialized \/ mainPc \in {"initialize", "killed"}
    /\ step \in {"resyncRun", "resyncTasks", "resyncFinal", "resyncBeat", "write"} => initialized
    /\ ~initialized => \A t \in Tasks : taskStatus[t] = "pending"

\* TypeOK without the keys in Redis.
LocalTypes ==
    /\ states \in [Tasks -> TaskStatus]
    /\ mainPc \in MainPcs
    /\ verdict \in {"succeeded", "failed"}
    /\ interrupted \in BOOLEAN
    /\ tasks \in [Tasks -> Snapshot]
    /\ runState \in RunSnapshot
    /\ final \in [status : MetaStatus, summary : [TaskStatus -> Int]]
    /\ dirty \in BOOLEAN
    /\ beating \in BOOLEAN
    /\ call \in Calls
    /\ step \in Steps
    /\ todo \subseteq Tasks
    /\ previous \in Snapshot \union RunSnapshot
    /\ losses \in 0..MaxLosses
    /\ scheduled \in BOOLEAN
    /\ suspect \in BOOLEAN

TypeInv == StoreTypeOK /\ LocalTypes /\ CallInv

-----------------------------------------------------------------------------
(* The scripts that a step may run.                                         *)

StoreStep ==
    \/ UNCHANGED storeVars
    \/ step = "resyncInit" /\ InitializeRun(tasks)
    \/ step = "resyncRun" /\ RunTransition(runState, TRUE)
    \/ step = "write" /\ call.op = "emitRun" /\ RunTransition(runState, FALSE)
    \/ step = "resyncTasks" /\ \E t \in todo : TaskTransition(t, tasks[t], TRUE)
    \/ /\ step = "write" /\ call.op = "emitTask"
       /\ TaskTransition(call.task, tasks[call.task], FALSE)
    \/ /\ step = "resyncFinal" \/ (step = "write" /\ call.op = "finalize")
       /\ FinalizeRun(final.status, final.summary)
    \/ Beat \/ HeartbeatExpires
    \/ SchedulerTransition("aborted") \/ (Gone /\ SchedulerTransition(verdict))

LEMMA CallStore ==
    ASSUME ReporterStep
    PROVE  StoreStep
<1>1. CASE ResyncInitialize
    BY <1>1 DEF ResyncInitialize, Command, StoreStep
<1>2. CASE ResyncRun
    BY <1>2 DEF ResyncRun, Command, StoreStep
<1>3. CASE \E t \in Tasks : ResyncTask(t)
    BY <1>3 DEF ResyncTask, Command, StoreStep
<1>4. CASE ResyncFinalize \/ ResyncHeartbeat
    BY <1>4 DEF ResyncFinalize, ResyncHeartbeat, Command, StoreStep
<1>5. CASE Apply
    BY <1>5 DEF Apply, StoreStep
<1>6. CASE WriteRun
    BY <1>6 DEF WriteRun, Command, StoreStep
<1>8. CASE WriteTask
    BY <1>8 DEF WriteTask, Command, StoreStep
<1>7. CASE WriteHeartbeat \/ WriteFinalize
    BY <1>7 DEF WriteHeartbeat, WriteFinalize, Command, StoreStep
<1> QED BY <1>1, <1>2, <1>3, <1>4, <1>5, <1>6, <1>7, <1>8 DEF ReporterStep

LEMMA NextStore ==
    ASSUME [Next]_vars
    PROVE  StoreStep
<1>1. CASE MainCall
    BY <1>1 DEF MainCall, Initialize, EmitRunning, FirstHeartbeat, Work, AgentProgress, EndWork,
                AbortPending, EmitTask, EmitFinal, Finalize, Flush, Exit, Enter, StoreStep
<1>2. CASE HeartbeatTick
    BY <1>2 DEF HeartbeatTick, Enter, StoreStep
<1>3. CASE Interrupt
    BY <1>3 DEF Interrupt, StoreStep
<1>4. CASE Kill \/ HeartbeatTTL \/ SchedulerSuspects \/ SchedulerAborts \/ SchedulerReaps
    BY <1>4 DEF Kill, HeartbeatTTL, SchedulerSuspects, SchedulerAborts, SchedulerReaps, StoreStep
<1>5. CASE Finished \/ UNCHANGED vars
    BY <1>5 DEF Finished, vars, StoreStep
<1> QED BY <1>1, <1>2, <1>3, <1>4, <1>5, CallStore DEF Next

-----------------------------------------------------------------------------
(* Types.                                                                   *)

LEMMA CallTypes ==
    ASSUME call \in Calls
    PROVE  /\ call.op = "emitTask" => call.task \in Tasks /\ call.status \in TaskStatus
           /\ call.op = "emitRun" => call.status \in RunStatus
           /\ call.op = "none" <=> call = NoCall
BY DEF Calls, NoCall

\* The tally of a status hash is a number for each status.
LEMMA TallyType ==
    ASSUME NEW f
    PROVE  Tally(f) \in [TaskStatus -> Nat]
<1>1. ASSUME NEW s \in TaskStatus
      PROVE  Cardinality({t \in Counted : f[t] = s}) \in Nat
    <2>1. {t \in Counted : f[t] = s} \subseteq Tasks
        BY TasksAssumption
    <2>2. IsFiniteSet({t \in Counted : f[t] = s})
        BY <2>1, TasksAssumption, FS_Subset
    <2> QED BY <2>2, FS_CardinalityType
<1> QED BY <1>1 DEF Tally

LEMMA CountedNumber == Cardinality(Counted) \in Nat
BY TasksAssumption, FS_Subset, FS_CardinalityType

\* Every script keeps the types of the keys.
LEMMA StoreTypes ==
    ASSUME TypeInv, StoreStep
    PROVE  StoreTypeOK'
<1> USE DEF TypeInv, LocalTypes, CallInv, StoreTypeOK
<1>1. CASE UNCHANGED storeVars
    BY <1>1 DEF storeVars, taskVars
<1>2. CASE InitializeRun(tasks)
    <2>1. CASE initialized
        BY <1>1, <1>2, <2>1 DEF InitializeRun
    <2>2. CASE ~initialized
        <3>1. counts' \in [TaskStatus -> Int]
            BY <1>2, <2>2, CountedNumber DEF InitializeRun, NoCounts
        <3>2. taskData' \in [Tasks -> Snapshot \union {NoData}]
            BY <1>2, <2>2 DEF InitializeRun
        <3> QED BY <1>2, <2>2, <3>1, <3>2 DEF InitializeRun, MetaStatus, RunStatus
    <2> QED BY <2>1, <2>2
<1>3. ASSUME NEW snapshot, runState.status \in RunStatus, RunTransition(runState, snapshot)
      PROVE  StoreTypeOK'
    BY <1>1, <1>3 DEF RunTransition, RunSnapshot, MetaStatus, taskVars
<1>4. ASSUME NEW t \in Tasks, NEW snapshot, TaskTransition(t, tasks[t], snapshot)
      PROVE  StoreTypeOK'
    <2>1. CASE TaskReply(t, tasks[t], snapshot) # "accepted"
        BY <1>1, <1>4, <2>1 DEF TaskTransition
    <2>2. CASE TaskReply(t, tasks[t], snapshot) = "accepted"
        <3>1. tasks[t].status \in TaskStatus
            BY DEF Snapshot
        <3>2. counts' \in [TaskStatus -> Int]
            BY <1>4, <2>2, <3>1 DEF TaskTransition, Moved
        <3> QED BY <1>4, <2>2, <3>1, <3>2 DEF TaskTransition
    <2> QED BY <2>1, <2>2
<1>5. CASE FinalizeRun(final.status, final.summary)
    BY <1>5 DEF FinalizeRun, taskVars
<1>6. CASE Beat \/ HeartbeatExpires
    BY <1>6 DEF Beat, HeartbeatExpires, taskVars
<1>7. ASSUME NEW new \in RunStatus, SchedulerTransition(new)
      PROVE  StoreTypeOK'
    BY <1>1, <1>7 DEF SchedulerTransition, MetaStatus, taskVars
<1>8. runState.status \in RunStatus
    BY DEF RunSnapshot
<1>9. "aborted" \in RunStatus /\ verdict \in RunStatus
    BY DEF RunStatus
<1> QED BY <1>1, <1>2, <1>3, <1>4, <1>5, <1>6, <1>7, <1>8, <1>9, CallTypes DEF StoreStep

\* A call that takes the lock.
LEMMA EnterTypes ==
    ASSUME TypeInv, NEW c \in Calls, c # NoCall, c.op # "initialize" \/ dirty', c.op # "flush", Enter(c),
           mainPc' \in MainPcs, dirty' \in BOOLEAN,
           UNCHANGED <<verdict, interrupted, tasks, runState>>,
           final' \in [status : MetaStatus, summary : [TaskStatus -> Int]]
    PROVE  LocalTypes' /\ CallInv'
<1>1. c.op \in {"initialize", "heartbeat", "finalize", "emitRun", "emitTask"}
    BY DEF Calls, NoCall
<1>2. step' \in {"resyncInit", "apply", "write"} /\ step' \in Steps
    BY DEF Enter, FirstStep, Steps, ResyncSteps
<1>3. step' = "apply" => c.op \in Emits
    BY DEF Enter, FirstStep, Emits
<1>4. step' = "write" => c.op \in {"heartbeat", "finalize"}
    BY <1>1 DEF Enter, FirstStep
<1>5. call' = c
    BY DEF Enter
<1>6. CallInv'
    BY <1>1, <1>2, <1>3, <1>4, <1>5 DEF CallInv, Emits
<1> QED BY <1>2, <1>5, <1>6 DEF TypeInv, LocalTypes, Enter, envVars

LEMMA MainTypes ==
    ASSUME TypeInv, MainCall \/ HeartbeatTick
    PROVE  LocalTypes' /\ CallInv'
<1>1. CASE Initialize \/ EmitRunning \/ FirstHeartbeat \/ EmitFinal \/ HeartbeatTick
    <2>1. PICK c \in Calls : /\ c # NoCall /\ c.op # "flush" /\ (c.op # "initialize" \/ dirty')
                             /\ Enter(c)
        BY <1>1 DEF TypeInv, LocalTypes, Initialize, EmitRunning, FirstHeartbeat, EmitFinal, HeartbeatTick,
                    Calls, NoCall, RunStatus
    <2>2. mainPc' \in MainPcs /\ dirty' \in BOOLEAN
        BY <1>1 DEF TypeInv, LocalTypes, Initialize, EmitRunning, FirstHeartbeat, EmitFinal, HeartbeatTick,
                    MainPcs
    <2>3. UNCHANGED <<verdict, interrupted, tasks, runState, final>>
        BY <1>1 DEF Initialize, EmitRunning, FirstHeartbeat, EmitFinal, HeartbeatTick, localVars
    <2> QED BY <2>1, <2>2, <2>3, EnterTypes DEF TypeInv, LocalTypes
<1>2. CASE Work \/ AgentProgress \/ AbortPending
    <2>1. PICK t \in Tasks, s \in TaskStatus :
             Enter([by |-> "main", op |-> "emitTask", task |-> t, status |-> s])
        BY <1>2 DEF Work, AgentProgress, AbortPending, EmitTask, TaskStatus
    <2>2. UNCHANGED <<mainPc, dirty, verdict, interrupted, tasks, runState, final>>
        BY <1>2 DEF Work, AgentProgress, AbortPending, EmitTask, localVars
    <2>3. [by |-> "main", op |-> "emitTask", task |-> t, status |-> s] \in Calls
        BY DEF Calls
    <2> QED BY <2>1, <2>2, <2>3, EnterTypes DEF TypeInv, LocalTypes, NoCall
<1>3. CASE Finalize
    <2>1. [by |-> "main", op |-> "finalize"] \in Calls
        BY DEF Calls
    <2>2. final' \in [status : MetaStatus, summary : [TaskStatus -> Int]]
        BY <1>3, TallyType DEF Finalize, TypeInv, LocalTypes, MetaStatus, RunStatus
    <2>3. mainPc' \in MainPcs /\ dirty' \in BOOLEAN
        BY <1>3 DEF Finalize, TypeInv, LocalTypes, MainPcs
    <2> QED BY <1>3, <2>1, <2>2, <2>3, EnterTypes DEF Finalize, NoCall
<1>4. CASE EndWork \/ Exit
    BY <1>4 DEF EndWork, Exit, TypeInv, LocalTypes, CallInv, MainPcs, localVars, callVars, envVars
<1>5. CASE Flush
    <2>1. mainPc' \in MainPcs /\ beating' \in BOOLEAN
        BY <1>5 DEF Flush, TypeInv, LocalTypes, MainPcs
    <2>2. call' \in Calls /\ step' \in Steps /\ todo' \subseteq Tasks
        BY <1>5 DEF Flush, TypeInv, LocalTypes, Calls, Steps, ResyncSteps
    <2>3. CallInv'
        BY <1>5 DEF Flush, TypeInv, LocalTypes, CallInv, NoCall
    <2> QED BY <1>5, <2>1, <2>2, <2>3 DEF Flush, TypeInv, LocalTypes, localVars, envVars
<1> QED BY <1>1, <1>2, <1>3, <1>4, <1>5 DEF MainCall

\* The part that the steps of a call move.
CallTyped ==
    /\ states \in [Tasks -> TaskStatus]
    /\ beating \in BOOLEAN
    /\ call \in Calls
    /\ step \in Steps
    /\ todo \subseteq Tasks
    /\ previous \in Snapshot \union RunSnapshot
    /\ CallInv

LEMMA DoneTypes ==
    ASSUME TypeInv, Done
    PROVE  CallTyped'
<1>1. call' \in Calls /\ step' \in Steps /\ previous' \in Snapshot \union RunSnapshot
    BY DEF Done, Calls, Steps, NoSnapshot, Snapshot, TaskStatus
<1>2. states' \in [Tasks -> TaskStatus] /\ beating' \in BOOLEAN
    BY CallTypes DEF Done, TypeInv, LocalTypes
<1>3. CallInv'
    BY DEF Done, CallInv
<1> QED BY <1>1, <1>2, <1>3 DEF Done, CallTyped

LEMMA GotoTypes ==
    ASSUME TypeInv, step # "idle", NEW s \in Steps \ {"idle", "write"}, NEW left \in SUBSET Tasks,
           s = "apply" => call.op \in Emits, Goto(s, left)
    PROVE  CallTyped'
BY DEF TypeInv, LocalTypes, CallInv, Goto, CallTyped

LEMMA ResyncFailedTypes ==
    ASSUME TypeInv, step # "idle", ResyncFailed
    PROVE  CallTyped'
<1>1. CASE call.op \in {"emitRun", "emitTask"}
    BY <1>1, GotoTypes DEF ResyncFailed, Steps, Emits
<1>2. CASE call.op \notin {"emitRun", "emitTask"}
    BY <1>2, DoneTypes DEF ResyncFailed
<1> QED BY <1>1, <1>2

\* A command that fails.
Fails ==
    /\ step \in ResyncSteps \union {"write"}
    /\ losses < MaxLosses /\ losses' = losses + 1
    /\ dirty' = TRUE
    /\ IF step \in ResyncSteps THEN ResyncFailed ELSE Done
    /\ UNCHANGED localVars
    /\ UNCHANGED <<mainPc, verdict, interrupted, envVars>>

LEMMA FailsTypes ==
    ASSUME TypeInv, Fails
    PROVE  LocalTypes' /\ CallInv'
<1>1. step # "idle"
    BY DEF Fails, ResyncSteps
<1>2. CallTyped'
    BY <1>1, ResyncFailedTypes, DoneTypes DEF Fails
<1>3. losses' \in 0..MaxLosses
    BY ReporterAssumption DEF Fails, TypeInv, LocalTypes
<1> QED BY <1>2, <1>3 DEF Fails, TypeInv, LocalTypes, CallTyped, localVars, envVars

\* A command that is answered.
Answers == UNCHANGED <<losses, mainPc, verdict, interrupted, envVars>>

LEMMA AnswersTypes ==
    ASSUME TypeInv, Answers, CallTyped', dirty' \in BOOLEAN, UNCHANGED final,
           tasks' \in [Tasks -> Snapshot], runState' \in RunSnapshot
    PROVE  LocalTypes' /\ CallInv'
BY DEF Answers, TypeInv, LocalTypes, CallTyped, envVars

LEMMA AfterTypes ==
    /\ AfterTasks \in Steps \ {"idle", "write", "apply"}
    /\ AfterRun \in Steps \ {"idle", "write", "apply"}
    /\ AfterInit \in Steps \ {"idle", "write", "apply"}
BY DEF AfterTasks, AfterRun, AfterInit, Steps, ResyncSteps

LEMMA ResyncTypes ==
    ASSUME TypeInv,
           \/ ResyncInitialize \/ ResyncRun \/ (\E t \in Tasks : ResyncTask(t))
           \/ ResyncFinalize \/ ResyncHeartbeat
    PROVE  LocalTypes' /\ CallInv'
<1>1. CASE Fails
    BY <1>1, FailsTypes
<1>2. step # "idle"
    BY DEF ResyncInitialize, ResyncRun, ResyncTask, ResyncFinalize, ResyncHeartbeat
<1>3. CASE ResyncInitialize /\ ~Fails
    <2>1. Answers /\ Goto(AfterInit, todo) /\ UNCHANGED <<localVars, dirty>>
        BY <1>3 DEF ResyncInitialize, Command, Fails, Answers, ResyncSteps
    <2>2. CallTyped'
        BY <1>2, <2>1, AfterTypes, GotoTypes DEF TypeInv, LocalTypes
    <2> QED BY <2>1, <2>2, AnswersTypes DEF TypeInv, LocalTypes, localVars
<1>4. CASE ResyncRun /\ ~Fails
    <2>1. Answers /\ (ResyncFailed \/ Goto(AfterRun, todo)) /\ UNCHANGED <<localVars, dirty>>
        BY <1>4 DEF ResyncRun, Command, Fails, Answers, ResyncSteps
    <2>2. CallTyped'
        BY <1>2, <2>1, AfterTypes, GotoTypes, ResyncFailedTypes DEF TypeInv, LocalTypes
    <2> QED BY <2>1, <2>2, AnswersTypes DEF TypeInv, LocalTypes, localVars
<1>5. ASSUME NEW t \in Tasks, ResyncTask(t), ~Fails
      PROVE  LocalTypes' /\ CallInv'
    <2>1. /\ Answers /\ UNCHANGED <<localVars, dirty>>
          /\ \/ ResyncFailed
             \/ Goto(IF todo = {t} THEN AfterTasks ELSE "resyncTasks", todo \ {t})
        BY <1>5 DEF ResyncTask, Command, Fails, Answers, ResyncSteps
    <2>2. (IF todo = {t} THEN AfterTasks ELSE "resyncTasks") \in Steps \ {"idle", "write", "apply"}
        BY AfterTypes DEF Steps, ResyncSteps
    <2>3. todo \ {t} \in SUBSET Tasks
        BY DEF TypeInv, LocalTypes
    <2>4. CallTyped'
        BY <1>2, <2>1, <2>2, <2>3, GotoTypes, ResyncFailedTypes
    <2> QED BY <2>1, <2>4, AnswersTypes DEF TypeInv, LocalTypes, localVars
<1>6. CASE ResyncFinalize /\ ~Fails
    <2>1. Answers /\ Goto("resyncBeat", {}) /\ UNCHANGED <<localVars, dirty>>
        BY <1>6 DEF ResyncFinalize, Command, Fails, Answers, ResyncSteps
    <2>2. CallTyped'
        BY <1>2, <2>1, GotoTypes DEF Steps, ResyncSteps
    <2> QED BY <2>1, <2>2, AnswersTypes DEF TypeInv, LocalTypes, localVars
<1>7. CASE ResyncHeartbeat /\ ~Fails
    <2>1. /\ Answers /\ UNCHANGED localVars /\ dirty' = FALSE
          /\ IF call.op \in {"initialize", "flush"} THEN Done ELSE Goto(FirstStep(call), {})
        BY <1>7 DEF ResyncHeartbeat, Command, Fails, Answers, ResyncSteps
    <2>2. CASE Done
        BY <2>1, <2>2, DoneTypes, AnswersTypes DEF TypeInv, LocalTypes, localVars
    <2>3. CASE call.op \in Emits /\ Goto("apply", {})
        <3>1. CallTyped'
            BY <1>2, <2>3, GotoTypes DEF Steps
        <3> QED BY <2>1, <3>1, AnswersTypes DEF TypeInv, LocalTypes, localVars
    <2>4. CASE call.op \notin Emits \union {"initialize", "flush"} /\ Goto("write", {})
        <3>1. call.op \in {"heartbeat", "finalize"}
            BY <1>2, <2>4 DEF TypeInv, LocalTypes, CallInv, Calls, NoCall, Emits
        <3>2. CallTyped'
            BY <2>4, <3>1 DEF TypeInv, LocalTypes, Goto, CallTyped, CallInv, Steps, NoCall
        <3> QED BY <2>1, <3>2, AnswersTypes DEF TypeInv, LocalTypes, localVars
    <2> QED BY <2>1, <2>2, <2>3, <2>4 DEF FirstStep, Emits
<1> QED BY <1>1, <1>3, <1>4, <1>5, <1>6, <1>7

LEMMA ApplyTypes ==
    ASSUME TypeInv, Apply
    PROVE  LocalTypes' /\ CallInv'
<1>1. call.op \in Emits /\ call # NoCall
    BY DEF TypeInv, CallInv, Apply
<1>2. CASE call.op = "emitRun"
    <2>1. call.status \in RunStatus
        BY <1>2, CallTypes DEF TypeInv, LocalTypes
    <2>2. runState' \in RunSnapshot /\ UNCHANGED tasks
        BY <1>2, <2>1 DEF Apply, Applied, RunSnapshot, TypeInv, LocalTypes
    <2>3. CallTyped'
        <3>1. CASE Done
            BY <3>1, DoneTypes
        <3>2. CASE step' = "write" /\ previous' = runState /\ UNCHANGED <<call, todo, states, beating>>
            BY <1>1, <1>2, <3>2 DEF CallTyped, CallInv, TypeInv, LocalTypes, Steps, Emits
        <3> QED BY <1>2, <3>1, <3>2 DEF Apply
    <2> QED BY <2>2, <2>3, AnswersTypes DEF Apply, Answers, TypeInv, LocalTypes
<1>3. CASE call.op = "emitTask"
    <2>1. call.task \in Tasks /\ call.status \in TaskStatus
        BY <1>3, CallTypes DEF TypeInv, LocalTypes
    <2>2. tasks' \in [Tasks -> Snapshot] /\ UNCHANGED runState
        BY <1>3, <2>1 DEF Apply, Applied, Snapshot, TypeInv, LocalTypes
    <2>3. CallTyped'
        <3>1. CASE Done
            BY <3>1, DoneTypes
        <3>2. CASE step' = "write" /\ previous' = tasks[call.task] /\ UNCHANGED <<call, todo, states, beating>>
            BY <1>1, <1>3, <2>1, <3>2 DEF CallTyped, CallInv, TypeInv, LocalTypes, Steps, Emits
        <3> QED BY <1>3, <3>1, <3>2 DEF Apply
    <2> QED BY <2>2, <2>3, AnswersTypes DEF Apply, Answers, TypeInv, LocalTypes
<1> QED BY <1>1, <1>2, <1>3 DEF Emits

LEMMA WriteTypes ==
    ASSUME TypeInv, WriteRun \/ WriteTask \/ WriteHeartbeat \/ WriteFinalize
    PROVE  LocalTypes' /\ CallInv'
<1>1. CASE Fails
    BY <1>1, FailsTypes
<1>2. CASE WriteRun /\ ~Fails
    <2>1. /\ Answers /\ Done /\ UNCHANGED <<tasks, final, dirty>>
          /\ runState' = runState \/ runState' = previous
        BY <1>2 DEF WriteRun, Command, Fails, Answers, ResyncSteps
    <2>2. runState' \in RunSnapshot
        BY <1>2, <2>1 DEF WriteRun, TypeInv, LocalTypes, CallInv
    <2> QED BY <2>1, <2>2, DoneTypes, AnswersTypes DEF TypeInv, LocalTypes
<1>3. CASE WriteTask /\ ~Fails
    <2>1. /\ Answers /\ Done /\ UNCHANGED <<runState, final, dirty>>
          /\ tasks' = [tasks EXCEPT ![call.task] = previous] \/ tasks' = tasks
        BY <1>3 DEF WriteTask, Command, Fails, Answers, ResyncSteps
    <2>2. tasks' \in [Tasks -> Snapshot]
        BY <1>3, <2>1 DEF WriteTask, TypeInv, LocalTypes, CallInv
    <2> QED BY <2>1, <2>2, DoneTypes, AnswersTypes DEF TypeInv, LocalTypes
<1>4. CASE (WriteHeartbeat \/ WriteFinalize) /\ ~Fails
    <2>1. Answers /\ Done /\ UNCHANGED <<localVars, dirty>>
        BY <1>4 DEF WriteHeartbeat, WriteFinalize, Command, Fails, Answers, ResyncSteps
    <2> QED BY <2>1, DoneTypes, AnswersTypes DEF TypeInv, LocalTypes, localVars
<1> QED BY <1>1, <1>2, <1>3, <1>4

LEMMA AroundTypes ==
    ASSUME TypeInv,
           \/ Interrupt \/ Kill \/ HeartbeatTTL \/ SchedulerSuspects \/ SchedulerAborts \/ SchedulerReaps
           \/ UNCHANGED vars
    PROVE  LocalTypes' /\ CallInv'
<1>1. CASE Interrupt
    <2>1. /\ interrupted' = TRUE /\ verdict' = "failed" /\ mainPc' = "aborting"
          /\ UNCHANGED <<states, localVars, dirty, beating, losses, envVars>>
          /\ \/ call' = NoCall /\ step' = "idle" /\ todo' = {} /\ previous' = NoSnapshot
             \/ UNCHANGED callVars
        BY <1>1 DEF Interrupt
    <2> QED BY <2>1 DEF TypeInv, LocalTypes, CallInv, localVars, envVars, callVars, MainPcs, Steps, Calls,
                        NoSnapshot, Snapshot, TaskStatus
<1>2. CASE Kill
    BY <1>2 DEF Kill, TypeInv, LocalTypes, CallInv, localVars, envVars, MainPcs, Steps, Calls,
                NoSnapshot, Snapshot, TaskStatus
<1>3. CASE HeartbeatTTL \/ SchedulerSuspects \/ SchedulerAborts \/ SchedulerReaps \/ UNCHANGED vars
    <2>1. /\ UNCHANGED <<analyzerVars, localVars, dirty, beating, callVars, losses, scheduled>>
          /\ suspect' \in BOOLEAN
        BY <1>3 DEF HeartbeatTTL, SchedulerSuspects, SchedulerAborts, SchedulerReaps, vars, envVars,
                    TypeInv, LocalTypes
    <2> QED BY <2>1 DEF TypeInv, LocalTypes, CallInv, analyzerVars, localVars, callVars
<1> QED BY <1>1, <1>2, <1>3

LEMMA NextTypes == TypeInv /\ [Next]_vars => TypeInv'
<1> SUFFICES ASSUME TypeInv, [Next]_vars PROVE TypeInv'
    OBVIOUS
<1>1. StoreTypeOK'
    BY NextStore, StoreTypes
<1>2. LocalTypes' /\ CallInv'
    BY MainTypes, ResyncTypes, ApplyTypes, WriteTypes, AroundTypes DEF Next, ReporterStep, Finished
<1> QED BY <1>1, <1>2 DEF TypeInv

LEMMA InitTypes == Init => TypeInv
<1> SUFFICES ASSUME Init PROVE TypeInv
    OBVIOUS
<1>1. StoreTypeOK
    <2>1. StoreInit(IF scheduled THEN "starting" ELSE "absent")
        BY DEF Init
    <2>2. runStatus \in MetaStatus
        BY <2>1 DEF StoreInit, MetaStatus, RunStatus
    <2>3. counts \in [TaskStatus -> Int] /\ taskStatus \in [Tasks -> TaskStatus]
        BY <2>1 DEF StoreInit, NoCounts, TaskStatus
    <2> QED BY <2>1, <2>2, <2>3 DEF StoreInit, StoreTypeOK
<1>2. LocalTypes
    <2>1. NoSnapshot \in Snapshot /\ [status |-> "starting", rev |-> 0] \in RunSnapshot
        BY DEF NoSnapshot, Snapshot, RunSnapshot, TaskStatus, RunStatus
    <2>2. NoFinal \in [status : MetaStatus, summary : [TaskStatus -> Int]]
        BY DEF NoFinal, NoCounts, MetaStatus
    <2>3. /\ "pending" \in TaskStatus /\ NoCall \in Calls /\ "idle" \in Steps
          /\ "initialize" \in MainPcs /\ 0 \in 0..MaxLosses
        BY ReporterAssumption DEF TaskStatus, Calls, Steps, MainPcs
    <2> QED BY <2>1, <2>2, <2>3 DEF Init, LocalTypes
<1>3. CallInv
    BY DEF Init, CallInv
<1> QED BY <1>1, <1>2, <1>3 DEF TypeInv

LEMMA TypeInvariance == Spec => []TypeInv
BY InitTypes, NextTypes, PTL DEF Spec

\* The keys in Redis and the reporter keep their types: no revision, status or
\* call is ever out of range (RedisProcessReporter and its scripts).
THEOREM ReporterTypes == Spec => []TypeOK
<1>1. TypeInv => TypeOK
    BY DEF TypeInv, LocalTypes, TypeOK
<1> QED BY <1>1, TypeInvariance, PTL

-----------------------------------------------------------------------------
(* What readers see of a task only moves forward.                           *)

\* The scripts keep newer data and terminal statuses.
LEMMA ScriptsAdvance ==
    ASSUME TypeInv, StoreStep, NEW t \in Tasks
    PROVE  /\ taskStatus[t] \in TaskTerminal => taskStatus'[t] = taskStatus[t]
           /\ taskData'[t] = taskData[t] \/ taskData'[t].rev > taskData[t].rev
<1>1. CASE UNCHANGED taskVars
    BY <1>1 DEF taskVars
<1>2. CASE InitializeRun(tasks) /\ ~initialized
    <2>1. taskData[t] = NoData => taskData'[t] = tasks[t]
        BY <1>2 DEF InitializeRun
    <2>2. taskData[t] # NoData => taskData'[t] = taskData[t]
        BY <1>2 DEF InitializeRun
    <2>3. taskData[t] = NoData => taskData'[t].rev > taskData[t].rev
        BY <2>1 DEF TypeInv, LocalTypes, Snapshot, NoData
    <2> QED BY <1>2, <2>2, <2>3 DEF InitializeRun
<1>3. ASSUME NEW u \in Tasks, NEW snapshot, TaskTransition(u, tasks[u], snapshot),
             TaskReply(u, tasks[u], snapshot) = "accepted"
      PROVE  /\ taskStatus[t] \in TaskTerminal => taskStatus'[t] = taskStatus[t]
             /\ taskData'[t] = taskData[t] \/ taskData'[t].rev > taskData[t].rev
    <2>1. /\ taskStatus' = [taskStatus EXCEPT ![u] = tasks[u].status]
          /\ taskData' = [taskData EXCEPT ![u] = tasks[u]]
        BY <1>3 DEF TaskTransition
    <2>2. ~(tasks[u].rev <= taskData[u].rev) /\ TaskAllowed(taskStatus[u], tasks[u].status, snapshot)
        BY <1>3 DEF TaskReply
    <2>3. CASE t # u
        BY <2>1, <2>3 DEF TypeInv, StoreTypeOK
    <2>4. CASE t = u
        <3>1. taskData'[t].rev > taskData[t].rev
            BY <2>1, <2>2, <2>4 DEF TypeInv, StoreTypeOK, LocalTypes, Snapshot, NoData
        <3>2. taskStatus[t] \in TaskTerminal => taskStatus'[t] = taskStatus[t]
            BY <2>1, <2>2, <2>4 DEF TypeInv, StoreTypeOK, TaskAllowed, TaskMoves, TaskTerminal, TaskStatus
        <3> QED BY <3>1, <3>2
    <2> QED BY <2>3, <2>4
<1>4. UNCHANGED storeVars => UNCHANGED taskVars
    BY DEF storeVars
<1>5. \A u \in Tasks, snapshot \in BOOLEAN :
         TaskTransition(u, tasks[u], snapshot) =>
             UNCHANGED storeVars \/ TaskReply(u, tasks[u], snapshot) = "accepted"
    BY DEF TaskTransition
<1>6. \A snapshot \in BOOLEAN : RunTransition(runState, snapshot) => UNCHANGED taskVars
    BY <1>4 DEF RunTransition
<1>7. FinalizeRun(final.status, final.summary) \/ Beat \/ HeartbeatExpires => UNCHANGED taskVars
    BY DEF FinalizeRun, Beat, HeartbeatExpires
<1>8. SchedulerTransition("aborted") \/ SchedulerTransition(verdict) => UNCHANGED taskVars
    BY <1>4 DEF SchedulerTransition
<1>9. InitializeRun(tasks) => UNCHANGED taskVars \/ ~initialized
    BY <1>4 DEF InitializeRun
<1>10. todo \subseteq Tasks
    BY DEF TypeInv, LocalTypes
<1>11. step = "write" /\ call.op = "emitTask" => call.task \in Tasks
    BY CallTypes DEF TypeInv, LocalTypes
<1> QED BY <1>1, <1>2, <1>3, <1>4, <1>5, <1>6, <1>7, <1>8, <1>9, <1>10, <1>11 DEF StoreStep

\* A terminal task status stays and a replay never brings back older data
\* (TASK_TRANSITION_LUA, INITIALIZE_RUN_LUA), with any number of lost answers
\* and with Ctrl-C anywhere.
THEOREM TaskViewsOnlyAdvance == Spec => TaskViewAdvances
<1>1. TypeInv /\ [Next]_vars =>
        [\A t \in Tasks :
           /\ taskStatus[t] \in TaskTerminal => taskStatus'[t] = taskStatus[t]
           /\ taskData'[t] = taskData[t] \/ taskData'[t].rev > taskData[t].rev]_vars
    BY NextStore, ScriptsAdvance
<1> QED BY <1>1, TypeInvariance, PTL DEF Spec, TaskViewAdvances

-----------------------------------------------------------------------------
(* The set of running runs.                                                 *)

\* The scripts keep status and set together, given what the reporter writes.
LEMMA ScriptsAgree ==
    ASSUME TypeInv, RunInv, RunningSetAgrees, StoreStep
    PROVE  RunningSetAgrees'
<1> USE DEF RunningSetAgrees
<1>1. CASE UNCHANGED storeVars
    BY <1>1 DEF storeVars
<1>2. ASSUME NEW snapshot, runState.status \in Reported, RunTransition(runState, snapshot)
      PROVE  RunningSetAgrees'
    BY <1>1, <1>2 DEF RunTransition, Reported, RunTerminal
<1>3. CASE InitializeRun(tasks)
    BY <1>1, <1>3 DEF InitializeRun
<1>4. ASSUME NEW t, NEW snapshot, TaskTransition(t, tasks[t], snapshot)
      PROVE  RunningSetAgrees'
    BY <1>1, <1>4 DEF TaskTransition
<1>5. CASE final # NoFinal /\ FinalizeRun(final.status, final.summary)
    BY <1>5 DEF FinalizeRun, RunInv, RunTerminal
<1>6. CASE Beat \/ HeartbeatExpires
    BY <1>6 DEF Beat, HeartbeatExpires
<1>7. ASSUME NEW new \in RunTerminal, SchedulerTransition(new)
      PROVE  RunningSetAgrees'
    BY <1>1, <1>7 DEF SchedulerTransition, RunTerminal
<1>8. "aborted" \in RunTerminal /\ verdict \in RunTerminal
    BY DEF TypeInv, LocalTypes, RunTerminal
<1>9. /\ step = "resyncRun" => runState.status \in Reported
      /\ step = "write" /\ call.op = "emitRun" => runState.status \in Reported
      /\ step = "resyncFinal" \/ call.op = "finalize" => final # NoFinal
    BY DEF RunInv
<1> QED BY <1>1, <1>2, <1>3, <1>4, <1>5, <1>6, <1>7, <1>8, <1>9 DEF StoreStep

\* A call that takes the lock says nothing new of the run, except the event of
\* an emit and the summary of finalize_run.
LEMMA EnterRun ==
    ASSUME RunInv, NEW c \in Calls, Enter(c), c.op = "emitRun" => c.status \in Reported,
           UNCHANGED runState, final' = final \/ final'.status \in RunTerminal,
           c.op = "finalize" => final'.status \in RunTerminal
    PROVE  RunInv'
<1>1. /\ call' = c
      /\ step' \in {"resyncInit", "apply", "write"}
      /\ step' = "write" => c.op # "emitRun"
    BY DEF Enter, FirstStep
<1>2. NoFinal.status \notin RunTerminal
    BY DEF NoFinal, RunTerminal
<1>3. final' = NoFinal \/ final'.status \in RunTerminal
    BY DEF RunInv
<1> QED BY <1>1, <1>2, <1>3 DEF RunInv, Known

LEMMA MainRun ==
    ASSUME TypeInv, RunInv, MainCall \/ HeartbeatTick
    PROVE  RunInv'
<1>1. verdict \in Reported /\ "running" \in Reported /\ verdict \in RunTerminal
    BY DEF TypeInv, LocalTypes, Reported, RunTerminal
<1>2. CASE Initialize \/ EmitRunning \/ FirstHeartbeat \/ EmitFinal \/ HeartbeatTick
    <2>1. PICK c \in Calls : Enter(c) /\ c.op # "finalize" /\ (c.op = "emitRun" => c.status \in Reported)
        BY <1>1, <1>2 DEF TypeInv, LocalTypes, Initialize, EmitRunning, FirstHeartbeat, EmitFinal, HeartbeatTick,
                    Calls, RunStatus
    <2>2. UNCHANGED <<runState, final>>
        BY <1>2 DEF Initialize, EmitRunning, FirstHeartbeat, EmitFinal, HeartbeatTick, localVars
    <2> QED BY <2>1, <2>2, EnterRun
<1>3. CASE Work \/ AgentProgress \/ AbortPending
    <2>1. PICK t \in Tasks, s \in TaskStatus :
             Enter([by |-> "main", op |-> "emitTask", task |-> t, status |-> s])
        BY <1>3 DEF Work, AgentProgress, AbortPending, EmitTask, TaskStatus
    <2>2. UNCHANGED <<runState, final>>
        BY <1>3 DEF Work, AgentProgress, AbortPending, EmitTask, localVars
    <2>3. [by |-> "main", op |-> "emitTask", task |-> t, status |-> s] \in Calls
        BY DEF Calls
    <2> QED BY <2>1, <2>2, <2>3, EnterRun
<1>4. CASE Finalize
    <2>1. [by |-> "main", op |-> "finalize"] \in Calls
        BY DEF Calls
    <2> QED BY <1>1, <1>4, <2>1, EnterRun DEF Finalize
<1>5. CASE EndWork \/ Exit
    BY <1>5 DEF EndWork, Exit, RunInv, Known, localVars, callVars
<1>6. CASE Flush
    BY <1>6 DEF Flush, RunInv, Known, localVars, TypeInv, CallInv, NoCall
<1> QED BY <1>2, <1>3, <1>4, <1>5, <1>6 DEF MainCall

\* The steps of a call.
LEMMA DoneRun ==
    ASSUME RunInv, Done, Known(runState)', UNCHANGED final
    PROVE  RunInv'
BY DEF RunInv, Done, NoCall

LEMMA GotoRun ==
    ASSUME RunInv, NEW s, NEW left, Goto(s, left), UNCHANGED <<runState, final>>,
           s = "resyncRun" => runState.status \in Reported,
           s = "resyncFinal" => final # NoFinal,
           s = "write" => call.op # "emitRun"
    PROVE  RunInv'
BY DEF RunInv, Goto, Known

LEMMA ResyncFailedRun ==
    ASSUME RunInv, ResyncFailed, UNCHANGED <<runState, final>>
    PROVE  RunInv'
<1>1. Known(runState)'
    BY DEF RunInv, Known
<1> QED BY <1>1, DoneRun, GotoRun DEF ResyncFailed

LEMMA FailsRun ==
    ASSUME RunInv, Fails
    PROVE  RunInv'
<1>1. Known(runState)' /\ UNCHANGED <<runState, final>>
    BY DEF RunInv, Known, Fails, localVars
<1> QED BY <1>1, DoneRun, ResyncFailedRun DEF Fails

LEMMA ResyncRunInv ==
    ASSUME TypeInv, RunInv,
           \/ ResyncInitialize \/ ResyncRun \/ (\E t \in Tasks : ResyncTask(t))
           \/ ResyncFinalize \/ ResyncHeartbeat
    PROVE  RunInv'
<1>1. CASE Fails
    BY <1>1, FailsRun
<1>2. CASE ResyncInitialize /\ ~Fails
    <2>1. Goto(AfterInit, todo) /\ UNCHANGED <<runState, final>>
        BY <1>2 DEF ResyncInitialize, Command, Fails, ResyncSteps, localVars
    <2>2. AfterInit = "resyncRun" => runState.status \in Reported
        BY DEF AfterInit, AfterRun, AfterTasks, RunInv, Known
    <2>3. AfterInit = "resyncFinal" => final # NoFinal
        BY DEF AfterInit, AfterRun, AfterTasks
    <2>4. AfterInit # "write"
        BY DEF AfterInit, AfterRun, AfterTasks
    <2> QED BY <2>1, <2>2, <2>3, <2>4, GotoRun
<1>3. CASE ResyncRun /\ ~Fails
    <2>1. (ResyncFailed \/ Goto(AfterRun, todo)) /\ UNCHANGED <<runState, final>>
        BY <1>3 DEF ResyncRun, Command, Fails, ResyncSteps, localVars
    <2>2. AfterRun \notin {"write", "resyncRun"} /\ (AfterRun = "resyncFinal" => final # NoFinal)
        BY DEF AfterRun, AfterTasks
    <2> QED BY <2>1, <2>2, GotoRun, ResyncFailedRun
<1>4. ASSUME NEW t \in Tasks, ResyncTask(t), ~Fails
      PROVE  RunInv'
    <2>1. /\ UNCHANGED <<runState, final>>
          /\ \/ ResyncFailed
             \/ Goto(IF todo = {t} THEN AfterTasks ELSE "resyncTasks", todo \ {t})
        BY <1>4 DEF ResyncTask, Command, Fails, ResyncSteps, localVars
    <2>2. \/ ResyncFailed \/ Goto("resyncTasks", todo \ {t})
          \/ Goto("resyncBeat", todo \ {t}) \/ (Goto("resyncFinal", todo \ {t}) /\ final # NoFinal)
        BY <2>1 DEF AfterTasks
    <2> QED BY <2>1, <2>2, GotoRun, ResyncFailedRun
<1>5. CASE ResyncFinalize /\ ~Fails
    <2>1. Goto("resyncBeat", {}) /\ UNCHANGED <<runState, final>>
        BY <1>5 DEF ResyncFinalize, Command, Fails, ResyncSteps, localVars
    <2> QED BY <2>1, GotoRun
<1>6. CASE ResyncHeartbeat /\ ~Fails
    <2>1. Done \/ Goto("apply", {}) \/ (Goto("write", {}) /\ call.op # "emitRun")
        BY <1>6 DEF ResyncHeartbeat, Command, Fails, ResyncSteps, FirstStep
    <2>2. UNCHANGED <<runState, final>> /\ Known(runState)'
        BY <1>6 DEF ResyncHeartbeat, Command, Fails, ResyncSteps, localVars, RunInv, Known
    <2> QED BY <2>1, <2>2, GotoRun, DoneRun
<1> QED BY <1>1, <1>2, <1>3, <1>4, <1>5, <1>6

LEMMA ApplyRun ==
    ASSUME TypeInv, RunInv, Apply
    PROVE  RunInv'
<1>1. UNCHANGED final
    BY DEF Apply
<1>2. Known(runState)' /\ (call.op = "emitRun" => runState'.status \in Reported)
    BY DEF Apply, Applied, RunInv, Known
<1>3. CASE Done
    BY <1>1, <1>2, <1>3, DoneRun
<1>4. CASE ~Done
    <2>1. /\ step' = "write" /\ UNCHANGED call
          /\ call.op = "emitRun" => previous' = runState
        BY <1>4 DEF Apply
    <2> QED BY <1>1, <1>2, <2>1 DEF RunInv, Known
<1> QED BY <1>3, <1>4

LEMMA WriteRunInv ==
    ASSUME TypeInv, RunInv, WriteRun \/ WriteTask \/ WriteHeartbeat \/ WriteFinalize
    PROVE  RunInv'
<1>1. CASE Fails
    BY <1>1, FailsRun
<1>2. CASE ~Fails
    <2>1. Done /\ UNCHANGED final
        BY <1>2 DEF WriteRun, WriteTask, WriteHeartbeat, WriteFinalize, Command, Fails, ResyncSteps, localVars
    <2>2. runState' = runState \/ (runState' = previous /\ step = "write" /\ call.op = "emitRun")
        BY <1>2 DEF WriteRun, WriteTask, WriteHeartbeat, WriteFinalize, Command, Fails, ResyncSteps, localVars
    <2>3. Known(runState)'
        BY <2>2 DEF RunInv, Known
    <2> QED BY <2>1, <2>3, DoneRun
<1> QED BY <1>1, <1>2

LEMMA AroundRun ==
    ASSUME TypeInv, RunInv,
           \/ Interrupt \/ Kill \/ HeartbeatTTL \/ SchedulerSuspects \/ SchedulerAborts \/ SchedulerReaps
           \/ UNCHANGED vars
    PROVE  RunInv'
<1>1. UNCHANGED localVars
    BY DEF Interrupt, Kill, HeartbeatTTL, SchedulerSuspects, SchedulerAborts, SchedulerReaps, vars
<1>2. (call' = NoCall /\ step' = "idle") \/ UNCHANGED callVars
    BY DEF Interrupt, Kill, HeartbeatTTL, SchedulerSuspects, SchedulerAborts, SchedulerReaps, vars
<1> QED BY <1>1, <1>2 DEF RunInv, Known, localVars, callVars, NoCall

LEMMA RunInvariance == Spec => [](RunInv /\ RunningSetAgrees)
<1>1. Init => RunInv /\ RunningSetAgrees
    BY DEF Init, StoreInit, RunInv, RunningSetAgrees, Known, NoCall
<1>2. TypeInv /\ RunInv /\ RunningSetAgrees /\ [Next]_vars => RunInv' /\ RunningSetAgrees'
    <2> SUFFICES ASSUME TypeInv, RunInv, RunningSetAgrees, [Next]_vars PROVE RunInv' /\ RunningSetAgrees'
        OBVIOUS
    <2>1. RunningSetAgrees'
        BY NextStore, ScriptsAgree
    <2>2. RunInv'
        BY MainRun, ResyncRunInv, ApplyRun, WriteRunInv, AroundRun DEF Next, ReporterStep, Finished
    <2> QED BY <2>1, <2>2
<1> QED BY <1>1, <1>2, TypeInvariance, PTL DEF Spec

\* The set of running runs, kept by the scripts of the reporter and of the
\* scheduler, holds the run exactly when its status is 'running', whatever is
\* lost, replayed, interrupted, aborted or corrected.
THEOREM RunningSetIsRight == Spec => []RunningSetAgrees
BY RunInvariance, PTL

-----------------------------------------------------------------------------
(* The summary counters.                                                    *)

\* Before INITIALIZE no script of a task runs, and it never comes undone.
LEMMA ScriptsEarly ==
    ASSUME TypeInv, EarlyInv, StoreStep
    PROVE  /\ initialized => initialized'
           /\ step = "resyncInit" /\ InitializeRun(tasks) => initialized'
           /\ ~initialized => UNCHANGED taskStatus
<1>1. UNCHANGED storeVars => UNCHANGED <<initialized, taskStatus>>
    BY DEF storeVars, taskVars
<1>2. \A snapshot \in BOOLEAN : RunTransition(runState, snapshot) => UNCHANGED <<initialized, taskStatus>>
    BY <1>1 DEF RunTransition, taskVars
<1>3. InitializeRun(tasks) => initialized' /\ UNCHANGED taskStatus
    BY <1>1 DEF InitializeRun
<1>4. \A t \in Tasks, snapshot \in BOOLEAN : TaskTransition(t, tasks[t], snapshot) => UNCHANGED initialized
    BY <1>1 DEF TaskTransition
<1>5. FinalizeRun(final.status, final.summary) \/ Beat \/ HeartbeatExpires => UNCHANGED <<initialized, taskStatus>>
    BY DEF FinalizeRun, Beat, HeartbeatExpires, taskVars
<1>6. SchedulerTransition("aborted") \/ SchedulerTransition(verdict) => UNCHANGED <<initialized, taskStatus>>
    BY <1>1 DEF SchedulerTransition, taskVars
<1>7. step \in {"resyncTasks", "write"} => initialized
    BY DEF EarlyInv
<1>8. todo \subseteq Tasks /\ (call.op = "emitTask" => call.task \in Tasks)
    BY CallTypes DEF TypeInv, LocalTypes
<1>9. CASE UNCHANGED <<initialized, taskStatus>>
    BY <1>3, <1>9
<1>10. CASE InitializeRun(tasks)
    BY <1>3, <1>10
<1>11. CASE initialized /\ UNCHANGED initialized
    BY <1>11
<1>12. StoreStep => \/ UNCHANGED <<initialized, taskStatus>>
                    \/ InitializeRun(tasks)
                    \/ initialized /\ UNCHANGED initialized
    <2>1. CASE step = "resyncTasks" /\ \E t \in todo : TaskTransition(t, tasks[t], TRUE)
        BY <1>4, <1>7, <1>8, <2>1
    <2>2. CASE step = "write" /\ call.op = "emitTask" /\ TaskTransition(call.task, tasks[call.task], FALSE)
        BY <1>4, <1>7, <1>8, <2>2
    <2> QED BY <1>1, <1>2, <1>5, <1>6, <2>1, <2>2 DEF StoreStep
<1> QED BY <1>9, <1>10, <1>11, <1>12

\* Where main() stands and whether Redis was ever reached.
EarlyControl ==
    /\ mainPc = "initialize" => call = NoCall /\ ~beating
    /\ mainPc = "killed" => call = NoCall /\ ~beating
    /\ ~dirty => initialized \/ mainPc \in {"initialize", "killed"}
    /\ step \in {"resyncRun", "resyncTasks", "resyncFinal", "resyncBeat", "write"} => initialized

LEMMA EnterEarly ==
    ASSUME EarlyControl, NEW c, Enter(c), initialized => initialized',
           mainPc' \notin {"initialize", "killed"}, ~dirty' => initialized
    PROVE  EarlyControl'
BY DEF EarlyControl, Enter, FirstStep

LEMMA MainEarly ==
    ASSUME EarlyControl, MainCall \/ HeartbeatTick, initialized => initialized'
    PROVE  EarlyControl'
<1>1. CASE Initialize
    BY <1>1, EnterEarly DEF Initialize
<1>2. CASE EmitRunning \/ FirstHeartbeat \/ EmitFinal \/ Finalize
    <2>1. PICK c : Enter(c)
        BY <1>2 DEF EmitRunning, FirstHeartbeat, EmitFinal, Finalize
    <2>2. mainPc' \notin {"initialize", "killed"} /\ (~dirty' => initialized)
        BY <1>2 DEF EmitRunning, FirstHeartbeat, EmitFinal, Finalize, EarlyControl
    <2> QED BY <2>1, <2>2, EnterEarly
<1>3. CASE Work \/ AgentProgress \/ AbortPending
    <2>1. PICK c : Enter(c)
        BY <1>3 DEF Work, AgentProgress, AbortPending, EmitTask
    <2>2. mainPc' \notin {"initialize", "killed"} /\ (~dirty' => initialized)
        BY <1>3 DEF Work, AgentProgress, AbortPending, EmitTask, EarlyControl
    <2> QED BY <2>1, <2>2, EnterEarly
<1>4. CASE HeartbeatTick
    BY <1>4, EnterEarly DEF HeartbeatTick, EarlyControl
<1>5. CASE EndWork \/ Exit \/ Flush
    BY <1>5 DEF EndWork, Exit, Flush, EarlyControl, callVars
<1> QED BY <1>1, <1>2, <1>3, <1>4, <1>5 DEF MainCall

LEMMA DoneEarly ==
    ASSUME EarlyControl, call # NoCall, Done, UNCHANGED mainPc, initialized => initialized', ~dirty' => initialized
    PROVE  EarlyControl'
BY DEF EarlyControl, Done

LEMMA GotoEarly ==
    ASSUME EarlyControl, call # NoCall, NEW s, NEW left, Goto(s, left), UNCHANGED mainPc,
           initialized => initialized', ~dirty' => initialized', s # "apply" => initialized'
    PROVE  EarlyControl'
BY DEF EarlyControl, Goto

LEMMA CallEarly ==
    ASSUME TypeInv, EarlyControl, ReporterStep, initialized => initialized',
           step = "resyncInit" /\ InitializeRun(tasks) => initialized'
    PROVE  EarlyControl'
<1>1. call # NoCall
    BY DEF TypeInv, CallInv, ReporterStep, ResyncInitialize, ResyncRun, ResyncTask, ResyncFinalize,
           ResyncHeartbeat, Apply, WriteRun, WriteTask, WriteHeartbeat, WriteFinalize
<1>2. ~dirty => initialized
    BY <1>1 DEF EarlyControl
<1>3. CASE Fails
    <2>1. dirty' = TRUE /\ UNCHANGED mainPc /\ (Done \/ Goto("apply", {}))
        BY <1>3 DEF Fails, ResyncFailed
    <2> QED BY <1>1, <2>1, DoneEarly, GotoEarly
<1>4. CASE ResyncInitialize /\ ~Fails
    <2>1. InitializeRun(tasks) /\ Goto(AfterInit, todo) /\ UNCHANGED <<mainPc, dirty>>
        BY <1>4 DEF ResyncInitialize, Command, Fails, ResyncSteps
    <2>2. initialized'
        BY <1>4, <2>1 DEF ResyncInitialize
    <2> QED BY <1>1, <2>1, <2>2, GotoEarly
<1>5. CASE (ResyncRun \/ ResyncFinalize \/ (\E t \in Tasks : ResyncTask(t))) /\ ~Fails
    <2>1. initialized
        BY <1>5 DEF ResyncRun, ResyncFinalize, ResyncTask, EarlyControl
    <2>2. UNCHANGED <<mainPc, dirty>> /\ (Done \/ \E s, left : Goto(s, left))
        BY <1>5 DEF ResyncRun, ResyncFinalize, ResyncTask, Command, Fails, ResyncSteps, ResyncFailed
    <2> QED BY <1>1, <2>1, <2>2, DoneEarly, GotoEarly
<1>6. CASE ResyncHeartbeat /\ ~Fails
    <2>1. initialized
        BY <1>6 DEF ResyncHeartbeat, EarlyControl
    <2>2. UNCHANGED mainPc /\ (Done \/ \E s, left : Goto(s, left))
        BY <1>6 DEF ResyncHeartbeat, Command, Fails, ResyncSteps
    <2> QED BY <1>1, <2>1, <2>2, DoneEarly, GotoEarly
<1>7. CASE Apply
    <2>1. CASE Done
        BY <1>1, <1>2, <1>7, <2>1, DoneEarly DEF Apply
    <2>2. CASE ~Done
        <3>1. ~dirty /\ step' = "write" /\ UNCHANGED <<call, beating, mainPc, dirty>>
            BY <1>7, <2>2 DEF Apply
        <3> QED BY <1>1, <1>2, <3>1 DEF EarlyControl
    <2> QED BY <2>1, <2>2
<1>8. CASE (WriteRun \/ WriteTask \/ WriteHeartbeat \/ WriteFinalize) /\ ~Fails
    <2>1. Done /\ UNCHANGED <<mainPc, dirty>>
        BY <1>8 DEF WriteRun, WriteTask, WriteHeartbeat, WriteFinalize, Command, Fails, ResyncSteps, localVars
    <2> QED BY <1>1, <1>2, <2>1, DoneEarly
<1> QED BY <1>3, <1>4, <1>5, <1>6, <1>7, <1>8 DEF ReporterStep

LEMMA AroundEarly ==
    ASSUME EarlyControl,
           \/ Interrupt \/ Kill \/ HeartbeatTTL \/ SchedulerSuspects \/ SchedulerAborts \/ SchedulerReaps
           \/ UNCHANGED vars,
           initialized => initialized'
    PROVE  EarlyControl'
<1>1. CASE Interrupt
    <2>1. /\ mainPc' = "aborting" /\ UNCHANGED <<dirty, beating>> /\ InTry
          /\ (call' = NoCall /\ step' = "idle") \/ UNCHANGED callVars
        BY <1>1 DEF Interrupt
    <2>2. mainPc \notin {"initialize", "killed"}
        BY <2>1 DEF InTry, EarlyControl, NoCall
    <2> QED BY <2>1, <2>2 DEF EarlyControl, callVars
<1>2. CASE Kill
    BY <1>2 DEF Kill, EarlyControl
<1>3. CASE HeartbeatTTL \/ SchedulerSuspects \/ SchedulerAborts \/ SchedulerReaps \/ UNCHANGED vars
    BY <1>3 DEF HeartbeatTTL, SchedulerSuspects, SchedulerAborts, SchedulerReaps, vars, EarlyControl,
                analyzerVars, callVars
<1> QED BY <1>1, <1>2, <1>3

LEMMA NextEarly ==
    ASSUME TypeInv, EarlyInv, [Next]_vars
    PROVE  EarlyInv'
<1>1. /\ initialized => initialized'
      /\ step = "resyncInit" /\ InitializeRun(tasks) => initialized'
      /\ ~initialized => UNCHANGED taskStatus
    BY NextStore, ScriptsEarly
<1>2. EarlyControl
    BY DEF EarlyInv, EarlyControl
<1>3. EarlyControl'
    BY <1>1, <1>2, MainEarly, CallEarly, AroundEarly DEF Next, Finished
<1> QED BY <1>1, <1>3 DEF EarlyInv, EarlyControl

\* Moving one task of a status hash moves the tally by one.
LEMMA TallyMoves ==
    ASSUME NEW f \in [Tasks -> TaskStatus], NEW t \in Tasks, NEW new \in TaskStatus
    PROVE  Tally([f EXCEPT ![t] = new]) =
             IF t \in Counted /\ f[t] # new
             THEN [Tally(f) EXCEPT ![f[t]] = @ - 1, ![new] = @ + 1] ELSE Tally(f)
<1> DEFINE g == [f EXCEPT ![t] = new]
           In(h, s) == {u \in Counted : h[u] = s}
<1>1. \A s \in TaskStatus : IsFiniteSet(In(f, s)) /\ Cardinality(In(f, s)) \in Nat
    BY TasksAssumption, FS_Subset, FS_CardinalityType
<1>2. CASE t \notin Counted \/ f[t] = new
    <2>1. \A s \in TaskStatus : In(g, s) = In(f, s)
        BY <1>2, TasksAssumption
    <2> QED BY <1>2, <2>1 DEF Tally
<1>3. CASE t \in Counted /\ f[t] # new
    <2>1. In(g, f[t]) = In(f, f[t]) \ {t} /\ t \in In(f, f[t])
        BY <1>3, TasksAssumption
    <2>2. Cardinality(In(g, f[t])) = Cardinality(In(f, f[t])) - 1
        <3>1. IsFiniteSet(In(f, f[t]))
            BY <1>1
        <3> HIDE DEF In
        <3>2. Cardinality(In(f, f[t]) \ {t}) = Cardinality(In(f, f[t])) - 1
            BY <2>1, <3>1, FS_RemoveElement
        <3> QED BY <2>1, <3>2
    <2>3. In(g, new) = In(f, new) \union {t} /\ t \notin In(f, new)
        BY <1>3, TasksAssumption
    <2>4. Cardinality(In(g, new)) = Cardinality(In(f, new)) + 1
        BY <1>1, <2>3, FS_AddElement
    <2>5. \A s \in TaskStatus \ {f[t], new} : In(g, s) = In(f, s)
        BY <1>3, TasksAssumption
    <2>6. Tally(g) = [s \in TaskStatus |-> Cardinality(In(g, s))]
        BY DEF Tally
    <2>7. Tally(f) = [s \in TaskStatus |-> Cardinality(In(f, s))]
        BY DEF Tally
    <2>8. \A s \in TaskStatus : Cardinality(In(g, s)) =
             IF s = f[t] THEN Cardinality(In(f, s)) - 1
             ELSE IF s = new THEN Cardinality(In(f, s)) + 1 ELSE Cardinality(In(f, s))
        BY <1>3, <2>2, <2>4, <2>5
    <2> HIDE DEF In
    <2>9. Tally(g) = [Tally(f) EXCEPT ![f[t]] = @ - 1, ![new] = @ + 1]
        BY <1>3, <2>6, <2>7, <2>8
    <2> QED BY <1>3, <2>9
<1> QED BY <1>2, <1>3

\* INITIALIZE counts every node as pending.
LEMMA TallyStarts ==
    ASSUME NEW f \in [Tasks -> TaskStatus], \A t \in Tasks : f[t] = "pending"
    PROVE  Tally(f) = [NoCounts EXCEPT !["pending"] = Cardinality(Counted)]
<1>1. {t \in Counted : f[t] = "pending"} = Counted
    BY TasksAssumption
<1>2. \A s \in TaskStatus \ {"pending"} : {t \in Counted : f[t] = s} = {}
    BY TasksAssumption
<1>3. Cardinality({}) = 0
    BY FS_EmptySet
<1>4. \A s \in TaskStatus : Cardinality({t \in Counted : f[t] = s}) =
         IF s = "pending" THEN Cardinality(Counted) ELSE 0
    BY <1>1, <1>2, <1>3
<1> QED BY <1>4 DEF Tally, NoCounts

\* Only finalize_run says what the summary is, and it is never forgotten.
LEMMA FinalKept ==
    ASSUME [Next]_vars, ~Finalize
    PROVE  final' = final
<1>1. CASE MainCall \/ HeartbeatTick
    BY <1>1 DEF MainCall, HeartbeatTick, Initialize, EmitRunning, FirstHeartbeat, Work, AgentProgress,
                EndWork, AbortPending, EmitTask, EmitFinal, Flush, Exit, localVars
<1>2. CASE ReporterStep
    BY <1>2 DEF ReporterStep, ResyncInitialize, ResyncRun, ResyncTask, ResyncFinalize, ResyncHeartbeat,
                Apply, WriteRun, WriteTask, WriteHeartbeat, WriteFinalize, Command, localVars
<1>3. CASE Interrupt \/ Kill \/ HeartbeatTTL
    BY <1>3 DEF Interrupt, Kill, HeartbeatTTL, localVars
<1>4. CASE SchedulerSuspects \/ SchedulerAborts \/ SchedulerReaps \/ Finished \/ UNCHANGED vars
    BY <1>4 DEF SchedulerSuspects, SchedulerAborts, SchedulerReaps, Finished, vars, localVars
<1> QED BY <1>1, <1>2, <1>3, <1>4 DEF Next

LEMMA FinalStays ==
    ASSUME TypeInv, [Next]_vars
    PROVE  final' = NoFinal => final = NoFinal
<1>1. CASE Finalize
    BY <1>1 DEF Finalize, NoFinal, TypeInv, LocalTypes
<1> QED BY <1>1, FinalKept

\* A script that writes the summary of finalize_run.
Finalizing == step = "resyncFinal" \/ (step = "write" /\ call.op = "finalize")

\* The scripts keep the counters and the task_status hash together, if the
\* summary that finalize_run writes is right.
LEMMA ScriptsTally ==
    ASSUME TypeInv, EarlyInv, initialized => counts = Tally(taskStatus), StoreStep,
           Finalizing => final.summary = Tally(taskStatus)
    PROVE  initialized' => counts' = Tally(taskStatus')
<1> SUFFICES ASSUME initialized' PROVE counts' = Tally(taskStatus')
    OBVIOUS
<1>1. initialized => counts = Tally(taskStatus)
    OBVIOUS
<1>2. CASE UNCHANGED <<initialized, counts, taskStatus>>
    BY <1>1, <1>2
<1>3. CASE InitializeRun(tasks) /\ ~initialized
    <2>1. taskStatus \in [Tasks -> TaskStatus] /\ \A t \in Tasks : taskStatus[t] = "pending"
        BY <1>3 DEF TypeInv, StoreTypeOK, EarlyInv
    <2>2. Tally(taskStatus) = [NoCounts EXCEPT !["pending"] = Cardinality(Counted)]
        BY <2>1, TallyStarts
    <2> QED BY <1>3, <2>2 DEF InitializeRun
<1>4. ASSUME NEW t \in Tasks, NEW snapshot, step \in {"resyncTasks", "write"},
             TaskTransition(t, tasks[t], snapshot), TaskReply(t, tasks[t], snapshot) = "accepted"
      PROVE  counts' = Tally(taskStatus')
    <2>1. counts = Tally(taskStatus)
        BY <1>1, <1>4 DEF EarlyInv
    <2>2. tasks[t].status \in TaskStatus /\ taskStatus \in [Tasks -> TaskStatus]
        BY DEF TypeInv, LocalTypes, StoreTypeOK, Snapshot
    <2>3. taskStatus' = [taskStatus EXCEPT ![t] = tasks[t].status]
        BY <1>4 DEF TaskTransition
    <2>4. counts' = IF t \in Counted /\ taskStatus[t] # tasks[t].status
                    THEN [counts EXCEPT ![taskStatus[t]] = @ - 1, ![tasks[t].status] = @ + 1] ELSE counts
        BY <1>4 DEF TaskTransition, Moved
    <2>5. Tally([taskStatus EXCEPT ![t] = tasks[t].status]) =
             IF t \in Counted /\ taskStatus[t] # tasks[t].status
             THEN [Tally(taskStatus) EXCEPT ![taskStatus[t]] = @ - 1, ![tasks[t].status] = @ + 1]
             ELSE Tally(taskStatus)
        BY <2>2, TallyMoves
    <2>6. Tally(taskStatus') = Tally([taskStatus EXCEPT ![t] = tasks[t].status])
        BY <2>3
    <2> QED BY <2>1, <2>4, <2>5, <2>6
<1>5. StoreStep =>
         \/ UNCHANGED <<initialized, counts, taskStatus>>
         \/ Finalizing /\ FinalizeRun(final.status, final.summary)
         \/ InitializeRun(tasks) /\ ~initialized
         \/ \E t \in Tasks, snapshot \in BOOLEAN :
               /\ step \in {"resyncTasks", "write"}
               /\ TaskTransition(t, tasks[t], snapshot) /\ TaskReply(t, tasks[t], snapshot) = "accepted"
    <2>1. UNCHANGED storeVars => UNCHANGED <<initialized, counts, taskStatus>>
        BY DEF storeVars, taskVars
    <2>2. InitializeRun(tasks) => ~initialized \/ UNCHANGED <<initialized, counts, taskStatus>>
        BY <2>1 DEF InitializeRun
    <2>3. \A snapshot \in BOOLEAN : RunTransition(runState, snapshot) => UNCHANGED <<initialized, counts, taskStatus>>
        BY <2>1 DEF RunTransition, taskVars
    <2>4. \A t \in Tasks, snapshot \in BOOLEAN :
             /\ TaskTransition(t, tasks[t], snapshot)
             /\ TaskReply(t, tasks[t], snapshot) # "accepted"
             => UNCHANGED <<initialized, counts, taskStatus>>
        BY <2>1 DEF TaskTransition
    <2>6. Beat \/ HeartbeatExpires => UNCHANGED <<initialized, counts, taskStatus>>
        BY DEF Beat, HeartbeatExpires, taskVars
    <2>7. SchedulerTransition("aborted") \/ SchedulerTransition(verdict)
             => UNCHANGED <<initialized, counts, taskStatus>>
        BY <2>1 DEF SchedulerTransition, taskVars
    <2>8. CASE step = "resyncTasks" /\ \E t \in todo : TaskTransition(t, tasks[t], TRUE)
        <3>1. todo \subseteq Tasks
            BY DEF TypeInv, LocalTypes
        <3> QED BY <2>4, <2>8, <3>1
    <2>9. CASE step = "write" /\ call.op = "emitTask" /\ TaskTransition(call.task, tasks[call.task], FALSE)
        <3>1. call.task \in Tasks
            BY <2>9, CallTypes DEF TypeInv, LocalTypes
        <3> QED BY <2>4, <2>9, <3>1
    <2> QED BY <2>1, <2>2, <2>3, <2>6, <2>7, <2>8, <2>9 DEF StoreStep, Finalizing
<1>6. CASE \E t \in Tasks, snapshot \in BOOLEAN :
              /\ step \in {"resyncTasks", "write"}
              /\ TaskTransition(t, tasks[t], snapshot) /\ TaskReply(t, tasks[t], snapshot) = "accepted"
    BY <1>4, <1>6
<1>7. CASE Finalizing /\ FinalizeRun(final.status, final.summary)
    BY <1>7 DEF FinalizeRun, taskVars
<1> QED BY <1>2, <1>3, <1>5, <1>6, <1>7

LEMMA ScriptsCount ==
    ASSUME TypeInv, EarlyInv, RunInv, CountersFollow, StoreStep, final' = NoFinal => final = NoFinal
    PROVE  CountersFollow'
<1> SUFFICES ASSUME initialized', final' = NoFinal PROVE counts' = Tally(taskStatus')
    BY DEF CountersFollow, Tally
<1>1. final = NoFinal /\ (initialized => counts = Tally(taskStatus))
    BY DEF CountersFollow
<1>2. ~Finalizing
    BY <1>1 DEF RunInv, Finalizing
<1> QED BY <1>1, <1>2, ScriptsTally

\* Until finalize_run is called the summary counters of the meta hash are the
\* tally of the task_status hash over the nodes (the HINCRBY of
\* TASK_TRANSITION_LUA), whatever was lost, replayed, sent twice or cut short.
THEOREM CountersFollowTasks == Spec => []CountersFollow
<1>1. Init => EarlyInv /\ CountersFollow
    BY DEF Init, StoreInit, EarlyInv, CountersFollow
<1>2. TypeInv /\ RunInv /\ EarlyInv /\ CountersFollow /\ [Next]_vars => EarlyInv' /\ CountersFollow'
    BY NextStore, NextEarly, FinalStays, ScriptsCount
<1> QED BY <1>1, <1>2, TypeInvariance, RunInvariance, PTL DEF Spec
-----------------------------------------------------------------------------
(* Redis follows the local snapshots.                                       *)

\* The write of a task's snapshot is under way.
Writing(t) == step = "write" /\ call.op = "emitTask" /\ call.task = t

\* A snapshot that Redis has is an older one, or the same.
Behind(old, new) == old.rev <= new.rev /\ (old.rev = new.rev => old = new)

\* Which part of main() a call belongs to.
CallPcs ==
    /\ call.op = "initialize" => mainPc = "running"
    /\ call.op = "emitTask" => mainPc \in {"working", "aborting"}
    /\ call.op = "emitRun" => \/ mainPc = "beat" /\ call.status = "running"
                              \/ mainPc = "finalize" /\ call.status = verdict
    /\ call.op = "finalize" => mainPc = "flush"
    /\ interrupted => Interrupts /\ mainPc \in {"aborting", "finalize", "flush", "close", "leave", "exited"}

\* A resync goes on until the reporter is in step; only then it writes.
Resyncing ==
    /\ step \in ResyncSteps => dirty
    /\ step = "write" => ~dirty
    /\ step \in {"resyncFinal", "resyncBeat"} => todo = {}

\* The reporter has not got to the INITIALIZE command yet.
Fresh ==
    /\ \/ mainPc = "initialize" /\ call = NoCall
       \/ mainPc = "running" /\ call.op = "initialize" /\ step = "resyncInit" /\ dirty
    /\ ~beating /\ ~interrupted /\ todo = {}
    /\ \A t \in Tasks : tasks[t] = NoSnapshot /\ states[t] = "pending" /\ taskData[t] = NoData

\* What is emitted is a move that AnalysisReporting allows; after a Ctrl-C it
\* is an abort.
Emitting ==
    call.op = "emitTask" =>
        /\ states[call.task] \notin TaskTerminal
        /\ TaskAllowed(states[call.task], call.status, FALSE)
        /\ interrupted => call.status = "aborted"

\* AnalysisReporting and the reporter agree on a task.
Agreed(t) ==
    /\ states[t] \in TaskTerminal => tasks[t].status \in TaskTerminal
    /\ ~interrupted /\ ~Writing(t) => states[t] = tasks[t].status

\* What Redis has of a task is what the reporter said of it, lately or before.
Followed(t) ==
    /\ taskStatus[t] = taskData[t].status
    /\ taskData[t].rev >= 0
    /\ Behind(taskData[t], tasks[t])
    /\ ~interrupted /\ taskData[t].status \in TaskTerminal => taskData[t] = tasks[t]

\* A write puts the next snapshot in the place of one that Redis has, unless
\* the write before it was cut short.
Replaces(t) ==
    Writing(t) =>
        /\ tasks[t].status = call.status /\ tasks[t].rev = previous.rev + 1
        /\ Behind(taskData[t], previous)
        /\ ~interrupted => previous.status = states[t]
        /\ taskData[t] = previous \/ (interrupted /\ taskData[t].status \notin TaskTerminal)

\* An online reporter is in step, but for the write under way and for a task
\* whose write was cut short and that main() will abort.
Caught(t) ==
    /\ ~dirty => \/ taskData[t] = tasks[t] \/ Writing(t)
                 \/ interrupted /\ states[t] \notin TaskTerminal /\ taskData[t].status \notin TaskTerminal
    /\ step \in ResyncSteps /\ t \notin todo => taskData[t] = tasks[t]

Tracked(t) == Agreed(t) /\ Followed(t) /\ Replaces(t) /\ Caught(t)

FollowInv ==
    mainPc # "killed" =>
        /\ ~initialized => Fresh
        /\ initialized => mainPc # "initialize" /\ Emitting /\ \A t \in Tasks : Tracked(t)

-----------------------------------------------------------------------------
(* Where main() stands when a call is made.                                 *)

ControlInv == mainPc # "killed" => CallPcs /\ Resyncing

LEMMA MainControl ==
    ASSUME TypeInv, ControlInv, mainPc # "killed", MainCall \/ HeartbeatTick
    PROVE  ControlInv'
<1>1. CallPcs /\ Resyncing /\ (call = NoCall => step = "idle") /\ NoCall.op = "none"
    BY DEF ControlInv, TypeInv, LocalTypes, CallInv, Steps, ResyncSteps, NoCall, Emits
<1>2. "apply" \notin ResyncSteps /\ "write" \notin ResyncSteps /\ "idle" \notin ResyncSteps
    BY DEF ResyncSteps
<1>3. CASE \E c : Enter(c)
    <2>1. PICK c : Enter(c)
        BY <1>3
    <2>2. call = NoCall /\ call' = c /\ step' = IF dirty' THEN "resyncInit" ELSE FirstStep(c)
        BY <2>1 DEF Enter
    <2>3. Resyncing'
        BY <1>2, <2>2 DEF Resyncing, FirstStep
    <2>4. CASE Initialize \/ EmitRunning \/ FirstHeartbeat \/ EmitFinal \/ Finalize
        BY <1>1, <2>2, <2>3, <2>4 DEF ControlInv, CallPcs, Initialize, EmitRunning, FirstHeartbeat, EmitFinal, Finalize, Enter
    <2>5. CASE Work \/ AgentProgress \/ AbortPending \/ HeartbeatTick
        <3>1. UNCHANGED <<verdict, interrupted>> /\ mainPc' = mainPc
            BY <2>5 DEF Work, AgentProgress, AbortPending, EmitTask, HeartbeatTick
        <3>2. c.op = "heartbeat" \/ (c.op = "emitTask" /\ mainPc \in {"working", "aborting"})
            <4>1. CASE Work \/ AbortPending
                <5>1. PICK t \in Tasks, s \in TaskStatus : EmitTask(t, s)
                    BY <4>1 DEF Work, AbortPending, TaskStatus
                <5>2. call' = [by |-> "main", op |-> "emitTask", task |-> t, status |-> s]
                    BY <5>1 DEF EmitTask, Enter
                <5> QED BY <2>2, <4>1, <5>2 DEF Work, AbortPending
            <4>2. CASE AgentProgress
                <5>1. PICK t \in Tasks : Enter([by |-> "main", op |-> "emitTask", task |-> t, status |-> "running"])
                    BY <4>2 DEF AgentProgress
                <5>2. call' = [by |-> "main", op |-> "emitTask", task |-> t, status |-> "running"]
                    BY <5>1 DEF Enter
                <5> QED BY <2>2, <4>2, <5>2 DEF AgentProgress
            <4>3. CASE HeartbeatTick
                BY <2>2, <4>3 DEF HeartbeatTick, Enter
            <4> QED BY <2>5, <4>1, <4>2, <4>3
        <3> QED BY <1>1, <2>2, <2>3, <3>1, <3>2 DEF ControlInv, CallPcs
    <2>6. CASE EndWork \/ Flush \/ Exit
        BY <1>1, <2>2, <2>3, <2>6 DEF ControlInv, CallPcs, EndWork, Flush, Exit, callVars
    <2> QED BY <2>4, <2>5, <2>6 DEF MainCall
<1>4. CASE EndWork
    <2>1. call.op # "emitTask" /\ call.op # "emitRun"
        BY <1>4 DEF EndWork, TypeInv, LocalTypes, Calls, NoCall
    <2> QED BY <1>1, <1>4, <2>1 DEF EndWork, ControlInv, CallPcs, Resyncing, callVars
<1>5. CASE Exit
    BY <1>1, <1>5 DEF Exit, ControlInv, CallPcs, Resyncing, callVars
<1>6. CASE Flush
    <2>1. CallPcs'
        BY <1>1, <1>6 DEF Flush, CallPcs
    <2>2. Resyncing'
        BY <1>1, <1>2, <1>6 DEF Flush, Resyncing
    <2> QED BY <2>1, <2>2 DEF ControlInv
<1>7. MainCall \/ HeartbeatTick => (\E c : Enter(c)) \/ EndWork \/ Exit \/ Flush
    BY DEF MainCall, Initialize, EmitRunning, FirstHeartbeat, Work, AgentProgress, AbortPending, EmitTask, EmitFinal,
           Finalize, HeartbeatTick
<1> QED BY <1>3, <1>4, <1>5, <1>6, <1>7

\* A call that goes on, or ends.
LEMMA StepControl ==
    ASSUME TypeInv, ControlInv, ReporterStep
    PROVE  ControlInv'
<1> SUFFICES ASSUME mainPc # "killed", CallPcs, Resyncing PROVE CallPcs' /\ Resyncing'
    BY DEF ControlInv, ReporterStep, ResyncInitialize, ResyncRun, ResyncTask, ResyncFinalize, ResyncHeartbeat,
           Apply, WriteRun, WriteTask, WriteHeartbeat, WriteFinalize, Command
<1>1. "apply" \notin ResyncSteps /\ "write" \notin ResyncSteps /\ "idle" \notin ResyncSteps /\ NoCall.op = "none"
    BY DEF ResyncSteps, NoCall
<1>2. UNCHANGED <<mainPc, verdict, interrupted>> /\ (call' = call \/ call' = NoCall)
    BY DEF ReporterStep, ResyncInitialize, ResyncRun, ResyncTask, ResyncFinalize, ResyncHeartbeat,
           Apply, WriteRun, WriteTask, WriteHeartbeat, WriteFinalize, Command, Done, Goto, ResyncFailed
<1>3. CallPcs'
    BY <1>1, <1>2 DEF CallPcs
<1>4. CASE Fails
    <2>1. step' \in {"apply", "idle"}
        BY <1>4 DEF Fails, ResyncFailed, Done, Goto
    <2> QED BY <1>1, <1>3, <2>1 DEF Resyncing
<1>5. CASE ResyncInitialize /\ ~Fails
    <2>1. Goto(AfterInit, todo) /\ UNCHANGED dirty /\ dirty
        BY <1>5 DEF ResyncInitialize, Command, Fails, Resyncing, ResyncSteps
    <2>2. AfterInit \in ResyncSteps /\ (AfterInit \in {"resyncFinal", "resyncBeat"} => todo = {})
        BY DEF AfterInit, AfterRun, AfterTasks, ResyncSteps
    <2> QED BY <1>1, <1>3, <2>1, <2>2 DEF Goto, Resyncing
<1>6. CASE ResyncRun /\ ~Fails
    <2>1. (ResyncFailed \/ Goto(AfterRun, todo)) /\ UNCHANGED dirty /\ dirty
        BY <1>6 DEF ResyncRun, Command, Fails, Resyncing, ResyncSteps
    <2>2. AfterRun \in ResyncSteps /\ (AfterRun \in {"resyncFinal", "resyncBeat"} => todo = {})
        BY DEF AfterRun, AfterTasks, ResyncSteps
    <2> QED BY <1>1, <1>3, <2>1, <2>2 DEF Goto, ResyncFailed, Done, Resyncing
<1>7. ASSUME NEW t \in Tasks, ResyncTask(t), ~Fails PROVE Resyncing'
    <2>1. /\ ResyncFailed \/ Goto(IF todo = {t} THEN AfterTasks ELSE "resyncTasks", todo \ {t})
          /\ UNCHANGED dirty /\ dirty
        BY <1>7 DEF ResyncTask, Command, Fails, Resyncing, ResyncSteps
    <2>2. AfterTasks \in ResyncSteps /\ "resyncTasks" \in ResyncSteps
        BY DEF AfterTasks, ResyncSteps
    <2> QED BY <1>1, <2>1, <2>2 DEF Goto, ResyncFailed, Done, Resyncing
<1>8. CASE ResyncFinalize /\ ~Fails
    <2>1. Goto("resyncBeat", {}) /\ UNCHANGED dirty /\ dirty
        BY <1>8 DEF ResyncFinalize, Command, Fails, Resyncing, ResyncSteps
    <2> QED BY <1>1, <1>3, <2>1 DEF Goto, Resyncing
<1>9. CASE ResyncHeartbeat /\ ~Fails
    <2>1. dirty' = FALSE /\ (Done \/ Goto(FirstStep(call), {}))
        BY <1>9 DEF ResyncHeartbeat, Command, Fails, ResyncSteps
    <2> QED BY <1>1, <1>3, <2>1 DEF Goto, Done, FirstStep, Resyncing
<1>10. CASE Apply
    BY <1>1, <1>3, <1>10 DEF Apply, Done, Resyncing
<1>11. CASE (WriteRun \/ WriteTask \/ WriteHeartbeat \/ WriteFinalize) /\ ~Fails
    <2>1. Done
        BY <1>11 DEF WriteRun, WriteTask, WriteHeartbeat, WriteFinalize, Command, Fails, ResyncSteps
    <2> QED BY <1>1, <1>3, <2>1 DEF Done, Resyncing
<1> QED BY <1>3, <1>4, <1>5, <1>6, <1>7, <1>8, <1>9, <1>10, <1>11 DEF ReporterStep

LEMMA AroundControl ==
    ASSUME TypeInv, EarlyInv, ControlInv,
           \/ Interrupt \/ Kill \/ HeartbeatTTL \/ SchedulerSuspects \/ SchedulerAborts \/ SchedulerReaps
           \/ UNCHANGED vars
    PROVE  ControlInv'
<1>1. CASE Interrupt
    <2>1. mainPc # "killed" /\ NoCall.op = "none" /\ "idle" \notin ResyncSteps /\ "idle" # "write"
        <3>1. mainPc = "killed" => call = NoCall
            BY DEF EarlyInv
        <3> QED BY <1>1, <3>1 DEF Interrupt, InTry, ResyncSteps, NoCall
    <2>2. CASE call.by = "main"
        BY <1>1, <2>1, <2>2 DEF Interrupt, ControlInv, CallPcs, Resyncing
    <2>3. CASE call.by # "main"
        <3>1. call.op \in {"heartbeat", "none"}
            BY <2>3 DEF TypeInv, LocalTypes, Calls, NoCall
        <3> QED BY <1>1, <2>1, <2>3, <3>1 DEF Interrupt, ControlInv, CallPcs, Resyncing, callVars
    <2> QED BY <2>2, <2>3
<1>2. CASE Kill
    BY <1>2 DEF Kill, ControlInv
<1>3. CASE HeartbeatTTL \/ SchedulerSuspects \/ SchedulerAborts \/ SchedulerReaps \/ UNCHANGED vars
    BY <1>3 DEF HeartbeatTTL, SchedulerSuspects, SchedulerAborts, SchedulerReaps, vars, ControlInv, CallPcs, Resyncing,
                analyzerVars, callVars
<1> QED BY <1>1, <1>2, <1>3

\* Nothing goes on in a process that was killed.
LEMMA KilledStays ==
    ASSUME TypeInv, EarlyInv, [Next]_vars, mainPc = "killed"
    PROVE  mainPc' = "killed" /\ ~MainCall /\ ~HeartbeatTick /\ ~ReporterStep /\ ~Interrupt /\ ~Kill
<1>1. call = NoCall /\ ~beating /\ step = "idle"
    BY DEF EarlyInv, TypeInv, LocalTypes, CallInv, Steps, ResyncSteps, Emits, NoCall
<1>2. ~MainCall /\ ~HeartbeatTick
    BY <1>1 DEF MainCall, Initialize, EmitRunning, FirstHeartbeat, Work, AgentProgress, EndWork, AbortPending,
                EmitFinal, Finalize, Flush, Exit, HeartbeatTick
<1>3. ~ReporterStep
    BY <1>1 DEF ReporterStep, ResyncInitialize, ResyncRun, ResyncTask, ResyncFinalize, ResyncHeartbeat,
                Apply, WriteRun, WriteTask, WriteHeartbeat, WriteFinalize
<1>4. ~Interrupt /\ ~Kill
    BY <1>1 DEF Interrupt, InTry, NoCall, Kill, Gone
<1>5. CASE HeartbeatTTL \/ SchedulerSuspects \/ SchedulerAborts \/ SchedulerReaps \/ Finished \/ UNCHANGED vars
    BY <1>2, <1>3, <1>4, <1>5 DEF HeartbeatTTL, SchedulerSuspects, SchedulerAborts, SchedulerReaps, Finished, vars, analyzerVars
<1> QED BY <1>2, <1>3, <1>4, <1>5 DEF Next

LEMMA NextControl ==
    ASSUME TypeInv, EarlyInv, ControlInv, [Next]_vars
    PROVE  ControlInv'
<1>1. CASE mainPc = "killed"
    BY <1>1, KilledStays DEF ControlInv
<1>2. CASE mainPc # "killed"
    BY <1>2, MainControl, StepControl, AroundControl DEF Next, Finished
<1> QED BY <1>1, <1>2
-----------------------------------------------------------------------------
(* What Redis has of one task.                                              *)

\* A step leaves a task alone, or writes the local snapshot of it.
Kept(t) == taskStatus'[t] = taskStatus[t] /\ taskData'[t] = taskData[t]
Said(t) ==
    /\ taskStatus'[t] = tasks[t].status /\ taskData'[t] = tasks[t]
    /\ Writing(t) \/ (step = "resyncTasks" /\ t \in todo)

LEMMA ScriptsSay ==
    ASSUME TypeInv, StoreStep, initialized, NEW t \in Tasks
    PROVE  initialized' /\ (Kept(t) \/ Said(t))
<1>1. UNCHANGED storeVars => UNCHANGED <<initialized, taskStatus, taskData>>
    BY DEF storeVars, taskVars
<1>2. CASE UNCHANGED <<initialized, taskStatus, taskData>>
    BY <1>2 DEF Kept
<1>3. ASSUME NEW u \in Tasks, NEW snapshot, TaskTransition(u, tasks[u], snapshot),
             Writing(u) \/ (step = "resyncTasks" /\ u \in todo)
      PROVE  initialized' /\ (Kept(t) \/ Said(t))
    <2>1. CASE TaskReply(u, tasks[u], snapshot) # "accepted"
        BY <1>1, <1>2, <1>3, <2>1 DEF TaskTransition
    <2>2. CASE TaskReply(u, tasks[u], snapshot) = "accepted"
        <3>1. /\ taskStatus' = [taskStatus EXCEPT ![u] = tasks[u].status]
              /\ taskData' = [taskData EXCEPT ![u] = tasks[u]]
              /\ initialized'
            BY <1>3, <2>2 DEF TaskTransition
        <3>2. u # t => Kept(t)
            BY <3>1 DEF TypeInv, StoreTypeOK, Kept
        <3>3. u = t => Said(t)
            BY <1>3, <3>1 DEF TypeInv, StoreTypeOK, Said
        <3> QED BY <3>1, <3>2, <3>3
    <2> QED BY <2>1, <2>2
<1>4. CASE step = "resyncTasks" /\ \E u \in todo : TaskTransition(u, tasks[u], TRUE)
    <2>1. todo \subseteq Tasks
        BY DEF TypeInv, LocalTypes
    <2> QED BY <1>3, <1>4, <2>1
<1>5. CASE step = "write" /\ call.op = "emitTask" /\ TaskTransition(call.task, tasks[call.task], FALSE)
    <2>1. call.task \in Tasks /\ Writing(call.task)
        BY <1>5, CallTypes DEF TypeInv, LocalTypes, Writing
    <2> QED BY <1>3, <1>5, <2>1
<1>6. InitializeRun(tasks) => UNCHANGED <<initialized, taskStatus, taskData>>
    BY <1>1 DEF InitializeRun
<1>7. \A snapshot \in BOOLEAN : RunTransition(runState, snapshot) => UNCHANGED <<initialized, taskStatus, taskData>>
    BY <1>1 DEF RunTransition, taskVars
<1>8. FinalizeRun(final.status, final.summary) \/ Beat \/ HeartbeatExpires
          => UNCHANGED <<initialized, taskStatus, taskData>>
    BY DEF FinalizeRun, Beat, HeartbeatExpires, taskVars
<1>9. SchedulerTransition("aborted") \/ SchedulerTransition(verdict)
          => UNCHANGED <<initialized, taskStatus, taskData>>
    BY <1>1 DEF SchedulerTransition, taskVars
<1> QED BY <1>1, <1>2, <1>4, <1>5, <1>6, <1>7, <1>8, <1>9 DEF StoreStep

\* Whatever is said, Redis has no more than the reporter.
LEMMA FollowedStays ==
    ASSUME TypeInv, NEW t \in Tasks, Followed(t), Kept(t) \/ Said(t), tasks'[t] = tasks[t],
           interrupted => interrupted'
    PROVE  Followed(t)'
<1>1. CASE Kept(t)
    BY <1>1 DEF Kept, Followed, Behind
<1>2. CASE Said(t)
    <2>1. tasks[t].rev >= 0
        BY DEF TypeInv, LocalTypes, Snapshot
    <2> QED BY <1>2, <2>1 DEF Said, Followed, Behind, TypeInv, LocalTypes, Snapshot
<1> QED BY <1>1, <1>2

\* A task whose snapshot has never changed is in step.
LEMMA NeverChanged ==
    ASSUME TypeInv, NEW t \in Tasks, Followed(t), tasks[t].rev = 0
    PROVE  taskData[t] = tasks[t]
BY DEF Followed, Behind, TypeInv, StoreTypeOK, Snapshot, NoData

\* A call that takes the lock replays all that ever changed, if it has to.
LEMMA EnterTracked ==
    ASSUME TypeInv, ControlInv, mainPc # "killed", initialized, NEW c, Enter(c), NEW t \in Tasks, Tracked(t),
           UNCHANGED <<interrupted, tasks, dirty>>
    PROVE  Tracked(t)'
<1>1. /\ call' = c /\ step' = (IF dirty' THEN "resyncInit" ELSE FirstStep(c))
      /\ todo' = {u \in Tasks : tasks[u].rev # 0}
      /\ UNCHANGED <<states, taskStatus, taskData>>
    BY DEF Enter, storeVars, taskVars
<1>2. step = "idle" /\ ~Writing(t) /\ step \notin ResyncSteps
    BY DEF Enter, TypeInv, LocalTypes, CallInv, NoCall, Emits, Steps, ResyncSteps, ControlInv, Writing
<1>3. ~Writing(t)'
    BY <1>1 DEF Writing, FirstStep
<1>4. Followed(t)'
    BY <1>1, FollowedStays DEF Tracked, Kept
<1>5. Caught(t)'
    <2>1. ~dirty' => step' \notin ResyncSteps
        BY <1>1 DEF FirstStep, ResyncSteps
    <2>2. t \notin todo' => taskData[t] = tasks[t]
        BY <1>1, NeverChanged DEF Tracked
    <2>3. ~dirty => \/ taskData[t] = tasks[t]
                    \/ interrupted /\ states[t] \notin TaskTerminal /\ taskData[t].status \notin TaskTerminal
        BY <1>2 DEF Tracked, Caught
    <2> QED BY <1>1, <1>2, <2>1, <2>2, <2>3 DEF Caught
<1>6. Agreed(t)'
    BY <1>1, <1>2 DEF Tracked, Agreed
<1> QED BY <1>3, <1>4, <1>5, <1>6 DEF Tracked, Replaces

\* flush() does the same; the other steps of main() leave the tasks alone.
LEMMA QuietTracked ==
    ASSUME TypeInv, ControlInv, mainPc # "killed", initialized, NEW t \in Tasks, Tracked(t),
           EndWork \/ Exit \/ Flush
    PROVE  Tracked(t)'
<1>1. UNCHANGED <<states, taskStatus, taskData, tasks, interrupted, dirty, previous>>
    BY DEF EndWork, Exit, Flush, storeVars, taskVars, localVars, callVars
<1>2. CASE UNCHANGED <<call, step, todo>>
    BY <1>1, <1>2 DEF Tracked, Agreed, Followed, Replaces, Caught, Writing, Behind
<1>3. CASE ~UNCHANGED <<call, step, todo>>
    <2>1. Flush /\ dirty /\ step' = "resyncInit" /\ todo' = {u \in Tasks : tasks[u].rev # 0}
        BY <1>3 DEF EndWork, Exit, Flush, callVars
    <2>2. ~Writing(t)' /\ ~Writing(t)
        BY <2>1 DEF Writing, ControlInv, Resyncing
    <2>3. t \notin todo' => taskData[t] = tasks[t]
        BY <2>1, NeverChanged DEF Tracked
    <2> QED BY <1>1, <2>1, <2>2, <2>3 DEF Tracked, Agreed, Followed, Replaces, Caught, Behind
<1> QED BY <1>2, <1>3
\* The tasks that AnalysisReporting has moved when a call is done.
LEMMA DoneStates ==
    ASSUME TypeInv, Done, NEW t \in Tasks
    PROVE  /\ ~(call.op = "emitTask" /\ call.task = t) => states'[t] = states[t]
           /\ call.op = "emitTask" /\ call.task = t => states'[t] = call.status
           /\ ~Writing(t)' /\ step' \notin ResyncSteps
<1>1. states \in [Tasks -> TaskStatus] /\ (call.op = "emitTask" => call.task \in Tasks)
    BY CallTypes DEF TypeInv, LocalTypes
<1> QED BY <1>1 DEF Done, Writing, ResyncSteps

\* A command that fails leaves the reporter dirty and what it wanted to say
\* in the local snapshot.
LEMMA FailTracked ==
    ASSUME TypeInv, Resyncing, NEW t \in Tasks, Tracked(t), Fails, Kept(t) \/ Said(t)
    PROVE  Tracked(t)'
<1>1. dirty' = TRUE /\ tasks' = tasks /\ interrupted' = interrupted
    BY DEF Fails, localVars
<1>2. Followed(t)'
    BY <1>1, FollowedStays DEF Tracked
<1>3. CASE step \in ResyncSteps
    <2>1. ~Writing(t)
        BY <1>3 DEF Writing, ResyncSteps
    <2>2. ~Writing(t)' /\ step' \notin ResyncSteps /\ states'[t] = states[t]
        <3>1. CASE call.op \in {"emitRun", "emitTask"}
            BY <1>3, <3>1 DEF Fails, ResyncFailed, Goto, Writing, ResyncSteps
        <3>2. CASE call.op \notin {"emitRun", "emitTask"}
            BY <1>3, <3>2, DoneStates DEF Fails, ResyncFailed
        <3> QED BY <3>1, <3>2
    <2> QED BY <1>1, <1>2, <2>1, <2>2 DEF Tracked, Agreed, Replaces, Caught
<1>4. CASE step \notin ResyncSteps
    <2>1. step = "write" /\ Done
        BY <1>4 DEF Fails
    <2>2. CASE Writing(t)
        <3>1. tasks[t].status = call.status /\ states'[t] = call.status
            BY <2>1, <2>2, DoneStates DEF Tracked, Replaces, Writing
        <3> QED BY <1>1, <1>2, <2>1, <3>1, DoneStates DEF Tracked, Agreed, Replaces, Caught
    <2>3. CASE ~Writing(t)
        <3>1. states'[t] = states[t]
            BY <2>1, <2>3, DoneStates DEF Writing
        <3> QED BY <1>1, <1>2, <2>1, <2>3, <3>1, DoneStates DEF Tracked, Agreed, Replaces, Caught
    <2> QED BY <2>2, <2>3
<1> QED BY <1>3, <1>4

\* A resync that goes on, or gives up at a snapshot that Redis rejects.
LEMMA ResyncTracked ==
    ASSUME TypeInv, NEW t \in Tasks, Tracked(t), Kept(t) \/ Said(t), step \in ResyncSteps, dirty,
           UNCHANGED <<tasks, dirty, interrupted>>, NEW s \in ResyncSteps, NEW left,
           ResyncFailed \/ Goto(s, left),
           t \notin left => taskData'[t] = tasks[t]
    PROVE  Tracked(t)'
<1>1. ~Writing(t)
    BY DEF Writing, ResyncSteps
<1>2. Followed(t)'
    BY FollowedStays DEF Tracked
<1>3. CASE Goto(s, left)
    <2>1. ~Writing(t)' /\ states' = states /\ todo' = left
        BY <1>3 DEF Goto, Writing, ResyncSteps
    <2> QED BY <1>1, <1>2, <2>1 DEF Tracked, Agreed, Replaces, Caught
<1>4. CASE ResyncFailed
    <2>1. ~Writing(t)' /\ step' \notin ResyncSteps /\ states'[t] = states[t]
        <3>1. CASE call.op \in {"emitRun", "emitTask"}
            BY <1>4, <3>1 DEF ResyncFailed, Goto, Writing, ResyncSteps
        <3>2. CASE call.op \notin {"emitRun", "emitTask"}
            BY <1>4, <3>2, DoneStates DEF ResyncFailed
        <3> QED BY <3>1, <3>2
    <2> QED BY <1>1, <1>2, <2>1 DEF Tracked, Agreed, Replaces, Caught
<1> QED BY <1>3, <1>4

\* The replay of one task brings that task into step.
LEMMA ReplayTracked ==
    ASSUME TypeInv, Resyncing, NEW u \in Tasks, ResyncTask(u), ~Fails,
           NEW t \in Tasks, Tracked(t), Kept(t) \/ Said(t)
    PROVE  Tracked(t)'
<1>1. /\ TaskTransition(u, tasks[u], TRUE)
      /\ IF TaskReply(u, tasks[u], TRUE) = "invalid" THEN ResyncFailed
         ELSE Goto(IF todo = {u} THEN AfterTasks ELSE "resyncTasks", todo \ {u})
      /\ UNCHANGED <<tasks, dirty, interrupted>> /\ dirty /\ step \in ResyncSteps
    BY DEF ResyncTask, Command, Fails, Resyncing, ResyncSteps, localVars
<1>2. CASE TaskReply(u, tasks[u], TRUE) = "invalid"
    BY <1>1, <1>2, ResyncTracked
<1>3. CASE TaskReply(u, tasks[u], TRUE) # "invalid"
    <2>1. (IF todo = {u} THEN AfterTasks ELSE "resyncTasks") \in ResyncSteps
        BY DEF AfterTasks, ResyncSteps
    <2>2. u # t /\ t \notin todo => taskData'[t] = tasks[t]
        BY <1>1 DEF Kept, Said, Tracked, Caught
    <2>3. ASSUME u = t PROVE taskData'[t] = tasks[t]
        <3>1. CASE TaskReply(u, tasks[u], TRUE) = "accepted"
            BY <1>1, <2>3, <3>1 DEF TaskTransition, TypeInv, StoreTypeOK
        <3>2. CASE TaskReply(u, tasks[u], TRUE) # "accepted"
            <4>1. tasks[u].rev <= taskData[u].rev
                BY <1>3, <3>2 DEF TaskReply
            <4>2. taskData'[u] = taskData[u]
                BY <1>1, <3>2 DEF TaskTransition, storeVars, taskVars
            <4>3. Behind(taskData[u], tasks[u])
                BY <2>3 DEF Tracked, Followed
            <4>4. tasks[u].rev \in Nat /\ taskData[u].rev \in Int
                BY DEF TypeInv, StoreTypeOK, LocalTypes, Snapshot, NoData
            <4> QED BY <2>3, <4>1, <4>2, <4>3, <4>4 DEF Behind
        <3> QED BY <3>1, <3>2
    <2>4. t \notin todo \ {u} => taskData'[t] = tasks[t]
        BY <2>2, <2>3
    <2> QED BY <1>1, <1>3, <2>1, <2>4, ResyncTracked
<1> QED BY <1>2, <1>3

\* The last command of a resync: the reporter is in step.
LEMMA CaughtUp ==
    ASSUME TypeInv, Resyncing, ResyncHeartbeat, ~Fails,
           NEW t \in Tasks, Tracked(t), Kept(t) \/ Said(t)
    PROVE  Tracked(t)'
<1>1. /\ UNCHANGED <<tasks, interrupted>>
      /\ IF call.op \in {"initialize", "flush"} THEN Done ELSE Goto(FirstStep(call), {})
      /\ step = "resyncBeat"
    BY DEF ResyncHeartbeat, Command, Fails, ResyncSteps, localVars
<1>2. ~Writing(t) /\ taskData[t] = tasks[t]
    BY <1>1 DEF Writing, Resyncing, Tracked, Caught, ResyncSteps
<1>3. Followed(t)' /\ taskData'[t] = tasks'[t]
    BY <1>1, <1>2, FollowedStays DEF Tracked, Kept, Said
<1>4. states'[t] = states[t] /\ ~Writing(t)' /\ step' \notin ResyncSteps
    <2>1. CASE call.op \in {"initialize", "flush"}
        BY <1>1, <2>1, DoneStates
    <2>2. CASE call.op \notin {"initialize", "flush"}
        BY <1>1, <2>2 DEF Goto, Writing, FirstStep, ResyncSteps
    <2> QED BY <2>1, <2>2
<1> QED BY <1>1, <1>2, <1>3, <1>4 DEF Tracked, Agreed, Replaces, Caught

\* The steps of a resync.
LEMMA ReplayingTracked ==
    ASSUME TypeInv, Resyncing, initialized,
           \/ ResyncInitialize \/ ResyncRun \/ (\E u \in Tasks : ResyncTask(u))
           \/ ResyncFinalize \/ ResyncHeartbeat,
           NEW t \in Tasks, Tracked(t)
    PROVE  Tracked(t)'
<1>1. StoreStep
    BY CallStore DEF ReporterStep
<1>2. Kept(t) \/ Said(t)
    BY <1>1, ScriptsSay
<1>3. CASE Fails
    BY <1>2, <1>3, FailTracked
<1>4. CASE (ResyncInitialize \/ ResyncRun \/ ResyncFinalize) /\ ~Fails
    <2>1. step \in ResyncSteps /\ step # "resyncTasks" /\ dirty
        BY <1>4 DEF ResyncInitialize, ResyncRun, ResyncFinalize, Resyncing, ResyncSteps
    <2>2. UNCHANGED <<tasks, dirty, interrupted>>
        BY <1>4, <2>1 DEF ResyncInitialize, ResyncRun, ResyncFinalize, Command, Fails, localVars
    <2>3. \E s \in ResyncSteps : ResyncFailed \/ Goto(s, todo)
        <3>1. AfterInit \in ResyncSteps /\ AfterRun \in ResyncSteps /\ "resyncBeat" \in ResyncSteps
            BY DEF AfterInit, AfterRun, AfterTasks, ResyncSteps
        <3>2. step = "resyncFinal" => todo = {}
            BY DEF Resyncing
        <3> QED BY <1>4, <2>1, <3>1, <3>2 DEF ResyncInitialize, ResyncRun, ResyncFinalize, Command, Fails
    <2>4. Kept(t)
        BY <1>2, <2>1 DEF Said, Writing, ResyncSteps
    <2>5. t \notin todo => taskData'[t] = tasks[t]
        BY <2>1, <2>4 DEF Kept, Tracked, Caught
    <2> QED BY <1>2, <2>1, <2>2, <2>3, <2>5, ResyncTracked
<1>5. CASE \E u \in Tasks : ResyncTask(u) /\ ~Fails
    BY <1>2, <1>5, ReplayTracked
<1>6. CASE ResyncHeartbeat /\ ~Fails
    BY <1>2, <1>6, CaughtUp
<1> QED BY <1>3, <1>4, <1>5, <1>6
\* An event changes the local snapshot; an online reporter writes it next.
LEMMA ApplyTracked ==
    ASSUME TypeInv, Emitting, Apply, NEW t \in Tasks, Tracked(t)
    PROVE  Tracked(t)'
<1>1. /\ Kept(t) /\ UNCHANGED <<dirty, interrupted>> /\ step = "apply"
      /\ call.op \in {"emitRun", "emitTask"} /\ (call.op = "emitTask" => call.task \in Tasks)
    BY CallTypes DEF Apply, storeVars, taskVars, Kept, TypeInv, LocalTypes, CallInv, Emits
<1>2. ~Writing(t) /\ step \notin ResyncSteps /\ "write" \notin ResyncSteps
    BY <1>1 DEF Writing, ResyncSteps
<1>3. CASE ~(call.op = "emitTask" /\ call.task = t)
    <2>1. tasks'[t] = tasks[t]
        BY <1>1, <1>3 DEF Apply, TypeInv, LocalTypes
    <2>2. states'[t] = states[t] /\ ~Writing(t)' /\ step' \notin ResyncSteps
        <3>1. CASE dirty
            BY <1>3, <3>1, DoneStates DEF Apply
        <3>2. CASE ~dirty
            BY <1>2, <1>3, <3>2 DEF Apply, Writing
        <3> QED BY <3>1, <3>2
    <2>3. Followed(t)'
        BY <1>1, <2>1, FollowedStays DEF Tracked
    <2> QED BY <1>1, <1>2, <2>1, <2>2, <2>3 DEF Tracked, Agreed, Replaces, Caught, Kept
<1>4. CASE call.op = "emitTask" /\ call.task = t
    <2>1. tasks'[t] = [status |-> call.status, rev |-> tasks[t].rev + 1]
        BY <1>4 DEF Apply, Applied, TypeInv, LocalTypes
    <2>2. tasks[t].rev \in Nat /\ taskData[t].rev \in Int
        BY DEF TypeInv, StoreTypeOK, LocalTypes, Snapshot, NoData
    <2>3. states[t] \notin TaskTerminal /\ (~interrupted => tasks[t].status = states[t])
        BY <1>2, <1>4 DEF Emitting, Tracked, Agreed
    <2>4. Followed(t)'
        <3>1. ~interrupted => taskData[t].status \notin TaskTerminal
            BY <2>3 DEF Tracked, Followed
        <3> QED BY <1>1, <2>1, <2>2, <3>1 DEF Tracked, Followed, Kept, Behind
    <2>5. CASE dirty
        <3>1. Done /\ dirty'
            BY <1>1, <2>5 DEF Apply
        <3>2. states'[t] = tasks'[t].status /\ ~Writing(t)' /\ step' \notin ResyncSteps
            BY <1>4, <2>1, <3>1, DoneStates
        <3> QED BY <2>4, <3>1, <3>2 DEF Tracked, Agreed, Replaces, Caught
    <2>6. CASE ~dirty
        <3>1. step' = "write" /\ previous' = tasks[t] /\ UNCHANGED <<call, states>> /\ ~dirty'
            BY <1>1, <1>4, <2>6 DEF Apply
        <3>2. Writing(t)' /\ Agreed(t)' /\ Caught(t)'
            BY <1>2, <1>4, <2>3, <3>1 DEF Writing, Agreed, Caught
        <3>3. taskData[t] = tasks[t] \/ (interrupted /\ taskData[t].status \notin TaskTerminal)
            BY <1>2, <2>6 DEF Tracked, Caught
        <3>4. Replaces(t)'
            BY <1>1, <1>4, <2>1, <2>3, <3>1, <3>3 DEF Tracked, Followed, Replaces, Kept, Behind
        <3> QED BY <2>4, <3>2, <3>4 DEF Tracked
    <2> QED BY <2>5, <2>6
<1> QED BY <1>3, <1>4

\* The reply to the write of a task: it is never stale, and it is rejected only
\* where the write before it, cut short by Ctrl-C, ended the task.
LEMMA WriteReply ==
    ASSUME TypeInv, Emitting, NEW t \in Tasks, Tracked(t), Writing(t)
    PROVE  \/ TaskReply(t, tasks[t], FALSE) = "accepted"
           \/ /\ TaskReply(t, tasks[t], FALSE) = "invalid" /\ interrupted
              /\ taskData[t] = previous /\ previous.status \in TaskTerminal
<1>1. /\ tasks[t].status = call.status /\ tasks[t].rev = previous.rev + 1
      /\ Behind(taskData[t], previous)
      /\ ~interrupted => previous.status = states[t]
      /\ taskData[t] = previous \/ (interrupted /\ taskData[t].status \notin TaskTerminal)
      /\ call.op = "emitTask" /\ call.task = t /\ previous \in Snapshot
    BY DEF Tracked, Replaces, Writing, TypeInv, CallInv
<1>2. ~(tasks[t].rev <= taskData[t].rev)
    <2>1. previous.rev \in Nat /\ taskData[t].rev \in Int
        BY <1>1 DEF TypeInv, StoreTypeOK, Snapshot, NoData
    <2> QED BY <1>1, <2>1 DEF Behind
<1>3. CASE TaskAllowed(taskStatus[t], tasks[t].status, FALSE)
    BY <1>2, <1>3 DEF TaskReply
<1>4. CASE ~TaskAllowed(taskStatus[t], tasks[t].status, FALSE)
    <2>1. TaskReply(t, tasks[t], FALSE) = "invalid"
        BY <1>2, <1>4 DEF TaskReply
    <2>2. TaskAllowed(states[t], call.status, FALSE) /\ (interrupted => call.status = "aborted")
        BY <1>1 DEF Emitting
    <2>3. taskStatus[t] = taskData[t].status
        BY DEF Tracked, Followed
    <2>4. interrupted
        BY <1>1, <1>4, <2>2, <2>3
    <2>5. taskStatus[t] \in TaskTerminal
        BY <1>1, <1>4, <2>2, <2>4 DEF TypeInv, StoreTypeOK, TaskAllowed, TaskMoves, TaskStatus, TaskTerminal
    <2> QED BY <1>1, <2>1, <2>3, <2>4, <2>5
<1> QED BY <1>3, <1>4

LEMMA WriteTracked ==
    ASSUME TypeInv, Resyncing, Emitting, initialized, WriteRun \/ WriteTask \/ WriteHeartbeat \/ WriteFinalize,
           NEW t \in Tasks, Tracked(t)
    PROVE  Tracked(t)'
<1>1. StoreStep
    BY CallStore DEF ReporterStep
<1>2. Kept(t) \/ Said(t)
    BY <1>1, ScriptsSay
<1>3. CASE Fails
    BY <1>2, <1>3, FailTracked
<1>4. CASE ~Fails
    <2>1. /\ Done /\ UNCHANGED <<dirty, interrupted>> /\ ~dirty /\ step = "write"
          /\ ~Writing(t) => tasks'[t] = tasks[t] /\ states'[t] = states[t]
          /\ ~Writing(t)' /\ step' \notin ResyncSteps
        <3>1. step = "write" /\ step \notin ResyncSteps /\ ~dirty
            BY DEF WriteRun, WriteTask, WriteHeartbeat, WriteFinalize, Resyncing, ResyncSteps
        <3>2. Done /\ UNCHANGED <<dirty, interrupted>>
            BY <1>4, <3>1 DEF WriteRun, WriteTask, WriteHeartbeat, WriteFinalize, Command, Fails, localVars
        <3>3. ~Writing(t) => tasks'[t] = tasks[t]
            <4>1. CASE WriteTask
                <5>1. tasks' = tasks \/ tasks' = [tasks EXCEPT ![call.task] = previous]
                    BY <1>4, <3>1, <4>1 DEF WriteTask, Command, Fails
                <5>2. call.task \in Tasks
                    BY <4>1, CallTypes DEF WriteTask, TypeInv, LocalTypes
                <5> QED BY <4>1, <5>1, <5>2 DEF WriteTask, Writing, TypeInv, LocalTypes
            <4>2. CASE WriteRun \/ WriteHeartbeat \/ WriteFinalize
                BY <1>4, <3>1, <4>2 DEF WriteRun, WriteHeartbeat, WriteFinalize, Command, Fails, localVars
            <4> QED BY <4>1, <4>2
        <3>4. ~Writing(t) => states'[t] = states[t]
            BY <3>1, <3>2, DoneStates DEF Writing
        <3> QED BY <3>1, <3>2, <3>3, <3>4, DoneStates
    <2>2. CASE ~Writing(t)
        <3>1. Kept(t)
            BY <1>2, <2>1, <2>2 DEF Said
        <3>2. Followed(t)'
            BY <1>2, <2>1, <2>2, FollowedStays DEF Tracked
        <3> QED BY <2>1, <2>2, <3>1, <3>2 DEF Tracked, Agreed, Replaces, Caught, Kept
    <2>3. CASE Writing(t)
        <3>1. /\ WriteTask /\ call.task = t /\ TaskTransition(t, tasks[t], FALSE)
              /\ tasks' = IF TaskReply(t, tasks[t], FALSE) = "invalid"
                          THEN [tasks EXCEPT ![t] = previous] ELSE tasks
            BY <1>4, <2>1, <2>3 DEF WriteRun, WriteTask, WriteHeartbeat, WriteFinalize, Command, Fails, Writing, ResyncSteps
        <3>2. states'[t] = call.status /\ tasks[t].status = call.status
            BY <2>1, <2>3, DoneStates DEF Tracked, Replaces, Writing
        <3>3. CASE TaskReply(t, tasks[t], FALSE) = "accepted"
            <4>1. tasks' = tasks /\ taskData'[t] = tasks[t]
                BY <3>1, <3>3 DEF TaskTransition, TypeInv, StoreTypeOK
            <4>2. Followed(t)'
                BY <1>2, <2>1, <4>1, FollowedStays DEF Tracked
            <4> QED BY <2>1, <3>2, <4>1, <4>2 DEF Tracked, Agreed, Replaces, Caught
        <3>4. CASE /\ TaskReply(t, tasks[t], FALSE) = "invalid" /\ interrupted
                   /\ taskData[t] = previous /\ previous.status \in TaskTerminal
            <4>1. tasks'[t] = previous /\ taskData'[t] = previous /\ taskStatus'[t] = taskStatus[t]
                BY <3>1, <3>4 DEF TaskTransition, storeVars, taskVars, TypeInv, LocalTypes
            <4>2. previous.rev \in Nat
                BY <2>3 DEF Writing, TypeInv, CallInv, Snapshot
            <4>3. Followed(t)'
                BY <2>1, <3>4, <4>1, <4>2 DEF Tracked, Followed, Behind
            <4> QED BY <2>1, <3>4, <4>1, <4>3 DEF Tracked, Agreed, Replaces, Caught
        <3> QED BY <2>3, <3>3, <3>4, WriteReply
    <2> QED BY <2>2, <2>3
<1> QED BY <1>3, <1>4

\* Ctrl-C leaves the write of the moment done, or not.
LEMMA InterruptTracked ==
    ASSUME TypeInv, Emitting, initialized, Interrupt, NEW t \in Tasks, Tracked(t)
    PROVE  Tracked(t)'
<1>1. /\ ~interrupted /\ interrupted' = TRUE /\ UNCHANGED <<states, tasks, dirty>>
      /\ \/ call.by = "main" /\ call' = NoCall /\ step' = "idle" /\ todo' = {}
         \/ call.by # "main" /\ UNCHANGED callVars /\ UNCHANGED storeVars
    BY DEF Interrupt, localVars
<1>2. Kept(t) \/ Said(t)
    <2>1. StoreStep
        BY DEF Interrupt, StoreStep
    <2> QED BY <2>1, ScriptsSay
<1>3. Followed(t)'
    BY <1>1, <1>2, FollowedStays DEF Tracked
<1>4. Agreed(t)'
    BY <1>1 DEF Tracked, Agreed
<1>5. CASE call.by = "main"
    <2>1. call' = NoCall /\ step' = "idle" /\ ~Writing(t)' /\ step' \notin ResyncSteps
        BY <1>1, <1>5 DEF Writing, ResyncSteps
    <2>2. ~dirty => \/ taskData'[t] = tasks[t]
                    \/ states[t] \notin TaskTerminal /\ taskData'[t].status \notin TaskTerminal
        <3>1. CASE Said(t)
            BY <3>1 DEF Said
        <3>2. CASE Kept(t) /\ ~Writing(t)
            BY <1>1, <3>2 DEF Kept, Tracked, Caught
        <3>3. CASE Kept(t) /\ Writing(t)
            BY <1>1, <3>3 DEF Kept, Tracked, Replaces, Emitting, Writing
        <3> QED BY <1>2, <3>1, <3>2, <3>3
    <2> QED BY <1>1, <1>3, <1>4, <2>1, <2>2 DEF Tracked, Replaces, Caught
<1>6. CASE call.by # "main"
    <2>1. ~Writing(t)
        BY <1>6 DEF Writing, TypeInv, LocalTypes, Calls, NoCall
    <2>2. UNCHANGED <<call, step, todo, taskStatus, taskData>>
        BY <1>1, <1>6 DEF callVars, storeVars, taskVars
    <2>3. ~Writing(t)'
        BY <2>1, <2>2 DEF Writing
    <2> QED BY <1>1, <1>3, <1>4, <2>1, <2>2, <2>3 DEF Tracked, Replaces, Caught
<1> QED BY <1>5, <1>6

\* The scheduler and the clock leave the tasks alone.
LEMMA OthersTracked ==
    ASSUME HeartbeatTTL \/ SchedulerSuspects \/ SchedulerAborts \/ SchedulerReaps \/ Finished \/ UNCHANGED vars
    PROVE  /\ UNCHANGED <<initialized, taskStatus, taskData, tasks, dirty>>
           /\ UNCHANGED <<mainPc, interrupted, states, beating, call, step, todo, previous>>
<1>1. CASE HeartbeatTTL
    BY <1>1 DEF HeartbeatTTL, HeartbeatExpires, taskVars, analyzerVars, localVars, callVars
<1>2. UNCHANGED storeVars => UNCHANGED <<initialized, taskStatus, taskData>>
    BY DEF storeVars, taskVars
<1>3. CASE SchedulerSuspects \/ Finished \/ UNCHANGED vars
    BY <1>2, <1>3 DEF SchedulerSuspects, Finished, vars, analyzerVars, localVars, callVars
<1>4. CASE SchedulerAborts \/ SchedulerReaps
    <2>1. UNCHANGED <<analyzerVars, localVars, dirty, beating, callVars>>
        BY <1>4 DEF SchedulerAborts, SchedulerReaps
    <2>2. UNCHANGED <<initialized, taskStatus, taskData>>
        BY <1>2, <1>4 DEF SchedulerAborts, SchedulerReaps, SchedulerTransition, taskVars
    <2> QED BY <2>1, <2>2 DEF analyzerVars, localVars, callVars
<1> QED BY <1>1, <1>3, <1>4
-----------------------------------------------------------------------------
(* Redis is in step.                                                        *)

\* What is emitted stays a move that AnalysisReporting allows.
LEMMA EmittingStays ==
    ASSUME TypeInv, EarlyInv, ControlInv, Emitting, mainPc # "killed", mainPc # "initialize", [Next]_vars
    PROVE  mainPc' = "killed" \/ Emitting'
<1>1. CASE Work \/ AgentProgress \/ AbortPending
    <2>1. PICK t \in Tasks, s \in TaskStatus :
              /\ Enter([by |-> "main", op |-> "emitTask", task |-> t, status |-> s])
              /\ states[t] \notin TaskTerminal /\ TaskAllowed(states[t], s, FALSE)
              /\ AbortPending => s = "aborted"
        <3>1. CASE Work
            <4>1. PICK t \in Tasks, s \in TaskStatus \ {"pending"} : EmitTask(t, s)
                BY <3>1 DEF Work
            <4>2. ~AbortPending
                BY <3>1 DEF Work, AbortPending
            <4> QED BY <4>1, <4>2 DEF EmitTask
        <3>2. CASE AbortPending
            <4>1. PICK t \in Tasks : EmitTask(t, "aborted")
                BY <3>2 DEF AbortPending
            <4>2. "aborted" \in TaskStatus
                BY DEF TaskStatus
            <4> QED BY <4>1, <4>2 DEF EmitTask
        <3>3. CASE AgentProgress
            <4>1. PICK t \in Tasks : /\ states[t] = "running"
                                     /\ Enter([by |-> "main", op |-> "emitTask", task |-> t, status |-> "running"])
                BY <3>3 DEF AgentProgress
            <4>2. "running" \in TaskStatus /\ "running" \notin TaskTerminal /\ TaskAllowed("running", "running", FALSE)
                BY DEF TaskStatus, TaskTerminal, TaskAllowed
            <4>3. ~AbortPending
                BY <3>3 DEF AgentProgress, AbortPending
            <4> QED BY <4>1, <4>2, <4>3
        <3> QED BY <1>1, <3>1, <3>2, <3>3
    <2>2. interrupted => AbortPending
        BY <1>1 DEF Work, AgentProgress, ControlInv, CallPcs
    <2>3. UNCHANGED <<states, interrupted>>
        BY <1>1, <2>1 DEF Work, AgentProgress, AbortPending, EmitTask, Enter
    <2>4. call' = [by |-> "main", op |-> "emitTask", task |-> t, status |-> s]
        BY <2>1 DEF Enter
    <2> QED BY <2>1, <2>2, <2>3, <2>4 DEF Emitting
<1>2. CASE (MainCall /\ ~(Work \/ AgentProgress \/ AbortPending)) \/ HeartbeatTick
    <2>1. CASE Initialize \/ EmitRunning \/ FirstHeartbeat \/ EmitFinal \/ Finalize \/ HeartbeatTick
        <3>1. call'.op # "emitTask"
            BY <2>1 DEF Initialize, EmitRunning, FirstHeartbeat, EmitFinal, Finalize, HeartbeatTick, Enter
        <3> QED BY <3>1 DEF Emitting
    <2>2. CASE EndWork \/ Exit
        BY <2>2 DEF EndWork, Exit, callVars, Emitting
    <2>3. CASE Flush
        <3>1. call'.op # "emitTask"
            BY <2>3 DEF Flush, NoCall
        <3> QED BY <3>1 DEF Emitting
    <2> QED BY <1>2, <2>1, <2>2, <2>3 DEF MainCall
<1>3. CASE ReporterStep
    <2>1. interrupted' = interrupted
        BY <1>3 DEF ReporterStep, ResyncInitialize, ResyncRun, ResyncTask, ResyncFinalize, ResyncHeartbeat,
                    Apply, WriteRun, WriteTask, WriteHeartbeat, WriteFinalize, Command
    <2>2. call' = NoCall \/ UNCHANGED <<call, states>>
        BY <1>3 DEF ReporterStep, ResyncInitialize, ResyncRun, ResyncTask, ResyncFinalize, ResyncHeartbeat,
                    Apply, WriteRun, WriteTask, WriteHeartbeat, WriteFinalize, Command, Done, Goto, ResyncFailed
    <2>3. CASE call' = NoCall
        BY <2>3 DEF Emitting, NoCall
    <2>4. CASE UNCHANGED <<call, states>>
        BY <2>1, <2>4 DEF Emitting
    <2> QED BY <2>2, <2>3, <2>4
<1>4. CASE Interrupt
    <2>1. call' = NoCall \/ (call.by # "main" /\ call' = call)
        BY <1>4 DEF Interrupt, callVars
    <2>2. call'.op # "emitTask"
        BY <2>1 DEF NoCall, TypeInv, LocalTypes, Calls
    <2> QED BY <2>2 DEF Emitting
<1>5. CASE Kill
    BY <1>5 DEF Kill
<1>6. CASE HeartbeatTTL \/ SchedulerSuspects \/ SchedulerAborts \/ SchedulerReaps \/ Finished \/ UNCHANGED vars
    BY <1>6, OthersTracked DEF Emitting
<1> QED BY <1>1, <1>2, <1>3, <1>4, <1>5, <1>6 DEF Next

\* A task of an initialised run.
LEMMA NextTracked ==
    ASSUME TypeInv, EarlyInv, ControlInv, Emitting, initialized, mainPc # "killed", mainPc # "initialize",
           [Next]_vars, NEW t \in Tasks, Tracked(t)
    PROVE  mainPc' = "killed" \/ Tracked(t)'
<1>1. Resyncing
    BY DEF ControlInv
<1>2. CASE MainCall \/ HeartbeatTick
    <2>1. CASE EndWork \/ Exit \/ Flush
        BY <2>1, QuietTracked
    <2>2. CASE ~(EndWork \/ Exit \/ Flush)
        <3>1. UNCHANGED <<interrupted, tasks, dirty>>
            BY <1>2, <2>2 DEF MainCall, HeartbeatTick, Initialize, EmitRunning, FirstHeartbeat, Work, AgentProgress,
                              AbortPending, EmitTask, EmitFinal, Finalize, localVars
        <3>2. \E c : Enter(c)
            BY <1>2, <2>2 DEF MainCall, HeartbeatTick, Initialize, EmitRunning, FirstHeartbeat, Work, AgentProgress,
                              AbortPending, EmitTask, EmitFinal, Finalize
        <3> QED BY <3>1, <3>2, EnterTracked
    <2> QED BY <2>1, <2>2
<1>3. CASE ReporterStep
    <2>1. CASE \/ ResyncInitialize \/ ResyncRun \/ (\E u \in Tasks : ResyncTask(u))
               \/ ResyncFinalize \/ ResyncHeartbeat
        BY <1>1, <2>1, ReplayingTracked
    <2>2. CASE Apply
        BY <2>2, ApplyTracked
    <2>3. CASE WriteRun \/ WriteTask \/ WriteHeartbeat \/ WriteFinalize
        BY <1>1, <2>3, WriteTracked
    <2> QED BY <1>3, <2>1, <2>2, <2>3 DEF ReporterStep
<1>4. CASE Interrupt
    BY <1>4, InterruptTracked
<1>5. CASE Kill
    BY <1>5 DEF Kill
<1>6. CASE HeartbeatTTL \/ SchedulerSuspects \/ SchedulerAborts \/ SchedulerReaps \/ Finished \/ UNCHANGED vars
    <2>1. Writing(t)' = Writing(t)
        BY <1>6, OthersTracked DEF Writing
    <2> QED BY <1>6, <2>1, OthersTracked DEF Tracked, Agreed, Followed, Replaces, Caught, Behind
<1> QED BY <1>2, <1>3, <1>4, <1>5, <1>6 DEF Next

\* INITIALIZE, which only its own call can run first.
LEMMA FirstTracked ==
    ASSUME TypeInv, EarlyInv, ~InitOutage, ~initialized, Fresh, ResyncInitialize
    PROVE  initialized' /\ mainPc' # "initialize" /\ Emitting' /\ \A t \in Tasks : Tracked(t)'
<1>1. /\ mainPc = "running" /\ call.op = "initialize" /\ step = "resyncInit" /\ dirty
      /\ ~interrupted /\ todo = {}
    BY DEF Fresh, ResyncInitialize, TypeInv, CallInv
<1>2. /\ InitializeRun(tasks) /\ Goto(AfterInit, todo) /\ UNCHANGED <<tasks, dirty, mainPc, interrupted>>
    BY <1>1 DEF ResyncInitialize, Command, localVars
<1>3. AfterInit \in ResyncSteps
    BY DEF AfterInit, AfterRun, AfterTasks, ResyncSteps
<1>4. /\ initialized' /\ call' = call /\ step' = AfterInit /\ states' = states
      /\ taskStatus' = taskStatus
      /\ taskData' = [t \in Tasks |-> IF taskData[t] = NoData THEN tasks[t] ELSE taskData[t]]
    BY <1>2 DEF InitializeRun, Goto
<1>5. ASSUME NEW t \in Tasks PROVE Tracked(t)'
    <2>1. tasks[t] = NoSnapshot /\ states[t] = "pending" /\ taskData'[t] = tasks[t]
        BY <1>4 DEF Fresh
    <2>2. taskStatus[t] = "pending"
        BY DEF TypeInv, StoreTypeOK, Fresh, EarlyInv
    <2>3. ~Writing(t)'
        BY <1>1, <1>4 DEF Writing
    <2> QED BY <1>1, <1>2, <1>4, <2>1, <2>2, <2>3 DEF Tracked, Agreed, Followed, Replaces, Caught, Behind,
                                                      NoSnapshot, TaskTerminal
<1> QED BY <1>1, <1>2, <1>4, <1>5 DEF Emitting
\* Until then nothing else can happen but the end of the process.
LEMMA FreshStays ==
    ASSUME TypeInv, ~initialized, Fresh, [Next]_vars
    PROVE  mainPc' = "killed" \/ ResyncInitialize \/ (~initialized' /\ Fresh')
<1>1. /\ \/ mainPc = "initialize" /\ call = NoCall /\ step = "idle"
         \/ mainPc = "running" /\ call.op = "initialize" /\ call # NoCall /\ step = "resyncInit" /\ dirty
      /\ ~beating /\ (call.op = "initialize" => call.by = "main")
    <2>1. call = NoCall => step = "idle"
        BY DEF TypeInv, CallInv
    <2>2. call.op = "initialize" => call # NoCall /\ call.by = "main"
        BY DEF TypeInv, LocalTypes, Calls, NoCall
    <2> QED BY <2>1, <2>2 DEF Fresh
<1>2. CASE MainCall \/ HeartbeatTick
    <2>1. Initialize
        BY <1>1, <1>2 DEF MainCall, HeartbeatTick, EmitRunning, FirstHeartbeat, Work, AgentProgress, EndWork,
                          AbortPending, EmitTask, EmitFinal, Finalize, Flush, Exit, Enter, NoCall
    <2>2. /\ call' = [by |-> "main", op |-> "initialize"] /\ dirty' /\ step' = "resyncInit" /\ mainPc' = "running"
          /\ todo' = {t \in Tasks : tasks[t].rev # 0}
          /\ UNCHANGED <<initialized, taskData, states, tasks, beating, interrupted>>
        BY <2>1 DEF Initialize, Enter, storeVars, taskVars, localVars
    <2>3. todo' = {}
        BY <2>2 DEF Fresh, NoSnapshot
    <2> QED BY <2>2, <2>3 DEF Fresh
<1>3. CASE ReporterStep
    BY <1>1, <1>3 DEF ReporterStep, ResyncRun, ResyncTask, ResyncFinalize, ResyncHeartbeat,
                      Apply, WriteRun, WriteTask, WriteHeartbeat, WriteFinalize
<1>4. CASE Interrupt
    BY <1>1, <1>4 DEF Interrupt, InTry, NoCall
<1>5. CASE Kill
    BY <1>5 DEF Kill
<1>6. CASE HeartbeatTTL \/ SchedulerSuspects \/ SchedulerAborts \/ SchedulerReaps \/ Finished \/ UNCHANGED vars
    BY <1>6, OthersTracked DEF Fresh
<1> QED BY <1>2, <1>3, <1>4, <1>5, <1>6 DEF Next

LEMMA NextFollow ==
    ASSUME ~InitOutage, TypeInv, EarlyInv, ControlInv, FollowInv, [Next]_vars
    PROVE  FollowInv'
<1>1. CASE mainPc = "killed"
    BY <1>1, KilledStays DEF FollowInv
<1>2. CASE mainPc # "killed" /\ ~initialized
    <2>1. Fresh
        BY <1>2 DEF FollowInv
    <2>2. CASE ResyncInitialize
        BY <1>2, <2>1, <2>2, FirstTracked DEF FollowInv
    <2>3. CASE mainPc' = "killed" \/ (~initialized' /\ Fresh')
        BY <2>3 DEF FollowInv
    <2> QED BY <1>2, <2>1, <2>2, <2>3, FreshStays
<1>3. CASE mainPc # "killed" /\ initialized
    <2>1. mainPc # "initialize" /\ Emitting /\ \A t \in Tasks : Tracked(t)
        BY <1>3 DEF FollowInv
    <2>2. mainPc' = "killed" \/ Emitting'
        BY <1>3, <2>1, EmittingStays
    <2>3. mainPc' = "killed" \/ \A t \in Tasks : Tracked(t)'
        BY <1>3, <2>1, NextTracked
    <2>4. mainPc' # "initialize"
        BY <2>1 DEF Next, MainCall, Initialize, EmitRunning, FirstHeartbeat, Work, AgentProgress, EndWork,
                    AbortPending, EmitTask, EmitFinal, Finalize, Flush, Exit, HeartbeatTick,
                    ReporterStep, ResyncInitialize, ResyncRun, ResyncTask, ResyncFinalize, ResyncHeartbeat,
                    Apply, WriteRun, WriteTask, WriteHeartbeat, WriteFinalize, Command, Interrupt, Kill,
                    HeartbeatTTL, SchedulerSuspects, SchedulerAborts, SchedulerReaps, Finished, vars, analyzerVars
    <2>5. initialized'
        BY <1>3, NextStore, ScriptsEarly
    <2> QED BY <2>2, <2>3, <2>4, <2>5 DEF FollowInv
<1> QED BY <1>1, <1>2, <1>3

LEMMA FollowInvariance ==
    ASSUME ~InitOutage
    PROVE  Spec => [](EarlyInv /\ ControlInv /\ FollowInv)
<1>1. Init => EarlyInv /\ ControlInv /\ FollowInv
    <2> SUFFICES ASSUME Init PROVE EarlyInv /\ ControlInv /\ FollowInv
        OBVIOUS
    <2>1. EarlyInv
        BY DEF Init, StoreInit, EarlyInv
    <2>2. CallPcs
        BY DEF Init, CallPcs, NoCall
    <2>3. Resyncing
        BY DEF Init, Resyncing, ResyncSteps
    <2>4. FollowInv
        BY DEF Init, StoreInit, FollowInv, Fresh
    <2> QED BY <2>1, <2>2, <2>3, <2>4 DEF ControlInv
<1>2. TypeInv /\ EarlyInv /\ ControlInv /\ FollowInv /\ [Next]_vars => EarlyInv' /\ ControlInv' /\ FollowInv'
    BY NextEarly, NextControl, NextFollow
<1> QED BY <1>1, <1>2, TypeInvariance, PTL DEF Spec

\* Whenever the reporter is idle and not dirty, every task has in Redis the
\* status and the data of its local snapshot (_call_locked and
\* _try_resync_locked): however many commands failed, before or after they took
\* effect, and whatever the scheduler wrote meanwhile.  It takes an INITIALIZE
\* that is answered before the first task changes (the run ReporterInitOutage
\* shows what happens otherwise); a Ctrl-C between a change and its write leaves
\* the task behind until main() aborts it (Caught).
THEOREM RedisIsInStep ==
    ASSUME ~InitOutage, ~Interrupts
    PROVE  Spec => []InStep
<1>1. TypeInv /\ EarlyInv /\ ControlInv /\ FollowInv => InStep
    <2> SUFFICES ASSUME TypeInv, EarlyInv, ControlInv, FollowInv, call = NoCall, ~dirty,
                        mainPc \notin {"initialize", "killed"}, NEW t \in Tasks
                 PROVE  taskData[t] = tasks[t] /\ taskStatus[t] = tasks[t].status
        BY DEF InStep
    <2>1. initialized
        BY DEF EarlyInv
    <2>2. Tracked(t) /\ ~interrupted
        BY <2>1 DEF FollowInv, ControlInv, CallPcs
    <2>3. ~Writing(t)
        BY DEF Writing, NoCall
    <2> QED BY <2>2, <2>3 DEF Tracked, Caught, Followed
<1> QED BY <1>1, TypeInvariance, FollowInvariance, PTL
-----------------------------------------------------------------------------
(* The end of a run.                                                        *)

\* main() reports the final status, and then calls finalize_run.
Late == mainPc \in {"flush", "close", "leave", "exited"}
Ending == mainPc = "finalize" \/ Late

LEMMA EndingGoesOn ==
    ASSUME TypeInv, ControlInv, Ending, [Next]_vars, ~Finalize
    PROVE  \/ mainPc' = "killed"
           \/ Interrupt
           \/ UNCHANGED <<verdict, states, final, interrupted>> /\ Ending' /\ (Late <=> Late')
<1>1. mainPc # "killed" /\ call.op # "emitTask"
    BY DEF Ending, Late, ControlInv, CallPcs
<1>2. final' = final
    BY FinalKept
<1>3. CASE MainCall \/ HeartbeatTick
    BY <1>2, <1>3 DEF MainCall, HeartbeatTick, Initialize, EmitRunning, FirstHeartbeat, Work, AgentProgress,
                      EndWork, AbortPending, EmitTask, EmitFinal, Flush, Exit, Enter, Ending, Late
<1>4. CASE ReporterStep
    <2>1. UNCHANGED <<mainPc, verdict, interrupted>>
        BY <1>4 DEF ReporterStep, ResyncInitialize, ResyncRun, ResyncTask, ResyncFinalize, ResyncHeartbeat,
                    Apply, WriteRun, WriteTask, WriteHeartbeat, WriteFinalize, Command
    <2>2. states' = states
        BY <1>1, <1>4 DEF ReporterStep, ResyncInitialize, ResyncRun, ResyncTask, ResyncFinalize, ResyncHeartbeat,
                    Apply, WriteRun, WriteTask, WriteHeartbeat, WriteFinalize, Command, Done, Goto, ResyncFailed
    <2> QED BY <1>2, <2>1, <2>2 DEF Ending, Late
<1>5. CASE Kill
    BY <1>5 DEF Kill
<1>6. CASE HeartbeatTTL \/ SchedulerSuspects \/ SchedulerAborts \/ SchedulerReaps \/ Finished \/ UNCHANGED vars
    <2>1. UNCHANGED <<mainPc, verdict, states, interrupted>>
        BY <1>6 DEF HeartbeatTTL, SchedulerSuspects, SchedulerAborts, SchedulerReaps, Finished, vars, analyzerVars
    <2> QED BY <1>2, <2>1 DEF Ending, Late
<1> QED BY <1>3, <1>4, <1>5, <1>6 DEF Next

\* It gets there once every task is terminal.
LEMMA EndingStarts ==
    ASSUME ~Ending, [Next]_vars
    PROVE  ~Late' /\ (EmitFinal \/ ~Ending')
<1>1. CASE MainCall \/ HeartbeatTick
    BY <1>1 DEF MainCall, HeartbeatTick, Initialize, EmitRunning, FirstHeartbeat, Work, AgentProgress,
                EndWork, AbortPending, EmitTask, EmitFinal, Finalize, Flush, Exit, Ending, Late
<1>2. CASE ReporterStep
    <2>1. mainPc' = mainPc
        BY <1>2 DEF ReporterStep, ResyncInitialize, ResyncRun, ResyncTask, ResyncFinalize, ResyncHeartbeat,
                    Apply, WriteRun, WriteTask, WriteHeartbeat, WriteFinalize, Command
    <2> QED BY <2>1 DEF Ending, Late
<1>3. CASE Interrupt \/ Kill
    BY <1>3 DEF Interrupt, Kill, Ending, Late
<1>4. CASE HeartbeatTTL \/ SchedulerSuspects \/ SchedulerAborts \/ SchedulerReaps \/ Finished \/ UNCHANGED vars
    <2>1. mainPc' = mainPc
        BY <1>4 DEF HeartbeatTTL, SchedulerSuspects, SchedulerAborts, SchedulerReaps, Finished, vars, analyzerVars
    <2> QED BY <2>1 DEF Ending, Late
<1> QED BY <1>1, <1>2, <1>3, <1>4 DEF Next

\* The summary that finalize_run writes, of a run that is not cut short.
SummaryInv ==
    mainPc # "killed" =>
        /\ Ending => \A t \in Tasks : states[t] \in TaskTerminal
        /\ Late => final.status = verdict
        /\ ~interrupted /\ final # NoFinal => Late /\ final.summary = Tally(states)

LEMMA NextSummary ==
    ASSUME TypeInv, EarlyInv, ControlInv, SummaryInv, [Next]_vars
    PROVE  SummaryInv'
<1>1. CASE mainPc = "killed"
    BY <1>1, KilledStays DEF SummaryInv
<1>2. CASE Finalize
    <2>1. /\ final' = [status |-> verdict, summary |-> Tally(states)]
          /\ Ending /\ mainPc # "killed" /\ UNCHANGED <<verdict, states, interrupted>> /\ Late'
        BY <1>2 DEF Finalize, Enter, Ending, Late
    <2>2. Tally(states)' = Tally(states)
        BY <2>1 DEF Tally
    <2> QED BY <2>1, <2>2 DEF SummaryInv
<1>3. CASE mainPc # "killed" /\ Ending /\ ~Finalize
    <2>1. CASE mainPc' = "killed"
        BY <2>1 DEF SummaryInv
    <2>2. CASE Interrupt
        BY <2>2 DEF Interrupt, SummaryInv, Ending, Late
    <2>3. CASE UNCHANGED <<verdict, states, final, interrupted>> /\ Ending' /\ (Late <=> Late')
        <3>1. Tally(states)' = Tally(states)
            BY <2>3 DEF Tally
        <3> QED BY <1>3, <2>3, <3>1 DEF SummaryInv
    <2> QED BY <1>3, <2>1, <2>2, <2>3, EndingGoesOn
<1>4. CASE mainPc # "killed" /\ ~Ending /\ ~Finalize
    <2>1. final' = final
        BY <1>4, FinalKept
    <2>2. interrupted => interrupted'
        BY DEF Next, MainCall, Initialize, EmitRunning, FirstHeartbeat, Work, AgentProgress, EndWork,
               AbortPending, EmitTask, EmitFinal, Finalize, Flush, Exit, HeartbeatTick,
               ReporterStep, ResyncInitialize, ResyncRun, ResyncTask, ResyncFinalize, ResyncHeartbeat,
               Apply, WriteRun, WriteTask, WriteHeartbeat, WriteFinalize, Command, Interrupt, Kill,
               HeartbeatTTL, SchedulerSuspects, SchedulerAborts, SchedulerReaps, Finished, vars, analyzerVars
    <2>3. interrupted \/ final = NoFinal
        BY <1>4 DEF SummaryInv, Ending
    <2>4. Ending' => \A t \in Tasks : states'[t] \in TaskTerminal
        <3>1. EmitFinal => \A t \in Tasks : states'[t] \in TaskTerminal
            BY DEF EmitFinal, Enter
        <3> QED BY <1>4, <3>1, EndingStarts
    <2> QED BY <1>4, <2>1, <2>2, <2>3, <2>4, EndingStarts DEF SummaryInv, Late
<1> QED BY <1>1, <1>2, <1>3, <1>4

LEMMA SummaryInvariance == Spec => [](EarlyInv /\ ControlInv /\ SummaryInv)
<1>1. Init => EarlyInv /\ ControlInv /\ SummaryInv
    <2> SUFFICES ASSUME Init PROVE EarlyInv /\ ControlInv /\ SummaryInv
        OBVIOUS
    <2>1. EarlyInv
        BY DEF Init, StoreInit, EarlyInv
    <2>2. CallPcs
        BY DEF Init, CallPcs, NoCall
    <2>3. Resyncing
        BY DEF Init, Resyncing, ResyncSteps
    <2>4. SummaryInv
        BY DEF Init, SummaryInv, Ending, Late
    <2> QED BY <2>1, <2>2, <2>3, <2>4 DEF ControlInv
<1>2. TypeInv /\ EarlyInv /\ ControlInv /\ SummaryInv /\ [Next]_vars => EarlyInv' /\ ControlInv' /\ SummaryInv'
    BY NextEarly, NextControl, NextSummary
<1> QED BY <1>1, <1>2, TypeInvariance, PTL DEF Spec

\* When finalize_run writes, the task_status hash says what main() says.
LEMMA SummaryIsTally ==
    ASSUME TypeInv, EarlyInv, RunInv, ControlInv, FollowInv, SummaryInv, ~Interrupts, Finalizing
    PROVE  final.summary = Tally(taskStatus)
<1>1. mainPc # "killed" /\ ~interrupted /\ initialized /\ final # NoFinal
    <2>1. mainPc # "killed"
        BY DEF Finalizing, EarlyInv, TypeInv, CallInv
    <2>2. ~interrupted
        BY <2>1 DEF ControlInv, CallPcs
    <2> QED BY <2>1, <2>2 DEF Finalizing, EarlyInv, RunInv
<1>2. final.summary = Tally(states)
    BY <1>1 DEF SummaryInv
<1>3. ASSUME NEW t \in Tasks PROVE taskStatus[t] = states[t]
    <2>1. Tracked(t) /\ Resyncing
        BY <1>1 DEF FollowInv, ControlInv
    <2>2. ~Writing(t)
        BY DEF Finalizing, Writing
    <2>3. taskData[t] = tasks[t]
        BY <1>1, <2>1, <2>2 DEF Finalizing, Resyncing, ResyncSteps, Tracked, Caught
    <2> QED BY <1>1, <2>1, <2>2, <2>3 DEF Tracked, Agreed, Followed
<1>4. \A s \in TaskStatus : {t \in Counted : taskStatus[t] = s} = {t \in Counted : states[t] = s}
    BY <1>3, TasksAssumption
<1> QED BY <1>2, <1>4 DEF Tally

\* Once INITIALIZE has taken effect the summary counters that run_view serves
\* are the tally of the task_status hash (TASK_TRANSITION_LUA's HINCRBY), and
\* the summary that FINALIZE_RUN_LUA writes over them says the same, although it
\* is computed from what AnalysisReporting believes and not from Redis.
THEOREM CountersAreRight ==
    ASSUME ~InitOutage, ~Interrupts
    PROVE  Spec => []CountersMatch
<1>1. Init => CountersMatch
    BY DEF Init, StoreInit, CountersMatch
<1>2. TypeInv /\ RunInv /\ EarlyInv /\ ControlInv /\ FollowInv /\ SummaryInv /\ CountersMatch /\ [Next]_vars
          => CountersMatch'
    <2> SUFFICES ASSUME TypeInv, RunInv, EarlyInv, ControlInv, FollowInv, SummaryInv, CountersMatch, [Next]_vars
                 PROVE  CountersMatch'
        OBVIOUS
    <2>1. Finalizing => final.summary = Tally(taskStatus)
        BY SummaryIsTally
    <2>2. initialized' => counts' = Tally(taskStatus')
        BY <2>1, NextStore, ScriptsTally DEF CountersMatch
    <2>3. Tally(taskStatus)' = Tally(taskStatus')
        BY DEF Tally
    <2> QED BY <2>2, <2>3 DEF CountersMatch
<1> QED BY <1>1, <1>2, TypeInvariance, RunInvariance, FollowInvariance, SummaryInvariance, PTL DEF Spec
-----------------------------------------------------------------------------
(* The last word on the run.                                                *)

\* A terminal status is replaced by finalize_run only.
LEMMA TerminalStays ==
    ASSUME TypeInv, StoreStep, runStatus \in RunTerminal
    PROVE  runStatus' = runStatus \/ (Finalizing /\ FinalizeRun(final.status, final.summary))
<1>1. UNCHANGED storeVars => runStatus' = runStatus
    BY DEF storeVars
<1>2. InitializeRun(tasks) => runStatus' = runStatus
    BY <1>1 DEF InitializeRun, RunTerminal
<1>3. \A snapshot \in BOOLEAN : RunTransition(runState, snapshot) => runStatus' = runStatus
    <2>1. ASSUME NEW snapshot \in BOOLEAN, RunTransition(runState, snapshot), RunReply(runState, snapshot) = "accepted"
          PROVE  runStatus' = runStatus
        <3>1. RunAllowed(runStatus, runState.status, snapshot)
            BY <2>1 DEF RunReply, RunWriteReply
        <3>2. runStatus = runState.status
            BY <3>1 DEF RunAllowed, RunMoves, RunTerminal, MetaStatus, RunStatus
        <3> QED BY <2>1, <3>2 DEF RunTransition
    <2> QED BY <1>1, <2>1 DEF RunTransition
<1>4. \A t, snapshot : TaskTransition(t, tasks[t], snapshot) => runStatus' = runStatus
    BY <1>1 DEF TaskTransition
<1>5. Beat \/ HeartbeatExpires => runStatus' = runStatus
    BY DEF Beat, HeartbeatExpires
<1>6. SchedulerTransition("aborted") \/ SchedulerTransition(verdict) => runStatus' = runStatus
    BY <1>1 DEF SchedulerTransition, SchedulerReply, RunTerminal
<1> QED BY <1>1, <1>2, <1>3, <1>4, <1>5, <1>6 DEF StoreStep, Finalizing

\* From finalize_run on the status is main()'s verdict whenever the reporter is
\* not dirty, and before the last command of a resync.
LastWordInv ==
    mainPc # "killed" =>
        /\ step = "resyncBeat" /\ final # NoFinal => runStatus = final.status
        /\ Late /\ ~dirty => runStatus = verdict \/ (step = "write" /\ call.op = "finalize")

\* Only FINALIZE leads to the last command, where there is a summary to write.
LEMMA BeatIsLast ==
    ASSUME TypeInv, ReporterStep, step' = "resyncBeat", final # NoFinal
    PROVE  FinalizeRun(final.status, final.summary) /\ final' = final
<1>1. "resyncBeat" \notin {"apply", "write", "idle", "resyncInit", "resyncRun", "resyncTasks", "resyncFinal"}
    OBVIOUS
<1>2. ~Fails
    BY <1>1 DEF Fails, ResyncFailed, Done, Goto
<1>3. ~ResyncInitialize /\ ~ResyncRun
    <2>1. AfterInit # "resyncBeat" /\ AfterRun # "resyncBeat"
        BY DEF AfterInit, AfterRun, AfterTasks
    <2> QED BY <1>1, <1>2, <2>1 DEF ResyncInitialize, ResyncRun, Command, Fails, ResyncSteps, Goto, ResyncFailed, Done
<1>4. \A t \in Tasks : ~ResyncTask(t)
    <2>1. AfterTasks # "resyncBeat"
        BY DEF AfterTasks
    <2> QED BY <1>1, <1>2, <2>1 DEF ResyncTask, Command, Fails, ResyncSteps, Goto, ResyncFailed, Done
<1>5. ~ResyncHeartbeat /\ ~Apply
    BY <1>1, <1>2 DEF ResyncHeartbeat, Apply, Command, Fails, ResyncSteps, Goto, FirstStep, Done
<1>6. ~WriteRun /\ ~WriteTask /\ ~WriteHeartbeat /\ ~WriteFinalize
    BY <1>1, <1>2 DEF WriteRun, WriteTask, WriteHeartbeat, WriteFinalize, Command, Fails, ResyncSteps, Done
<1>7. ResyncFinalize
    BY <1>3, <1>4, <1>5, <1>6 DEF ReporterStep
<1> QED BY <1>2, <1>7 DEF ResyncFinalize, Command, Fails, ResyncSteps, localVars

LEMMA BeatKeepsStatus ==
    ASSUME TypeInv, RunInv, EarlyInv, mainPc # "killed", LastWordInv, [Next]_vars, mainPc' # "killed"
    PROVE  (step' = "resyncBeat" /\ final' # NoFinal => runStatus' = final'.status)
<1> SUFFICES ASSUME step' = "resyncBeat", final' # NoFinal PROVE runStatus' = final'.status
    OBVIOUS
<1>1. CASE \E c : Enter(c)
    BY <1>1 DEF Enter, FirstStep
<1>2. ASSUME step = "resyncBeat", final' = final, UNCHANGED runStatus \/ ~Finalizing
      PROVE  runStatus' = final'.status
    <2>1. runStatus = final.status /\ final.status \in RunTerminal
        BY <1>2 DEF LastWordInv, RunInv
    <2> QED BY <1>2, <2>1, NextStore, TerminalStays
<1>3. step = "resyncBeat" => ~Finalizing
    BY DEF Finalizing
<1>4. CASE EndWork \/ Exit \/ Flush
    <2>1. step' = step /\ final' = final
        BY <1>4 DEF EndWork, Exit, Flush, callVars, localVars
    <2> QED BY <1>2, <1>3, <2>1
<1>5. CASE ReporterStep
    <2>1. final # NoFinal
        BY FinalStays, <1>5, FinalKept DEF ReporterStep, ResyncInitialize, ResyncRun, ResyncTask, ResyncFinalize,
              ResyncHeartbeat, Apply, WriteRun, WriteTask, WriteHeartbeat, WriteFinalize, Command, localVars
    <2> QED BY <1>5, <2>1, BeatIsLast DEF FinalizeRun
<1>6. CASE Interrupt
    <2>1. final' = final /\ (step' = "idle" \/ step' = step)
        BY <1>6 DEF Interrupt, localVars, callVars
    <2> QED BY <1>2, <1>3, <2>1
<1>7. CASE Kill
    BY <1>7 DEF Kill
<1>8. CASE HeartbeatTTL \/ SchedulerSuspects \/ SchedulerAborts \/ SchedulerReaps \/ Finished \/ UNCHANGED vars
    <2>1. final' = final /\ step' = step
        BY <1>8 DEF HeartbeatTTL, SchedulerSuspects, SchedulerAborts, SchedulerReaps, Finished, vars, localVars, callVars
    <2> QED BY <1>2, <1>3, <2>1
<1>9. MainCall \/ HeartbeatTick => (\E c : Enter(c)) \/ EndWork \/ Exit \/ Flush
    BY DEF MainCall, Initialize, EmitRunning, FirstHeartbeat, Work, AgentProgress, AbortPending, EmitTask, EmitFinal,
           Finalize, HeartbeatTick
<1> QED BY <1>1, <1>4, <1>5, <1>6, <1>7, <1>8, <1>9 DEF Next

\* The steps of a call, once finalize_run has been called.
LEMMA LateStep ==
    ASSUME TypeInv, RunInv, EarlyInv, ControlInv, SummaryInv, LastWordInv, Late, ReporterStep, ~dirty'
    PROVE  runStatus' = verdict
<1>1. /\ CallPcs /\ Resyncing /\ mainPc # "killed" /\ final.status = verdict /\ verdict \in RunTerminal
      /\ call.op \notin {"emitTask", "emitRun"}
    BY DEF Late, ControlInv, CallPcs, SummaryInv, TypeInv, LocalTypes, RunTerminal
<1>2. ~Fails
    BY DEF Fails
<1>3. ~ResyncInitialize /\ ~ResyncRun /\ ~ResyncFinalize
    BY <1>1, <1>2 DEF ResyncInitialize, ResyncRun, ResyncFinalize, Command, Fails, Resyncing, ResyncSteps
<1>4. ASSUME NEW t \in Tasks, ResyncTask(t) PROVE FALSE
    <2>1. dirty /\ step \in ResyncSteps
        BY <1>1, <1>4 DEF ResyncTask, Resyncing, ResyncSteps
    <2>2. UNCHANGED dirty
        BY <1>2, <1>4, <2>1 DEF ResyncTask, Command, Fails
    <2> QED BY <2>1, <2>2
<1>5. ~Apply /\ ~WriteRun /\ ~WriteTask
    BY <1>1 DEF Apply, WriteRun, WriteTask, TypeInv, CallInv, Emits
<1>6. CASE ResyncHeartbeat
    <2>1. final # NoFinal
        BY <1>1 DEF NoFinal, RunTerminal
    <2>2. runStatus = verdict
        BY <1>1, <1>6, <2>1 DEF ResyncHeartbeat, LastWordInv
    <2> QED BY <1>2, <1>6, <2>2 DEF ResyncHeartbeat, Command, Fails, ResyncSteps, Beat
<1>7. CASE WriteHeartbeat
    <2>1. ~dirty /\ Beat
        BY <1>1, <1>2, <1>7 DEF WriteHeartbeat, Command, Fails, Resyncing
    <2>2. runStatus = verdict
        BY <1>1, <1>7, <2>1 DEF WriteHeartbeat, LastWordInv
    <2> QED BY <2>1, <2>2 DEF Beat
<1>8. CASE WriteFinalize
    BY <1>1, <1>2, <1>8 DEF WriteFinalize, Command, Fails, FinalizeRun
<1> QED BY <1>3, <1>4, <1>5, <1>6, <1>7, <1>8 DEF ReporterStep

LEMMA NextLastWord ==
    ASSUME TypeInv, RunInv, EarlyInv, ControlInv, SummaryInv, LastWordInv, [Next]_vars
    PROVE  LastWordInv'
<1>1. CASE mainPc' = "killed"
    BY <1>1 DEF LastWordInv
<1>2. CASE mainPc' # "killed"
    <2>1. mainPc # "killed"
        BY <1>2, KilledStays
    <2>2. step' = "resyncBeat" /\ final' # NoFinal => runStatus' = final'.status
        BY <1>2, <2>1, BeatKeepsStatus
    <2>3. ASSUME Late', ~dirty' PROVE runStatus' = verdict' \/ (step' = "write" /\ call'.op = "finalize")
        <3>1. CASE Finalize
            BY <2>3, <3>1 DEF Finalize, Enter, FirstStep
        <3>2. CASE ~Finalize
            <4>1. Late /\ ~Interrupt /\ verdict' = verdict
                <5>1. ~Interrupt
                    BY <2>3 DEF Interrupt, Late
                <5>2. Ending
                    BY <2>3, EndingStarts
                <5> QED BY <1>2, <2>3, <3>2, <5>1, <5>2, EndingGoesOn
            <4>2. verdict \in RunTerminal
                BY DEF TypeInv, LocalTypes, RunTerminal
            <4>3. CASE ReporterStep
                BY <2>3, <4>1, <4>3, LateStep
            <4>4. CASE MainCall \/ HeartbeatTick
                <5>1. call = NoCall /\ UNCHANGED <<storeVars, dirty>>
                    BY <3>2, <4>1, <4>4 DEF MainCall, HeartbeatTick, Initialize, EmitRunning, FirstHeartbeat, Work,
                          AgentProgress, EndWork, AbortPending, EmitFinal, Flush, Exit, Enter, Late
                <5>2. step # "write"
                    BY <5>1 DEF TypeInv, CallInv
                <5> QED BY <2>1, <2>3, <4>1, <5>1, <5>2 DEF LastWordInv, storeVars
            <4>5. CASE HeartbeatTTL \/ SchedulerSuspects \/ SchedulerAborts \/ SchedulerReaps \/ Finished \/ UNCHANGED vars
                <5>1. UNCHANGED <<dirty, step, call>>
                    BY <4>5, OthersTracked
                <5>2. CASE step = "write" /\ call.op = "finalize"
                    BY <5>1, <5>2
                <5>3. CASE ~(step = "write" /\ call.op = "finalize")
                    <6>1. runStatus = verdict /\ ~Finalizing
                        BY <2>1, <2>3, <4>1, <5>1, <5>3 DEF LastWordInv, Finalizing, ControlInv, Resyncing, ResyncSteps
                    <6> QED BY <4>1, <4>2, <6>1, NextStore, TerminalStays
                <5> QED BY <5>2, <5>3
            <4>6. CASE Kill
                BY <1>2, <4>6 DEF Kill
            <4> QED BY <4>1, <4>3, <4>4, <4>5, <4>6 DEF Next
        <3> QED BY <3>1, <3>2
    <2> QED BY <2>2, <2>3 DEF LastWordInv
<1> QED BY <1>1, <1>2

\* A run whose Analyzer left in step with Redis carries main()'s own verdict,
\* every task is terminal, and it is not listed as running (abort_pending,
\* finalize_run, flush and close): whatever was lost on the way, whatever a
\* scheduler wrote that took the Analyzer for dead, and wherever Ctrl-C cut a
\* call short.
THEOREM FinalReportIsRight ==
    ASSUME ~InitOutage
    PROVE  Spec => []FinalReport
<1>1. Init => LastWordInv
    BY DEF Init, LastWordInv, Late
<1>2. TypeInv /\ RunInv /\ EarlyInv /\ ControlInv /\ SummaryInv /\ LastWordInv /\ [Next]_vars => LastWordInv'
    BY NextLastWord
<1>3. TypeInv /\ EarlyInv /\ ControlInv /\ FollowInv /\ SummaryInv /\ LastWordInv /\ RunningSetAgrees => FinalReport
    <2> SUFFICES ASSUME TypeInv, EarlyInv, ControlInv, FollowInv, SummaryInv, LastWordInv, RunningSetAgrees,
                        mainPc = "exited", ~dirty
                 PROVE  runStatus = verdict /\ (\A t \in Tasks : taskStatus[t] \in TaskTerminal) /\ ~running
        BY DEF FinalReport
    <2>1. Late /\ mainPc # "killed" /\ initialized
        BY DEF Late, EarlyInv
    <2>2. call.op \notin {"finalize", "emitTask"}
        BY <2>1 DEF ControlInv, CallPcs
    <2>3. runStatus = verdict
        BY <2>1, <2>2 DEF LastWordInv
    <2>4. ASSUME NEW t \in Tasks PROVE taskStatus[t] \in TaskTerminal
        <3>1. Tracked(t) /\ ~Writing(t) /\ states[t] \in TaskTerminal
            BY <2>1, <2>2 DEF FollowInv, Writing, SummaryInv, Ending
        <3> QED BY <3>1 DEF Tracked, Agreed, Followed, Caught
    <2>5. ~running
        BY <2>3 DEF RunningSetAgrees, TypeInv, LocalTypes
    <2> QED BY <2>3, <2>4, <2>5
<1> QED BY <1>1, <1>2, <1>3, TypeInvariance, RunInvariance, FollowInvariance, SummaryInvariance, PTL DEF Spec
-----------------------------------------------------------------------------
(* Whose word the status of the run is.                                     *)

\* No run status is terminal but the scheduler's and, at the end, main()'s.
VerdictInv ==
    mainPc # "killed" /\ ~interrupted =>
        /\ runStatus \in RunTerminal => runStatus = "aborted" \/ (runStatus = verdict /\ Ending)
        /\ runState.status \in RunTerminal => runState.status = verdict /\ Ending
        /\ step = "write" /\ call.op = "emitRun" /\ previous.status \in RunTerminal
               => previous.status = verdict /\ Ending

\* Where a new status of the run comes from.
LEMMA NewStatus ==
    ASSUME StoreStep, runStatus' # runStatus, runStatus' \in RunTerminal
    PROVE  \/ runStatus' = "aborted"
           \/ runStatus' = runState.status
           \/ Finalizing /\ runStatus' = final.status
           \/ Gone /\ runStatus' = verdict
<1>1. ~UNCHANGED storeVars
    BY DEF storeVars
<1>2. ~InitializeRun(tasks)
    BY <1>1 DEF InitializeRun, RunTerminal
<1>3. \A snapshot \in BOOLEAN : RunTransition(runState, snapshot) => runStatus' = runState.status
    BY <1>1 DEF RunTransition
<1>4. \A t, snapshot : ~TaskTransition(t, tasks[t], snapshot)
    BY <1>1 DEF TaskTransition
<1>5. ~Beat /\ ~HeartbeatExpires
    BY DEF Beat, HeartbeatExpires
<1>6. \A new : SchedulerTransition(new) => runStatus' = new
    BY <1>1 DEF SchedulerTransition
<1>7. FinalizeRun(final.status, final.summary) => runStatus' = final.status
    BY DEF FinalizeRun
<1> QED BY <1>1, <1>2, <1>3, <1>4, <1>5, <1>6, <1>7 DEF StoreStep, Finalizing

\* Where a new snapshot of the run comes from, and what an emit keeps to go
\* back to.
LEMMA NewRunState ==
    ASSUME TypeInv, [Next]_vars
    PROVE  /\ \/ runState' = runState
              \/ call.op = "emitRun" /\ runState'.status = call.status
              \/ step = "write" /\ call.op = "emitRun" /\ runState' = previous
           /\ step' = "write" /\ call'.op = "emitRun" =>
                  \/ previous' = runState
                  \/ step = "write" /\ call.op = "emitRun" /\ previous' = previous
<1>1. CASE MainCall \/ HeartbeatTick
    <2>1. runState' = runState
        BY <1>1 DEF MainCall, HeartbeatTick, Initialize, EmitRunning, FirstHeartbeat, Work, AgentProgress,
                    EndWork, AbortPending, EmitTask, EmitFinal, Finalize, Flush, Exit, localVars
    <2>2. \/ \E c : Enter(c)
          \/ UNCHANGED <<step, call, previous>>
          \/ step' = "resyncInit"
        BY <1>1 DEF MainCall, HeartbeatTick, Initialize, EmitRunning, FirstHeartbeat, Work, AgentProgress,
                    EndWork, AbortPending, EmitTask, EmitFinal, Finalize, Flush, Exit, callVars
    <2>3. (\E c : Enter(c)) => ~(step' = "write" /\ call'.op = "emitRun")
        BY DEF Enter, FirstStep
    <2> QED BY <2>1, <2>2, <2>3
<1>2. CASE Apply
    <2>1. CASE call.op = "emitRun"
        <3>1. runState'.status = call.status
            BY <1>2, <2>1 DEF Apply, Applied
        <3>2. step' = "write" => previous' = runState
            BY <1>2, <2>1 DEF Apply, Done
        <3> QED BY <2>1, <3>1, <3>2
    <2>2. CASE call.op # "emitRun"
        BY <1>2, <2>2 DEF Apply, Done
    <2> QED BY <2>1, <2>2
<1>3. CASE ReporterStep /\ ~Apply
    <2>1. step' # "write" \/ call'.op # "emitRun"
        <3>1. CASE Fails
            BY <3>1 DEF Fails, ResyncFailed, Done, Goto
        <3>2. CASE ResyncHeartbeat /\ ~Fails
            BY <3>2 DEF ResyncHeartbeat, Command, Fails, ResyncSteps, Done, Goto, FirstStep
        <3>3. CASE (ResyncInitialize \/ ResyncRun \/ (\E t \in Tasks : ResyncTask(t)) \/ ResyncFinalize) /\ ~Fails
            <4>1. \/ ResyncFailed
                  \/ \E s \in ResyncSteps : \E left : Goto(s, left)
                <5>1. AfterInit \in ResyncSteps /\ AfterRun \in ResyncSteps /\ AfterTasks \in ResyncSteps
                      /\ "resyncTasks" \in ResyncSteps /\ "resyncBeat" \in ResyncSteps
                    BY DEF AfterInit, AfterRun, AfterTasks, ResyncSteps
                <5> QED BY <3>3, <5>1 DEF ResyncInitialize, ResyncRun, ResyncTask, ResyncFinalize, Command, Fails, ResyncSteps
            <4>2. "write" \notin ResyncSteps
                BY DEF ResyncSteps
            <4> QED BY <4>1, <4>2 DEF ResyncFailed, Done, Goto
        <3>4. CASE (WriteRun \/ WriteTask \/ WriteHeartbeat \/ WriteFinalize) /\ ~Fails
            BY <3>4 DEF WriteRun, WriteTask, WriteHeartbeat, WriteFinalize, Command, Fails, ResyncSteps, Done
        <3> QED BY <1>3, <3>1, <3>2, <3>3, <3>4 DEF ReporterStep
    <2>2. runState' = runState \/ (step = "write" /\ call.op = "emitRun" /\ runState' = previous)
        BY <1>3 DEF ReporterStep, ResyncInitialize, ResyncRun, ResyncTask, ResyncFinalize, ResyncHeartbeat,
                    WriteRun, WriteTask, WriteHeartbeat, WriteFinalize, Command, localVars
    <2> QED BY <2>1, <2>2
<1>4. CASE Interrupt \/ Kill
    BY <1>4 DEF Interrupt, Kill, localVars, callVars
<1>5. CASE HeartbeatTTL \/ SchedulerSuspects \/ SchedulerAborts \/ SchedulerReaps \/ Finished \/ UNCHANGED vars
    BY <1>5 DEF HeartbeatTTL, SchedulerSuspects, SchedulerAborts, SchedulerReaps, Finished, vars, localVars, callVars
<1> QED BY <1>1, <1>2, <1>3, <1>4, <1>5 DEF Next

\* main() makes up its mind when the analysis ends.
LEMMA VerdictStays ==
    ASSUME TypeInv, ControlInv, mainPc # "killed", [Next]_vars, ~Interrupt, ~EndWork, mainPc' # "killed"
    PROVE  verdict' = verdict /\ (Ending => Ending')
<1>1. CASE Ending
    <2>1. CASE Finalize
        BY <2>1 DEF Finalize, Ending, Late
    <2> QED BY <1>1, <2>1, EndingGoesOn
<1>2. CASE ~Ending
    <2>1. CASE MainCall \/ HeartbeatTick
        BY <1>2, <2>1 DEF MainCall, HeartbeatTick, Initialize, EmitRunning, FirstHeartbeat, Work, AgentProgress,
                    AbortPending, EmitTask, EmitFinal, Finalize, Flush, Exit
    <2>2. CASE ReporterStep
        BY <1>2, <2>2 DEF ReporterStep, ResyncInitialize, ResyncRun, ResyncTask, ResyncFinalize, ResyncHeartbeat,
                    Apply, WriteRun, WriteTask, WriteHeartbeat, WriteFinalize, Command
    <2>3. CASE Kill
        BY <2>3 DEF Kill
    <2>4. CASE HeartbeatTTL \/ SchedulerSuspects \/ SchedulerAborts \/ SchedulerReaps \/ Finished \/ UNCHANGED vars
        BY <1>2, <2>4 DEF HeartbeatTTL, SchedulerSuspects, SchedulerAborts, SchedulerReaps, Finished, vars, analyzerVars
    <2> QED BY <1>2, <2>1, <2>2, <2>3, <2>4 DEF Next
<1> QED BY <1>1, <1>2

LEMMA NextVerdict ==
    ASSUME ~Interrupts, TypeInv, RunInv, EarlyInv, ControlInv, SummaryInv, VerdictInv, [Next]_vars
    PROVE  VerdictInv'
<1> SUFFICES ASSUME mainPc' # "killed"
             PROVE  /\ runStatus' \in RunTerminal => runStatus' = "aborted" \/ (runStatus' = verdict' /\ Ending')
                    /\ runState'.status \in RunTerminal => runState'.status = verdict' /\ Ending'
                    /\ step' = "write" /\ call'.op = "emitRun" /\ previous'.status \in RunTerminal
                           => previous'.status = verdict' /\ Ending'
    BY DEF VerdictInv
<1>1. mainPc # "killed" /\ ~interrupted /\ ~Interrupt
    BY KilledStays DEF ControlInv, CallPcs, Interrupt
<1>2. /\ runStatus \in RunTerminal => runStatus = "aborted" \/ (runStatus = verdict /\ Ending)
      /\ runState.status \in RunTerminal => runState.status = verdict /\ Ending
      /\ step = "write" /\ call.op = "emitRun" /\ previous.status \in RunTerminal
             => previous.status = verdict /\ Ending
    BY <1>1 DEF VerdictInv
<1>3. CASE EndWork
    <2>1. ~Ending /\ call.op # "emitRun"
        BY <1>3 DEF EndWork, Ending, Late, TypeInv, LocalTypes, Calls, NoCall
    <2>2. UNCHANGED <<runStatus, runState, call>>
        BY <1>3 DEF EndWork, storeVars, localVars, callVars
    <2> QED BY <1>2, <2>1, <2>2
<1>4. CASE ~EndWork
    <2>1. verdict' = verdict /\ (Ending => Ending')
        BY <1>1, <1>4, VerdictStays
    <2>2. ASSUME runStatus' \in RunTerminal PROVE runStatus' = "aborted" \/ (runStatus' = verdict /\ Ending)
        <3>1. CASE runStatus' = runStatus
            BY <1>2, <2>2, <3>1
        <3>2. CASE runStatus' = runState.status
            BY <1>2, <2>2, <3>2
        <3>3. CASE Finalizing /\ runStatus' = final.status
            <4>1. final # NoFinal
                BY <3>3 DEF Finalizing, RunInv
            <4> QED BY <1>1, <3>3, <4>1 DEF SummaryInv, Ending
        <3>4. CASE Gone /\ runStatus' = verdict
            BY <1>1, <3>4 DEF Gone, Ending, Late
        <3> QED BY <2>2, <3>1, <3>2, <3>3, <3>4, NextStore, NewStatus
    <2>3. ASSUME runState'.status \in RunTerminal PROVE runState'.status = verdict /\ Ending
        <3>1. CASE call.op = "emitRun" /\ runState'.status = call.status
            BY <1>1, <2>3, <3>1 DEF ControlInv, CallPcs, Ending, RunTerminal
        <3> QED BY <1>2, <2>3, <3>1, NewRunState
    <2>4. step' = "write" /\ call'.op = "emitRun" /\ previous'.status \in RunTerminal
              => previous'.status = verdict /\ Ending
        BY <1>2, NewRunState
    <2> QED BY <2>1, <2>2, <2>3, <2>4
<1> QED BY <1>3, <1>4

\* The only terminal run status that is ever replaced is the 'aborted' of a
\* scheduler, and only by main()'s own verdict: FINALIZE_RUN_LUA, which does not
\* look at the status it replaces, never gets to replace another one.  A Ctrl-C
\* after the verdict was reported makes main() report 'failed' instead, and then
\* the script does replace it.
THEOREM OnlyAbortsAreCorrected ==
    ASSUME ~Interrupts
    PROVE  Spec => OnlyAbortedIsCorrected
<1>1. Init => VerdictInv
    BY DEF Init, StoreInit, VerdictInv, RunTerminal
<1>2. TypeInv /\ RunInv /\ EarlyInv /\ ControlInv /\ SummaryInv /\ VerdictInv /\ [Next]_vars => VerdictInv'
    BY NextVerdict
<1>3. TypeInv /\ RunInv /\ EarlyInv /\ ControlInv /\ SummaryInv /\ VerdictInv /\ [Next]_vars =>
          [(runStatus \in RunTerminal /\ runStatus' # runStatus)
              => (runStatus = "aborted" /\ runStatus' = verdict)]_vars
    <2> SUFFICES ASSUME TypeInv, RunInv, EarlyInv, ControlInv, SummaryInv, VerdictInv, [Next]_vars,
                        runStatus \in RunTerminal, runStatus' # runStatus
                 PROVE  runStatus = "aborted" /\ runStatus' = verdict
        OBVIOUS
    <2>1. Finalizing /\ runStatus' = final.status
        BY NextStore, TerminalStays DEF FinalizeRun
    <2>2. mainPc # "killed" /\ final # NoFinal
        BY <2>1 DEF Finalizing, RunInv, EarlyInv, TypeInv, CallInv
    <2>3. ~interrupted
        BY <2>2 DEF ControlInv, CallPcs
    <2> QED BY <2>1, <2>2, <2>3 DEF SummaryInv, VerdictInv
<1> QED BY <1>1, <1>2, <1>3, TypeInvariance, RunInvariance, SummaryInvariance, PTL DEF Spec, OnlyAbortedIsCorrected


=============================================================================
