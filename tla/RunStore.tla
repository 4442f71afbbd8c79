------------------------------ MODULE RunStore ------------------------------
(***************************************************************************)
(* The Redis keys of one run and the Lua scripts that write them.  Redis   *)
(* runs a script atomically, so each script is one operator; its reply is  *)
(* an operator of its own because the reporter reacts to it.  The event    *)
(* stream, timestamps and texts are left out.                              *)
(***************************************************************************)
EXTENDS FiniteSets, RunStatuses

CONSTANTS Tasks,     \* ids of the plan's jobs and nodes
          Counted    \* the nodes, the only tasks in the summary counters

ASSUME TasksAssumption == IsFiniteSet(Tasks) /\ Counted \subseteq Tasks

VARIABLES runStatus,    \* field 'status' of the meta hash
          runRev,       \* field 'run_revision'
          initialized,  \* the meta hash has 'initialized_at'
          counts,       \* the fields 'pending' .. 'aborted' of the meta hash
          taskStatus,   \* the task_status hash
          taskData,     \* status and revision inside the task_data JSON
          running,      \* the run is a member of the set of running runs
          heartbeat     \* the key with a TTL exists

taskVars  == <<taskStatus, taskData>>
storeVars == <<runStatus, runRev, initialized, counts, taskVars, running, heartbeat>>

Snapshot == [status : TaskStatus, rev : Nat]
NoData == [status |-> "pending", rev |-> -1]
NoCounts == [s \in TaskStatus |-> 0]

StoreTypeOK ==
    /\ runStatus \in MetaStatus
    /\ runRev \in Nat
    /\ initialized \in BOOLEAN
    /\ counts \in [TaskStatus -> Int]
    /\ taskStatus \in [Tasks -> TaskStatus]
    /\ taskData \in [Tasks -> Snapshot \union {NoData}]
    /\ running \in BOOLEAN
    /\ heartbeat \in BOOLEAN

\* A missing entry of the task_status hash reads as 'pending'.
StoreInit(status) ==
    /\ runStatus = status
    /\ runRev = 0
    /\ initialized = FALSE
    /\ counts = NoCounts
    /\ taskStatus = [t \in Tasks |-> "pending"]
    /\ taskData = [t \in Tasks |-> NoData]
    /\ running = FALSE
    /\ heartbeat = FALSE

-----------------------------------------------------------------------------
(* The scripts of the reporter.                                             *)

\* Mutant: no look at initialized_at, so that every resync starts over.
InitializeRun_Again(snapshots) ==
    /\ initialized' = TRUE
    /\ runStatus' = IF runStatus \in {"absent", "queued"} THEN "starting" ELSE runStatus
    /\ runRev' = 0
    /\ counts' = [NoCounts EXCEPT !["pending"] = Cardinality(Counted)]
    /\ taskData' = [t \in Tasks |->
           IF taskData[t] = NoData THEN snapshots[t] ELSE taskData[t]]
    /\ UNCHANGED <<taskStatus, running, heartbeat>>

\* HSETNX keeps the data a task already has, and the data written for a new
\* task is the reporter's present snapshot, whatever its revision.
InitializeRun(snapshots) ==
    IF initialized THEN UNCHANGED storeVars
    ELSE /\ initialized' = TRUE
         /\ runStatus' = IF runStatus \in {"absent", "queued"} THEN "starting" ELSE runStatus
         /\ runRev' = 0
         /\ counts' = [NoCounts EXCEPT !["pending"] = Cardinality(Counted)]
         /\ taskData' = [t \in Tasks |->
                IF taskData[t] = NoData THEN snapshots[t] ELSE taskData[t]]
         /\ UNCHANGED <<taskStatus, running, heartbeat>>

TaskReply(t, data, snapshot) ==
    CASE data.rev <= taskData[t].rev -> "stale"
      [] ~TaskAllowed(taskStatus[t], data.status, snapshot) -> "invalid"
      [] OTHER -> "accepted"

Moved(old, new) ==
    [counts EXCEPT ![old] = @ - 1, ![new] = @ + 1]

\* Mutant: jobs are counted like nodes.
TaskTransition_CountsJobs(t, data, snapshot) ==
    IF TaskReply(t, data, snapshot) # "accepted" THEN UNCHANGED storeVars
    ELSE /\ taskStatus' = [taskStatus EXCEPT ![t] = data.status]
         /\ taskData' = [taskData EXCEPT ![t] = data]
         /\ counts' = IF taskStatus[t] # data.status
                      THEN Moved(taskStatus[t], data.status) ELSE counts
         /\ UNCHANGED <<runStatus, runRev, initialized, running, heartbeat>>

TaskTransition(t, data, snapshot) ==
    IF TaskReply(t, data, snapshot) # "accepted" THEN UNCHANGED storeVars
    ELSE /\ taskStatus' = [taskStatus EXCEPT ![t] = data.status]
         /\ taskData' = [taskData EXCEPT ![t] = data]
         /\ counts' = IF t \in Counted /\ taskStatus[t] # data.status
                      THEN Moved(taskStatus[t], data.status) ELSE counts
         /\ UNCHANGED <<runStatus, runRev, initialized, running, heartbeat>>

RunReply(data, snapshot) == RunWriteReply(runStatus, runRev, data, snapshot)

RunTransition(data, snapshot) ==
    IF RunReply(data, snapshot) # "accepted" THEN UNCHANGED storeVars
    ELSE /\ runStatus' = data.status
         /\ runRev' = data.rev
         /\ running' = IF data.status = "running" THEN TRUE
                       ELSE IF data.status \in RunTerminal THEN FALSE ELSE running
         /\ UNCHANGED <<initialized, counts, taskVars, heartbeat>>

\* Mutant: keeps a terminal status.
FinalizeRun_Guarded(status, summary) ==
    /\ runStatus' = IF runStatus \in RunTerminal THEN runStatus ELSE status
    /\ counts' = summary
    /\ running' = FALSE
    /\ UNCHANGED <<runRev, initialized, taskVars, heartbeat>>

\* No look at the status it replaces.
FinalizeRun(status, summary) ==
    /\ runStatus' = status
    /\ counts' = summary
    /\ running' = FALSE
    /\ UNCHANGED <<runRev, initialized, taskVars, heartbeat>>

Beat ==
    /\ heartbeat' = TRUE
    /\ UNCHANGED <<runStatus, runRev, initialized, counts, taskVars, running>>

-----------------------------------------------------------------------------
(* What others do to the keys.                                              *)

HeartbeatExpires ==
    /\ heartbeat
    /\ heartbeat' = FALSE
    /\ UNCHANGED <<runStatus, runRev, initialized, counts, taskVars, running>>

\* Mutant: the run stays in the set of running runs.
SchedulerTransition_KeepsRunning(new) ==
    IF SchedulerReply(runStatus, new) # "accepted" THEN UNCHANGED storeVars
    ELSE /\ runStatus' = new
         /\ UNCHANGED <<runRev, initialized, counts, taskVars, running, heartbeat>>

SchedulerTransition(new) ==
    IF SchedulerReply(runStatus, new) # "accepted" THEN UNCHANGED storeVars
    ELSE /\ runStatus' = new
         /\ running' = IF new \in RunTerminal THEN FALSE ELSE running
         /\ UNCHANGED <<runRev, initialized, counts, taskVars, heartbeat>>
=============================================================================
