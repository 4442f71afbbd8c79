---------------------------- MODULE RunScheduler ----------------------------
(***************************************************************************)
(* The run queue: a Redis Stream with one consumer group, the schedulers   *)
(* that read it, and the Analyzer processes they launch.                   *)
(*                                                                         *)
(* A scheduler handles one entry at a time by a sequence of separate Redis *)
(* commands; it may crash between any two of them and be restarted, while  *)
(* the Analyzer it launched lives on.  An entry that was delivered but not *)
(* acknowledged stays pending and can be claimed by any scheduler once it  *)
(* has been idle for recovery_idle_ms.  An Analyzer keeps a heartbeat key  *)
(* alive, reports its status, and may lose touch with Redis.               *)
(***************************************************************************)
EXTENDS Sequences, FiniteSets, RunStatuses

CONSTANTS Runs, Schedulers,
          MaxCrashes,   \* bound: scheduler processes that die
          MaxLaunches,  \* bound: Analyzer processes of one run
          Delays        \* what may take longer than the timeouts allow for

\* "stall":  a scheduler does nothing for recovery_idle_ms in mid-handling
\* "boot":   an Analyzer takes that long before its first heartbeat
\* "outage": an Analyzer is cut off from Redis longer than its heartbeat lives
DelayKinds == {"stall", "boot", "outage"}

ASSUME SchedulerAssumption ==
    /\ MaxCrashes \in Nat
    /\ MaxLaunches \in Nat \ {0}
    /\ Delays \subseteq DelayKinds

VARIABLES queue,      \* the entries of the stream, by the run they name
          delivered,  \* how many of them the group has delivered
          pending,    \* delivered and not acknowledged
          idle,       \* pending for at least recovery_idle_ms since last claimed
          meta,       \* status, revision and initialized_at of each run
          heartbeat,  \* runs whose heartbeat key exists
          sched,      \* the scheduler processes
          procs,      \* the Analyzer processes of each run, in launch order
          crashes     \* scheduler crashes so far

queueVars == <<queue, delivered, pending, idle>>
vars == <<queueVars, meta, heartbeat, sched, procs, crashes>>

SchedPcs == {"poll", "claim", "read", "status", "beat", "abort", "start", "popen",
             "broken", "wait", "final", "finish", "ack", "down"}
Handling == SchedPcs \ {"poll", "claim", "read", "down"}
Idler(pc) == [pc |-> pc, run |-> "none", recovered |-> FALSE, seen |-> "absent", child |-> 0]

\* "boot" before initialize_run, "up" before RUNNING is emitted, "working",
\* "final" once the final status was emitted, "finalized", "exited".
ProcPcs == {"boot", "up", "working", "final", "finalized", "exited"}
Connected(p) == p.pc \notin {"boot", "exited"} /\ ~p.offline
NewProc == [pc |-> "boot", verdict |-> "failed", offline |-> FALSE,
            local |-> [status |-> "starting", rev |-> 0]]

Meta    == [status : MetaStatus, rev : Nat, initialized : BOOLEAN]
Worker  == [pc : SchedPcs, run : Runs \union {"none"}, recovered : BOOLEAN,
            seen : MetaStatus, child : 0..MaxLaunches]
Process == [pc : ProcPcs, verdict : {"succeeded", "failed"}, offline : BOOLEAN,
            local : [status : RunStatus, rev : Nat]]

TypeOK ==
    /\ queue \in Seq(Runs)
    /\ delivered \in 0..Len(queue)
    /\ pending \subseteq Runs
    /\ idle \subseteq pending
    /\ meta \in [Runs -> Meta]
    /\ heartbeat \subseteq Runs
    /\ sched \in [Schedulers -> Worker]
    /\ procs \in [Runs -> Seq(Process)]
    /\ crashes \in 0..MaxCrashes

Init ==
    /\ queue = <<>>
    /\ delivered = 0
    /\ pending = {}
    /\ idle = {}
    /\ meta = [r \in Runs |-> [status |-> "absent", rev |-> 0, initialized |-> FALSE]]
    /\ heartbeat = {}
    /\ sched = [s \in Schedulers |-> Idler("poll")]
    /\ procs = [r \in Runs |-> <<>>]
    /\ crashes = 0

-----------------------------------------------------------------------------
(* A client queues a run; a run id is accepted once.                        *)

Submit(r) ==
    /\ meta[r].status = "absent"
    /\ queue' = Append(queue, r)
    /\ meta' = [meta EXCEPT ![r].status = "queued"]
    /\ UNCHANGED <<delivered, pending, idle, heartbeat, sched, procs, crashes>>

-----------------------------------------------------------------------------
(* A scheduler looks for an entry.                                          *)

Goto(s, pc) == sched' = [sched EXCEPT ![s].pc = pc]

Take(s, r, recovered) ==
    sched' = [sched EXCEPT ![s] = [pc |-> "status", run |-> r, recovered |-> recovered,
                                   seen |-> "absent", child |-> 0]]

\* Mutant: reads new entries whatever is pending.
CountPending_Ignored(s) ==
    /\ sched[s].pc = "poll"
    /\ sched' = [sched EXCEPT ![s].pc = "read"]
    /\ UNCHANGED <<queueVars, meta, heartbeat, procs, crashes>>

\* XPENDING: as long as anything is pending, nothing new is read.
CountPending(s) ==
    /\ sched[s].pc = "poll"
    /\ Goto(s, IF pending # {} THEN "claim" ELSE "read")
    /\ UNCHANGED <<queueVars, meta, heartbeat, procs, crashes>>

\* XAUTOCLAIM takes the oldest idle entry and restarts its idle time.
Claim(s) ==
    /\ sched[s].pc = "claim"
    /\ \/ idle = {} /\ Goto(s, "poll") /\ UNCHANGED idle
       \/ \E i \in DOMAIN queue :
             /\ queue[i] \in idle
             /\ \A j \in 1..(i - 1) : queue[j] \notin idle
             /\ Take(s, queue[i], TRUE)
             /\ idle' = idle \ {queue[i]}
    /\ UNCHANGED <<queue, delivered, pending, meta, heartbeat, procs, crashes>>

\* Mutant: off by one, an entry is skipped.
Read_Skips(s) ==
    /\ sched[s].pc = "read"
    /\ IF delivered = Len(queue) THEN Goto(s, "poll") /\ UNCHANGED <<delivered, pending>>
       ELSE LET r == queue[delivered + 1]
            IN  /\ Take(s, r, FALSE)
                /\ delivered' = delivered + 2
                /\ pending' = pending \union {r}
    /\ UNCHANGED <<queue, idle, meta, heartbeat, procs, crashes>>

\* XREADGROUP '>' delivers the next entry of the stream.
Read(s) ==
    /\ sched[s].pc = "read"
    /\ IF delivered = Len(queue) THEN Goto(s, "poll") /\ UNCHANGED <<delivered, pending>>
       ELSE LET r == queue[delivered + 1]
            IN  /\ Take(s, r, FALSE)
                /\ delivered' = delivered + 1
                /\ pending' = pending \union {r}
    /\ UNCHANGED <<queue, idle, meta, heartbeat, procs, crashes>>

-----------------------------------------------------------------------------
(* _handle_entry, one Redis command at a time.                              *)

\* Mutant: a terminal run is skipped without acknowledging its entry.
ReadStatus_NoAck(s) ==
    /\ sched[s].pc = "status"
    /\ LET seen == meta[sched[s].run].status IN
       sched' = [sched EXCEPT ![s] = IF seen \in RunTerminal THEN Idler("poll")
                                     ELSE [@ EXCEPT !.seen = seen, !.pc = "beat"]]
    /\ UNCHANGED <<queueVars, meta, heartbeat, procs, crashes>>

ReadStatus(s) ==
    /\ sched[s].pc = "status"
    /\ LET seen == meta[sched[s].run].status IN
       sched' = [sched EXCEPT ![s].seen = seen,
                              ![s].pc = IF seen \in RunTerminal THEN "ack" ELSE "beat"]
    /\ UNCHANGED <<queueVars, meta, heartbeat, procs, crashes>>

\* Mutant: the heartbeat is not looked at.
CheckHeartbeat_Blind(s) ==
    /\ sched[s].pc = "beat"
    /\ Goto(s, IF sched[s].recovered /\ sched[s].seen \in {"starting", "running", "stale"}
               THEN "abort" ELSE "start")
    /\ UNCHANGED <<queueVars, meta, heartbeat, procs, crashes>>

\* Mutant: a recovered run is started again instead of aborted.
CheckHeartbeat_Restarts(s) ==
    /\ sched[s].pc = "beat"
    /\ IF sched[s].run \in heartbeat THEN sched' = [sched EXCEPT ![s] = Idler("poll")]
       ELSE Goto(s, "start")
    /\ UNCHANGED <<queueVars, meta, heartbeat, procs, crashes>>

\* Mutant: the entry of a run that is alive is acknowledged.
CheckHeartbeat_Acks(s) ==
    /\ sched[s].pc = "beat"
    /\ Goto(s, IF sched[s].run \in heartbeat THEN "ack"
               ELSE IF sched[s].recovered /\ sched[s].seen \in {"starting", "running", "stale"}
                    THEN "abort" ELSE "start")
    /\ UNCHANGED <<queueVars, meta, heartbeat, procs, crashes>>

\* A live heartbeat leaves the entry pending.
CheckHeartbeat(s) ==
    /\ sched[s].pc = "beat"
    /\ IF sched[s].run \in heartbeat THEN sched' = [sched EXCEPT ![s] = Idler("poll")]
       ELSE Goto(s, IF sched[s].recovered /\ sched[s].seen \in {"starting", "running", "stale"}
                    THEN "abort" ELSE "start")
    /\ UNCHANGED <<queueVars, meta, heartbeat, procs, crashes>>

\* The scheduler's script; a rejected transition raises and ends the process.
\* A run that is already terminal is left alone, and the scheduler goes on.
Transition(s, new, next) ==
    LET r == sched[s].run
        reply == SchedulerReply(meta[r].status, new)
    IN  /\ meta' = IF reply = "accepted" THEN [meta EXCEPT ![r].status = new] ELSE meta
        /\ IF reply \in {"missing", "invalid"}
           THEN sched' = [sched EXCEPT ![s] = Idler("down")] ELSE Goto(s, next)
        /\ UNCHANGED <<queueVars, heartbeat, procs, crashes>>

AbortRecovered(s) == sched[s].pc = "abort" /\ Transition(s, "aborted", "ack")

Start(s) == sched[s].pc = "start" /\ Transition(s, "starting", "popen")

\* Mutant: the entry is acknowledged when its Analyzer starts.
Popen_AcksEarly(s) ==
    /\ sched[s].pc = "popen"
    /\ LET r == sched[s].run IN
       /\ Len(procs[r]) < MaxLaunches
       /\ procs' = [procs EXCEPT ![r] = Append(@, NewProc)]
       /\ sched' = [sched EXCEPT ![s].pc = "wait", ![s].child = Len(procs[r]) + 1]
       /\ pending' = pending \ {r}
       /\ idle' = idle \ {r}
    /\ UNCHANGED <<queue, delivered, meta, heartbeat, crashes>>

Popen(s) ==
    /\ sched[s].pc = "popen"
    /\ LET r == sched[s].run IN
       /\ Len(procs[r]) < MaxLaunches
       /\ procs' = [procs EXCEPT ![r] = Append(@, NewProc)]
       /\ sched' = [sched EXCEPT ![s].pc = "wait", ![s].child = Len(procs[r]) + 1]
    /\ UNCHANGED <<queueVars, meta, heartbeat, crashes>>

PopenFails(s) ==
    /\ sched[s].pc = "popen"
    /\ Goto(s, "broken")
    /\ UNCHANGED <<queueVars, meta, heartbeat, procs, crashes>>

FailStart(s) == sched[s].pc = "broken" /\ Transition(s, "failed", "ack")

Child(s) == procs[sched[s].run][sched[s].child]

Wait(s) ==
    /\ sched[s].pc = "wait"
    /\ Child(s).pc = "exited"
    /\ Goto(s, "final")
    /\ UNCHANGED <<queueVars, meta, heartbeat, procs, crashes>>

ReadFinal(s) ==
    /\ sched[s].pc = "final"
    /\ Goto(s, IF meta[sched[s].run].status \in RunTerminal THEN "ack" ELSE "finish")
    /\ UNCHANGED <<queueVars, meta, heartbeat, procs, crashes>>

Finish(s) ==
    /\ sched[s].pc = "finish"
    /\ Transition(s, Child(s).verdict, "ack")

Ack(s) ==
    /\ sched[s].pc = "ack"
    /\ pending' = pending \ {sched[s].run}
    /\ idle' = idle \ {sched[s].run}
    /\ sched' = [sched EXCEPT ![s] = Idler("poll")]
    /\ UNCHANGED <<queue, delivered, meta, heartbeat, procs, crashes>>

\* Any Redis error, and SIGKILL; the entry stays pending, a child lives on.
Crash(s) ==
    /\ sched[s].pc # "down"
    /\ crashes < MaxCrashes
    /\ crashes' = crashes + 1
    /\ sched' = [sched EXCEPT ![s] = Idler("down")]
    /\ UNCHANGED <<queueVars, meta, heartbeat, procs>>

Restart(s) ==
    /\ sched[s].pc = "down"
    /\ sched' = [sched EXCEPT ![s] = Idler("poll")]
    /\ UNCHANGED <<queueVars, meta, heartbeat, procs, crashes>>

Look(s) == CountPending(s) \/ Claim(s) \/ Read(s)

HandleEntry(s) ==
    \/ ReadStatus(s) \/ CheckHeartbeat(s) \/ AbortRecovered(s)
    \/ Start(s) \/ Popen(s) \/ PopenFails(s) \/ FailStart(s)
    \/ Wait(s) \/ ReadFinal(s) \/ Finish(s) \/ Ack(s)

-----------------------------------------------------------------------------
(* The Analyzer processes, as far as the queue can see them: what the       *)
(* reporter writes of the run as a whole.  Module ProcessReporter has the   *)
(* whole of it.                                                             *)

Set(r, k, p) == procs' = [procs EXCEPT ![r][k] = p]

\* RUN_TRANSITION_LUA.
WriteRun(r, data, snapshot) ==
    meta' = IF RunWriteReply(meta[r].status, meta[r].rev, data, snapshot) = "accepted"
            THEN [meta EXCEPT ![r].status = data.status, ![r].rev = data.rev] ELSE meta

\* INITIALIZE_RUN_LUA, then a first heartbeat; or all of it fails.
Boot(r, k) ==
    LET p == procs[r][k] IN
    /\ p.pc = "boot"
    /\ \/ /\ Set(r, k, [p EXCEPT !.pc = "up"])
          /\ meta' = IF meta[r].initialized THEN meta
                     ELSE [meta EXCEPT ![r].initialized = TRUE, ![r].rev = 0,
                                       ![r].status = IF @ = "queued" THEN "starting" ELSE @]
          /\ heartbeat' = heartbeat \union {r}
       \/ /\ "outage" \in Delays
          /\ Set(r, k, [p EXCEPT !.pc = "up", !.offline = TRUE])
          /\ UNCHANGED <<meta, heartbeat>>
    /\ UNCHANGED <<queueVars, sched, crashes>>

\* An event of the run: offline it stays local, a rejected one is taken back.
Emit(r, p, status) ==
    LET data == [status |-> status, rev |-> p.local.rev + 1] IN
    IF p.offline THEN [p EXCEPT !.local = data]
    ELSE IF RunWriteReply(meta[r].status, meta[r].rev, data, FALSE) = "invalid" THEN p
    ELSE [p EXCEPT !.local = data]

EmitRunning(r, k) ==
    LET p == procs[r][k] IN
    /\ p.pc = "up"
    /\ Set(r, k, [Emit(r, p, "running") EXCEPT !.pc = "working"])
    /\ IF p.offline THEN UNCHANGED meta
       ELSE WriteRun(r, [status |-> "running", rev |-> p.local.rev + 1], FALSE)
    /\ UNCHANGED <<queueVars, heartbeat, sched, crashes>>

EmitFinal(r, k, v) ==
    LET p == procs[r][k] IN
    /\ p.pc = "working"
    /\ Set(r, k, [Emit(r, p, v) EXCEPT !.pc = "final", !.verdict = v])
    /\ IF p.offline THEN UNCHANGED meta
       ELSE WriteRun(r, [status |-> v, rev |-> p.local.rev + 1], FALSE)
    /\ UNCHANGED <<queueVars, heartbeat, sched, crashes>>

\* FINALIZE_RUN_LUA.
Finalize(r, k) ==
    LET p == procs[r][k] IN
    /\ p.pc = "final"
    /\ Set(r, k, [p EXCEPT !.pc = "finalized"])
    /\ meta' = IF p.offline THEN meta ELSE [meta EXCEPT ![r].status = p.verdict]
    /\ UNCHANGED <<queueVars, heartbeat, sched, crashes>>

Exit(r, k) ==
    /\ procs[r][k].pc = "finalized"
    /\ Set(r, k, [procs[r][k] EXCEPT !.pc = "exited"])
    /\ UNCHANGED <<queueVars, meta, heartbeat, sched, crashes>>

\* An error before initialize_run, or the process is killed.
Die(r, k) ==
    /\ procs[r][k].pc # "exited"
    /\ Set(r, k, [procs[r][k] EXCEPT !.pc = "exited", !.verdict = "failed"])
    /\ UNCHANGED <<queueVars, meta, heartbeat, sched, crashes>>

Disconnect(r, k) ==
    /\ "outage" \in Delays
    /\ Connected(procs[r][k])
    /\ Set(r, k, [procs[r][k] EXCEPT !.offline = TRUE])
    /\ UNCHANGED <<queueVars, meta, heartbeat, sched, crashes>>

\* A resync: the run's snapshot, the final summary, a heartbeat.  A rejected
\* snapshot keeps the reporter offline for good.
Reconnect(r, k) ==
    LET p == procs[r][k]
        was == IF meta[r].initialized \/ meta[r].status # "queued" THEN meta[r].status ELSE "starting"
        wasRev == IF meta[r].initialized THEN meta[r].rev ELSE 0
        reply == IF p.local.rev = 0 THEN "stale" ELSE RunWriteReply(was, wasRev, p.local, TRUE)
    IN  /\ p.pc \notin {"boot", "exited"} /\ p.offline
        /\ reply # "invalid"
        /\ Set(r, k, [p EXCEPT !.offline = FALSE])
        /\ meta' = [meta EXCEPT ![r] =
              [initialized |-> TRUE,
               rev |-> IF reply = "accepted" THEN p.local.rev ELSE wasRev,
               status |-> IF p.pc = "finalized" THEN p.verdict
                          ELSE IF reply = "accepted" THEN p.local.status ELSE was]]
        /\ heartbeat' = heartbeat \union {r}
        /\ UNCHANGED <<queueVars, sched, crashes>>

ProcStep(r, k) ==
    \/ Boot(r, k) \/ EmitRunning(r, k) \/ (\E v \in {"succeeded", "failed"} : EmitFinal(r, k, v))
    \/ Finalize(r, k) \/ Exit(r, k)

-----------------------------------------------------------------------------
(* Time.                                                                    *)

\* The TTL runs out only on a run that no connected Analyzer refreshes.
HeartbeatExpires(r) ==
    /\ r \in heartbeat
    /\ \A k \in DOMAIN procs[r] : ~Connected(procs[r][k])
    /\ heartbeat' = heartbeat \ {r}
    /\ UNCHANGED <<queueVars, meta, sched, procs, crashes>>

\* Handling an entry up to process.wait() and after it, and starting an
\* Analyzer up to its heartbeat, are quick unless Delays says otherwise.
GrowIdle(r) ==
    /\ r \in pending \ idle
    /\ "stall" \in Delays \/ \A s \in Schedulers : sched[s].run = r => sched[s].pc = "wait"
    /\ "boot" \in Delays \/ \A k \in DOMAIN procs[r] : procs[r][k].pc # "boot"
    /\ idle' = idle \union {r}
    /\ UNCHANGED <<queue, delivered, pending, meta, heartbeat, sched, procs, crashes>>

Next ==
    \/ \E r \in Runs : Submit(r)
    \/ \E s \in Schedulers : Look(s) \/ HandleEntry(s) \/ Crash(s) \/ Restart(s)
    \/ \E r \in Runs : \E k \in DOMAIN procs[r] :
          ProcStep(r, k) \/ Die(r, k) \/ Disconnect(r, k) \/ Reconnect(r, k)
    \/ \E r \in Runs : HeartbeatExpires(r) \/ GrowIdle(r)

Spec == Init /\ [][Next]_vars

\* Schedulers run and are restarted, Analyzers end, and time passes.
Fairness ==
    /\ \A s \in Schedulers : WF_vars(Look(s)) /\ WF_vars(HandleEntry(s)) /\ WF_vars(Restart(s))
    /\ \A r \in Runs, k \in 1..MaxLaunches :
          WF_vars(k \in DOMAIN procs[r] /\ ProcStep(r, k))
    /\ \A r \in Runs : WF_vars(HeartbeatExpires(r)) /\ WF_vars(GrowIdle(r))

FairSpec == Spec /\ Fairness

-----------------------------------------------------------------------------
(* Properties.                                                              *)

Launches(r) == Len(procs[r])
Analysing == {r \in Runs : \E k \in DOMAIN procs[r] : procs[r][k].pc \in {"boot", "up", "working"}}
Settled == {queue[i] : i \in 1..delivered} \ pending

\* An entry leaves the queue only when its run has a terminal status, whoever
\* crashed on the way, and the run keeps a terminal status from then on.
AckedIsFinal == \A r \in Settled : meta[r].status \in RunTerminal

\* No run is launched twice, however often its entry is recovered, as long as
\* no scheduler stalls in mid-handling.
LaunchedOnce == \A r \in Runs : Launches(r) <= 1

\* The worker is single-concurrency: the Analyzers of two runs never analyse at
\* the same time, not even when a restarted scheduler meets the orphan of its
\* predecessor.
OneAtATime == \A x, y \in Analysing : x = y

\* The stream preserves FIFO order: when a run is launched, every run that was
\* queued before it is over.
InOrder ==
    \A i, j \in 1..Len(queue) : i < j /\ Launches(queue[j]) > 0 =>
        meta[queue[i]].status \in RunTerminal

\* A scheduler never gives up a run whose Analyzer is connected to Redis.
NoLiveAbort ==
    [][\A r \in Runs : meta[r].status # "aborted" /\ meta'[r].status = "aborted" =>
          \A k \in DOMAIN procs[r] : ~Connected(procs[r][k])]_vars

Lifecycle == INSTANCE RunLifecycle WITH
    status <- [r \in Runs |-> meta[r].status], settled <- Settled

\* The queue, its schedulers and the Analyzers together keep the lifecycle of
\* runs, and every submitted run is settled in the end.
KeepsLifecycle == Lifecycle!Safe
EveryRunSettles == Lifecycle!Promise
=============================================================================
