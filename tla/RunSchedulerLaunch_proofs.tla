---------------------- MODULE RunSchedulerLaunch_proofs ----------------------
(***************************************************************************)
(* Proofs for queues whose schedulers do not stall in mid-handling, with   *)
(* any number of runs, schedulers and crashes, however slow the Analyzers  *)
(* are and however often they lose touch with Redis: no run is launched    *)
(* twice, and the queue implements RunLifecycle.  If nothing is delayed at *)
(* all, no live run is given up; and a single worker launches in order and *)
(* runs one Analyzer at a time.                                            *)
(***************************************************************************)
EXTENDS RunScheduler_proofs

\* The run has been started; it never becomes "queued" again.
Left(r) == meta[r].status \notin {"absent", "queued"}

Delivered == {queue[i] : i \in 1..delivered}

\* Handling up to the launch.  Any number of schedulers may hold an entry, but
\* only one of them, the last to claim it, is still on its way to a launch.
Early == {"status", "beat", "abort", "start", "popen", "broken"}

\* The holder w got the entry at its first delivery, or recovered it and found
\* that its run had not been started.
Fresh(w) == \/ ~w.recovered
            \/ w.pc \in {"start", "popen", "broken"}
            \/ w.pc = "beat" /\ w.seen \in {"absent", "queued"}

QueueInv ==
    /\ \A i, j \in 1..Len(queue) : queue[i] = queue[j] => i = j
    /\ \A i \in 1..Len(queue) : meta[queue[i]].status # "absent"

ProcsInv == \A r \in Runs :
    /\ procs[r] # <<>> => Left(r)
    /\ \A k \in 1..Len(procs[r]) : procs[r][k].local.status # "queued"

UndeliveredInv == \A r \in Runs \ Delivered :
    /\ r \notin pending
    /\ procs[r] = <<>>
    /\ \A s \in Schedulers : sched[s].pc \in Handling => sched[s].run # r

OneEarly == \A s, t \in Schedulers :
    sched[s].pc \in Early /\ sched[t].pc \in Early /\ sched[s].run = sched[t].run => s = t

EarlyInv == \A s \in Schedulers : sched[s].pc \in Early =>
    /\ sched[s].run \notin idle
    /\ Fresh(sched[s]) => procs[sched[s].run] = <<>>
    /\ sched[s].pc = "beat" => sched[s].seen \notin RunTerminal
    /\ sched[s].pc = "popen" => Left(sched[s].run)

LaunchInv ==
    /\ LaunchedOnce
    /\ QueueInv
    /\ ProcsInv
    /\ UndeliveredInv
    /\ OneEarly
    /\ EarlyInv

-----------------------------------------------------------------------------
(* A run that was started stays started.                                    *)

LEMMA LeftStays ==
    ASSUME TypeInv, ProcsInv, [Next]_vars, NEW x \in Runs
    PROVE  /\ meta[x].status # "absent" => meta'[x].status # "absent"
           /\ Left(x) => Left(x)'
<1>0. meta \in [Runs -> Meta]
  BY DEF TypeInv, TypeOK
<1> DEFINE Goal == /\ meta[x].status # "absent" => meta'[x].status # "absent"
                   /\ Left(x) => Left(x)'
<1> SUFFICES Goal
  OBVIOUS
<1>1. UNCHANGED meta => Goal
  BY DEF Left
<1>2. \A r \in Runs : \A rec \in Meta :
        /\ meta' = [meta EXCEPT ![r] = rec]
        /\ rec.status \notin {"absent", "queued"} \/ rec.status = meta[r].status
        => Goal
  BY <1>0 DEF Left
<1>3. \A r \in Runs : \A new \in MetaStatus :
        meta' = [meta EXCEPT ![r].status = new] /\ new \notin {"absent", "queued"} => Goal
  <2> SUFFICES ASSUME NEW r \in Runs, NEW new \in MetaStatus,
                      meta' = [meta EXCEPT ![r].status = new], new \notin {"absent", "queued"}
               PROVE  Goal
    OBVIOUS
  <2> DEFINE rec == [meta[r] EXCEPT !.status = new]
  <2>1. rec \in Meta /\ rec.status = new
    BY <1>0 DEF Meta
  <2>2. meta' = [meta EXCEPT ![r] = rec]
    BY <1>0
  <2> HIDE DEF rec
  <2> QED BY <1>2, <2>1, <2>2
<1> HIDE DEF Goal
<1>4. ASSUME NEW r \in Runs, Submit(r) PROVE Goal
  <2>1. meta' = [meta EXCEPT ![r].status = "queued"] /\ meta[r].status = "absent"
    BY <1>4 DEF Submit
  <2>2. x # r => meta'[x] = meta[x]
    BY <1>0, <2>1
  <2>3. x = r => meta'[x].status = "queued"
    BY <1>0, <2>1 DEF Meta
  <2> QED BY <2>1, <2>2, <2>3 DEF Goal, Left
<1>5. ASSUME NEW s \in Schedulers, sched[s].pc \in Handling, NEW next,
             NEW new \in MetaStatus \ {"absent", "queued"}, Transition(s, new, next)
      PROVE  Goal
  <2>1. sched[s].run \in Runs
    BY <1>5 DEF TypeInv, Holds
  <2>2. UNCHANGED meta \/ meta' = [meta EXCEPT ![sched[s].run].status = new]
    BY <1>5 DEF Transition
  <2> QED BY <1>1, <1>3, <2>1, <2>2
<1>6. ASSUME NEW s \in Schedulers, HandleEntry(s) PROVE Goal
  <2>1. CASE AbortRecovered(s) \/ Start(s) \/ FailStart(s)
    BY <1>5, <2>1 DEF AbortRecovered, Start, FailStart, Handling, SchedPcs, MetaStatus, RunStatus
  <2>2. CASE Finish(s)
    <3>1. sched[s].run \in Runs /\ sched[s].child \in 1..Len(procs[sched[s].run])
      BY <2>2 DEF Finish, Handling, SchedPcs, Holds, TypeInv
    <3>2. Child(s) \in Process
      BY <3>1, ElementOfSeq DEF Child, TypeInv, TypeOK
    <3>3. Child(s).verdict \in MetaStatus \ {"absent", "queued"}
      BY <3>2 DEF Process, MetaStatus, RunStatus
    <3> QED BY <1>5, <2>2, <3>3 DEF Finish, Handling, SchedPcs
  <2>3. CASE ~(AbortRecovered(s) \/ Start(s) \/ FailStart(s) \/ Finish(s))
    BY <1>1, <1>6, <2>3 DEF HandleEntry, ReadStatus, CheckHeartbeat, Popen, PopenFails,
                            Wait, ReadFinal, Ack
  <2> QED BY <2>1, <2>2, <2>3
<1>7. ASSUME NEW r \in Runs, NEW data \in [status : RunStatus, rev : Nat],
             data.status # "queued", NEW snapshot, WriteRun(r, data, snapshot)
      PROVE  Goal
  <2> DEFINE rec == [meta[r] EXCEPT !.status = data.status, !.rev = data.rev]
  <2>1. data.status \in MetaStatus \ {"absent", "queued"}
    BY <1>7 DEF MetaStatus, RunStatus
  <2>2. rec \in Meta /\ rec.status = data.status
    BY <1>0, <2>1 DEF Meta
  <2>3. UNCHANGED meta \/ meta' = [meta EXCEPT ![r] = rec]
    BY <1>0, <1>7 DEF WriteRun
  <2> HIDE DEF rec
  <2> QED BY <1>1, <1>2, <2>1, <2>2, <2>3
<1>8. ASSUME NEW r \in Runs, NEW k \in DOMAIN procs[r],
             ProcStep(r, k) \/ Die(r, k) \/ Disconnect(r, k) \/ Reconnect(r, k)
      PROVE  Goal
  <2> DEFINE p == procs[r][k]
  <2>1. p \in Process /\ meta[r] \in Meta
    BY <1>0, ProcType
  <2>2. /\ p.local \in [status : RunStatus, rev : Nat] /\ p.local.rev \in Nat
        /\ p.verdict \in {"succeeded", "failed"}
    BY <2>1 DEF Process
  <2>3. p.local.status # "queued" /\ Left(r)
    <3>1. k \in 1..Len(procs[r]) /\ procs[r] \in Seq(Process)
      BY ProcType DEF TypeInv, TypeOK
    <3> QED BY <3>1 DEF ProcsInv
  <2> HIDE DEF p
  <2>4. CASE Boot(r, k)
    <3> DEFINE rec == [meta[r] EXCEPT !.initialized = TRUE, !.rev = 0,
                        !.status = IF @ = "queued" THEN "starting" ELSE @]
    <3>1. UNCHANGED meta \/ meta' = [meta EXCEPT ![r] = rec]
      BY <1>0, <2>4 DEF Boot
    <3>2. rec \in Meta /\ rec.status = IF meta[r].status = "queued" THEN "starting"
                                       ELSE meta[r].status
      BY <2>1 DEF Meta, MetaStatus, RunStatus
    <3> HIDE DEF rec
    <3> QED BY <1>1, <1>2, <3>1, <3>2
  <2>5. CASE EmitRunning(r, k) \/ \E v \in {"succeeded", "failed"} : EmitFinal(r, k, v)
    <3>1. \/ UNCHANGED meta
          \/ \E status \in RunStatus \ {"queued"} :
               WriteRun(r, [status |-> status, rev |-> p.local.rev + 1], FALSE)
      BY <2>5 DEF EmitRunning, EmitFinal, RunStatus, p
    <3>2. \A status \in RunStatus :
            [status |-> status, rev |-> p.local.rev + 1] \in [status : RunStatus, rev : Nat]
      BY <2>2
    <3> QED BY <1>1, <1>7, <3>1, <3>2
  <2>6. CASE Finalize(r, k)
    <3>1. UNCHANGED meta \/ meta' = [meta EXCEPT ![r].status = p.verdict]
      BY <2>6 DEF Finalize, p
    <3> QED BY <1>1, <1>3, <2>2, <3>1 DEF MetaStatus, RunStatus
  <2>7. CASE Exit(r, k) \/ Die(r, k) \/ Disconnect(r, k)
    BY <1>1, <2>7 DEF Exit, Die, Disconnect
  <2>8. CASE Reconnect(r, k)
    <3>1. PICK st \in {meta[r].status, "starting", p.verdict, p.local.status}, v \in Nat :
            meta' = [meta EXCEPT ![r] = [initialized |-> TRUE, rev |-> v, status |-> st]]
      BY <2>1, <2>2, <2>8 DEF Reconnect, p, Meta
    <3>2. st \in MetaStatus \ {"absent", "queued"}
      BY <2>1, <2>2, <2>3, <3>1 DEF Meta, MetaStatus, RunStatus, Left
    <3>3. [initialized |-> TRUE, rev |-> v, status |-> st] \in Meta
      BY <3>1, <3>2 DEF Meta
    <3> QED BY <1>2, <3>1, <3>2, <3>3
  <2> QED BY <1>8, <2>4, <2>5, <2>6, <2>7, <2>8 DEF ProcStep
<1>9. CASE Next
  <2>1. ASSUME NEW s \in Schedulers, Look(s) \/ Crash(s) \/ Restart(s) PROVE Goal
    BY <1>1, <2>1 DEF Look, CountPending, Claim, Read, Crash, Restart
  <2>2. ASSUME NEW r \in Runs, HeartbeatExpires(r) \/ GrowIdle(r) PROVE Goal
    BY <1>1, <2>2 DEF HeartbeatExpires, GrowIdle
  <2> QED BY <1>4, <1>6, <1>8, <1>9, <2>1, <2>2 DEF Next
<1> QED BY <1>1, <1>9 DEF vars

-----------------------------------------------------------------------------
(* Every action preserves the invariant.                                    *)

\* The parts about the queue and the processes, if neither changes.
LEMMA SameQueueAndProcs ==
    ASSUME TypeInv, LaunchInv, [Next]_vars, UNCHANGED <<queue, procs>>
    PROVE  LaunchedOnce' /\ QueueInv' /\ ProcsInv'
<1>1. \A x \in Runs : /\ meta[x].status # "absent" => meta'[x].status # "absent"
                      /\ Left(x) => Left(x)'
  BY LeftStays DEF LaunchInv
<1>2. \A i \in 1..Len(queue) : queue[i] \in Runs
  BY ElementOfSeq DEF TypeInv, TypeOK
<1>3. LaunchedOnce'
  BY DEF LaunchInv, LaunchedOnce, Launches
<1>4. QueueInv'
  BY <1>1, <1>2 DEF LaunchInv, QueueInv
<1>5. ProcsInv'
  BY <1>1 DEF LaunchInv, ProcsInv, Left
<1> QED BY <1>3, <1>4, <1>5

\* A scheduler's own move, to the state w.
LEMMA SchedMove ==
    ASSUME TypeInv, LaunchInv, [Next]_vars, NEW s \in Schedulers, NEW w \in Worker,
           sched' = [sched EXCEPT ![s] = w],
           UNCHANGED <<queue, delivered, procs>>,
           pending' \subseteq pending, idle' \subseteq idle,
           w.pc \in Handling => sched[s].pc \in Handling /\ w.run = sched[s].run,
           w.pc \in Early => /\ sched[s].pc \in Early
                             /\ Fresh(w) => procs[w.run] = <<>>
                             /\ w.pc = "beat" => w.seen \notin RunTerminal
                             /\ w.pc = "popen" => meta'[w.run].status \notin {"absent", "queued"}
    PROVE  LaunchInv'
<1>0. /\ \A t \in Schedulers : sched'[t] = IF t = s THEN w ELSE sched[t]
      /\ \A t \in Schedulers : sched[t].pc \in Early => sched[t].run \in Runs
      /\ Early \subseteq Handling
  BY DEF TypeInv, TypeOK, Holds, Early, Handling, SchedPcs
<1>1. UndeliveredInv'
  BY <1>0 DEF LaunchInv, UndeliveredInv, Delivered
<1>2. OneEarly'
  BY <1>0 DEF LaunchInv, OneEarly
<1>3. ASSUME NEW t \in Schedulers, sched'[t].pc \in Early
      PROVE  /\ sched'[t].run \notin idle'
             /\ Fresh(sched'[t]) => procs'[sched'[t].run] = <<>>
             /\ sched'[t].pc = "beat" => sched'[t].seen \notin RunTerminal
             /\ sched'[t].pc = "popen" => meta'[sched'[t].run].status \notin {"absent", "queued"}
  <2>1. CASE t = s
    BY <1>0, <1>3, <2>1 DEF LaunchInv, EarlyInv
  <2>2. CASE t # s
    <3>1. sched'[t] = sched[t] /\ sched[t].run \in Runs
      BY <1>0, <1>3, <2>2
    <3>2. Left(sched[t].run) => meta'[sched[t].run].status \notin {"absent", "queued"}
      BY <3>1, LeftStays DEF LaunchInv, Left
    <3> QED BY <1>3, <3>1, <3>2 DEF LaunchInv, EarlyInv
  <2> QED BY <2>1, <2>2
<1>4. EarlyInv'
  BY <1>3 DEF EarlyInv, Fresh, Left
<1> QED BY <1>1, <1>2, <1>4, SameQueueAndProcs DEF LaunchInv

\* A scheduler takes an entry that nobody has in hand before its launch.
LEMMA TakeMove ==
    ASSUME TypeInv, LaunchInv, [Next]_vars, NEW s \in Schedulers, NEW r \in Runs,
           NEW recovered \in BOOLEAN, Take(s, r, recovered),
           UNCHANGED <<queue, procs>>,
           r \in Delivered', Delivered \subseteq Delivered',
           pending' \subseteq pending \union {r}, idle' \subseteq idle, r \notin idle',
           \A t \in Schedulers : sched[t].pc \in Early => sched[t].run # r,
           ~recovered => procs[r] = <<>>
    PROVE  LaunchInv'
<1> DEFINE w == [pc |-> "status", run |-> r, recovered |-> recovered,
                 seen |-> "absent", child |-> 0]
<1>1. w.pc = "status" /\ w.run = r /\ w.recovered = recovered
  OBVIOUS
<1>2. \A t \in Schedulers : sched'[t] = IF t = s THEN w ELSE sched[t]
  BY DEF Take, TypeInv, TypeOK
<1> HIDE DEF w
<1>3. /\ \A t \in Schedulers : sched[t].pc \in Early => sched[t].run \in Runs
      /\ Early \subseteq Handling
  BY DEF TypeInv, TypeOK, Holds, Early, Handling, SchedPcs
<1>4. UndeliveredInv'
  BY <1>1, <1>2 DEF LaunchInv, UndeliveredInv
<1>5. OneEarly'
  BY <1>1, <1>2 DEF LaunchInv, OneEarly
<1>6. ASSUME NEW t \in Schedulers, sched'[t].pc \in Early
      PROVE  /\ sched'[t].run \notin idle'
             /\ Fresh(sched'[t]) => procs'[sched'[t].run] = <<>>
             /\ sched'[t].pc = "beat" => sched'[t].seen \notin RunTerminal
             /\ sched'[t].pc = "popen" => meta'[sched'[t].run].status \notin {"absent", "queued"}
  <2>1. CASE t = s
    BY <1>1, <1>2, <2>1 DEF Fresh
  <2>2. CASE t # s
    <3>1. sched'[t] = sched[t] /\ sched[t].run \in Runs
      BY <1>2, <1>3, <1>6, <2>2
    <3>2. Left(sched[t].run) => meta'[sched[t].run].status \notin {"absent", "queued"}
      BY <3>1, LeftStays DEF LaunchInv, Left
    <3> QED BY <1>6, <3>1, <3>2 DEF LaunchInv, EarlyInv
  <2> QED BY <2>1, <2>2
<1>7. EarlyInv'
  BY <1>6 DEF EarlyInv, Fresh, Left
<1> QED BY <1>4, <1>5, <1>7, SameQueueAndProcs DEF LaunchInv

LEMMA LookLaunch ==
    ASSUME TypeInv, LaunchInv, [Next]_vars, NEW s \in Schedulers, Look(s)
    PROVE  LaunchInv'
<1>0. /\ sched \in [Schedulers -> Worker] /\ sched[s] \in Worker
      /\ queue \in Seq(Runs) /\ Len(queue) \in Nat /\ delivered \in 0..Len(queue)
      /\ idle \subseteq pending /\ pending \subseteq Runs
  BY DEF TypeInv, TypeOK
<1>1. ASSUME NEW pc \in {"claim", "read", "poll"}, Goto(s, pc),
             UNCHANGED <<queueVars, procs>>
      PROVE  LaunchInv'
  <2> DEFINE w == [sched[s] EXCEPT !.pc = pc]
  <2>1. w \in Worker /\ w.pc = pc
    BY <1>0 DEF Worker, SchedPcs
  <2>2. sched' = [sched EXCEPT ![s] = w]
    BY <1>0, <1>1 DEF Goto
  <2> HIDE DEF w
  <2>3. w.pc \notin Handling /\ w.pc \notin Early
    BY <2>1 DEF Handling, Early
  <2> QED BY <1>1, <2>1, <2>2, <2>3, SchedMove DEF queueVars
<1>2. CASE CountPending(s)
  BY <1>1, <1>2 DEF CountPending
<1>3. CASE Claim(s)
  <2>1. CASE Goto(s, "poll") /\ UNCHANGED idle
    BY <1>1, <1>3, <2>1 DEF Claim, queueVars
  <2>2. CASE ~(Goto(s, "poll") /\ UNCHANGED idle)
    <3>1. PICK i \in DOMAIN queue : /\ queue[i] \in idle
                                    /\ Take(s, queue[i], TRUE)
                                    /\ idle' = idle \ {queue[i]}
      BY <1>3, <2>2 DEF Claim
    <3> DEFINE r == queue[i]
    <3>2. r \in Runs /\ r \in pending /\ r \in idle
      BY <1>0, <3>1
    <3>3. r \in Delivered
      BY <3>2 DEF LaunchInv, UndeliveredInv
    <3>4. \A t \in Schedulers : sched[t].pc \in Early => sched[t].run # r
      BY <3>2 DEF LaunchInv, EarlyInv
    <3>5. UNCHANGED <<queue, delivered, pending, procs>> /\ Delivered' = Delivered
      BY <1>3 DEF Claim, Delivered
    <3>6. Take(s, r, TRUE) /\ idle' = idle \ {r}
      BY <3>1
    <3> HIDE DEF r
    <3> QED BY <3>2, <3>3, <3>4, <3>5, <3>6, TakeMove
  <2> QED BY <2>1, <2>2
<1>4. CASE Read(s)
  <2>1. CASE delivered = Len(queue)
    BY <1>1, <1>4, <2>1 DEF Read, queueVars
  <2>2. CASE delivered # Len(queue)
    <3> DEFINE r == queue[delivered + 1]
    <3>1. /\ Take(s, r, FALSE)
          /\ delivered' = delivered + 1
          /\ pending' = pending \union {r}
          /\ UNCHANGED <<queue, idle, procs>>
      BY <1>4, <2>2 DEF Read
    <3>2. delivered + 1 \in 1..Len(queue)
      BY <1>0, <2>2
    <3>3. r \in Runs
      BY <1>0, <3>2, ElementOfSeq
    <3>4. r \notin Delivered
      <4>1. \A i \in 1..delivered : i \in 1..Len(queue) /\ i # delivered + 1
        BY <1>0
      <4> QED BY <3>2, <4>1 DEF LaunchInv, QueueInv, Delivered
    <3>5. r \in Delivered' /\ Delivered \subseteq Delivered'
      <4>1. delivered + 1 \in 1..delivered' /\ 1..delivered \subseteq 1..delivered'
        BY <1>0, <3>1
      <4>2. queue' = queue
        BY <3>1
      <4> QED BY <4>1, <4>2 DEF Delivered
    <3> HIDE DEF r
    <3>6. procs[r] = <<>> /\ r \notin pending
      BY <3>3, <3>4 DEF LaunchInv, UndeliveredInv
    <3>7. \A t \in Schedulers : sched[t].pc \in Early => sched[t].run # r
      BY <3>3, <3>4 DEF LaunchInv, UndeliveredInv, Early, Handling, SchedPcs
    <3>8. idle' \subseteq idle /\ r \notin idle' /\ pending' \subseteq pending \union {r}
      BY <1>0, <3>1, <3>6
    <3> QED BY <3>1, <3>3, <3>5, <3>6, <3>7, <3>8, TakeMove
  <2> QED BY <2>1, <2>2
<1> QED BY <1>2, <1>3, <1>4 DEF Look

\* A handling step that moves to pc, and stays with the entry.
LEMMA GotoLaunch ==
    ASSUME TypeInv, LaunchInv, [Next]_vars, NEW s \in Schedulers, NEW pc \in SchedPcs,
           Goto(s, pc), sched[s].pc \in Handling, pc # "beat",
           UNCHANGED <<queueVars, procs>>,
           pc \in Early => /\ sched[s].pc \in Early
                           /\ pc = "abort" => (~sched[s].recovered => Fresh(sched[s]))
                           /\ pc # "abort" => procs[sched[s].run] = <<>>
                           /\ pc = "popen" => meta'[sched[s].run].status \notin {"absent", "queued"}
                           /\ pc # "status"
    PROVE  LaunchInv'
<1> DEFINE w == [sched[s] EXCEPT !.pc = pc]
<1>0. sched \in [Schedulers -> Worker] /\ sched[s] \in Worker
  BY DEF TypeInv, TypeOK
<1>1. /\ w \in Worker /\ w.pc = pc
      /\ w.run = sched[s].run /\ w.recovered = sched[s].recovered
  BY <1>0 DEF Worker
<1>2. sched' = [sched EXCEPT ![s] = w]
  BY <1>0 DEF Goto
<1> HIDE DEF w
<1>3. ASSUME pc \in Early, Fresh(w) PROVE procs[w.run] = <<>>
  <2>1. pc = "abort" => ~w.recovered
    BY <1>1, <1>3 DEF Fresh
  <2> QED BY <1>1, <1>3, <2>1 DEF LaunchInv, EarlyInv
<1>4. UNCHANGED <<queue, delivered, procs>> /\ pending' \subseteq pending /\ idle' \subseteq idle
  BY DEF queueVars
<1> QED BY <1>1, <1>2, <1>3, <1>4, SchedMove

\* A transition that raises takes the scheduler down.
LEMMA DownLaunch ==
    ASSUME TypeInv, LaunchInv, [Next]_vars, NEW s \in Schedulers, NEW pc \in {"poll", "down"},
           sched' = [sched EXCEPT ![s] = Idler(pc)],
           UNCHANGED <<queue, delivered, procs>>, pending' \subseteq pending, idle' \subseteq idle
    PROVE  LaunchInv'
<1> DEFINE w == Idler(pc)
<1>1. w \in Worker /\ w.pc = pc /\ w.pc \notin Handling
  BY IdlerTypes
<1>2. sched' = [sched EXCEPT ![s] = w]
  OBVIOUS
<1> HIDE DEF w
<1>3. w.pc \notin Early
  BY <1>1 DEF Early
<1> QED BY <1>1, <1>2, <1>3, SchedMove

LEMMA TransitionLaunch ==
    ASSUME TypeInv, LaunchInv, [Next]_vars, NEW s \in Schedulers, sched[s].pc \in Handling,
           NEW new \in MetaStatus, NEW next \in {"ack", "popen"}, Transition(s, new, next),
           next = "popen" => sched[s].pc = "start" /\ new = "starting"
    PROVE  LaunchInv'
<1>1. UNCHANGED <<queueVars, procs>>
  BY DEF Transition
<1>2. CASE sched' = [sched EXCEPT ![s] = Idler("down")]
  BY <1>1, <1>2, DownLaunch DEF queueVars
<1>3. CASE Goto(s, next) /\ meta'[sched[s].run].status \in RunTerminal \union {new}
  <2>1. next \in SchedPcs /\ next \notin {"beat", "abort", "status"}
    BY DEF SchedPcs
  <2>2. CASE next = "ack"
    BY <1>1, <1>3, <2>1, <2>2, GotoLaunch DEF Early
  <2>3. CASE next = "popen"
    <3>1. sched[s].pc \in Early /\ procs[sched[s].run] = <<>>
      BY <2>3 DEF LaunchInv, EarlyInv, Early, Fresh
    <3>2. meta'[sched[s].run].status \notin {"absent", "queued"}
      BY <1>3, <2>3 DEF RunTerminal
    <3> QED BY <1>1, <1>3, <2>1, <2>3, <3>1, <3>2, GotoLaunch
  <2> QED BY <2>2, <2>3
<1> QED BY <1>2, <1>3, TransitionStatus

LEMMA PopenLaunch ==
    ASSUME TypeInv, LaunchInv, [Next]_vars, NEW s \in Schedulers, Popen(s)
    PROVE  LaunchInv'
<1> DEFINE r == sched[s].run
           w == [sched[s] EXCEPT !.pc = "wait", !.child = Len(procs[r]) + 1]
<1>0. /\ sched \in [Schedulers -> Worker] /\ sched[s] \in Worker /\ sched[s].pc = "popen"
      /\ r \in Runs /\ procs \in [Runs -> Seq(Process)] /\ meta \in [Runs -> Meta]
  BY DEF Popen, TypeInv, TypeOK, Holds, Handling, SchedPcs
<1>1. /\ procs' = [procs EXCEPT ![r] = Append(procs[r], NewProc)]
      /\ sched' = [sched EXCEPT ![s] = w]
      /\ UNCHANGED <<queue, delivered, pending, idle, meta>>
  BY <1>0 DEF Popen, queueVars
<1>2. w.pc = "wait" /\ w.run = r
  BY <1>0 DEF Worker
<1>3. sched[s].pc \in Early /\ procs[r] = <<>> /\ Left(r)
  BY <1>0 DEF LaunchInv, EarlyInv, Early, Fresh
<1>4. /\ \A x \in Runs : x # r => procs'[x] = procs[x]
      /\ Len(procs'[r]) = 1 /\ procs'[r][1] = NewProc
  BY <1>0, <1>1, <1>3
<1>5. r \in Delivered
  BY <1>0 DEF LaunchInv, UndeliveredInv, Handling, SchedPcs
<1>6. \A t \in Schedulers : sched'[t] = IF t = s THEN w ELSE sched[t]
  BY <1>0, <1>1
<1>7. ASSUME NEW t \in Schedulers, sched'[t].pc \in Early
      PROVE  t # s /\ sched'[t] = sched[t] /\ sched[t].run \in Runs \ {r}
  <2>1. t # s /\ sched'[t] = sched[t]
    BY <1>2, <1>6, <1>7 DEF Early
  <2>2. sched[t].run # r
    BY <1>3, <1>7, <2>1 DEF LaunchInv, OneEarly
  <2>3. sched[t].run \in Runs
    BY <1>7, <2>1 DEF TypeInv, Holds, Early, Handling, SchedPcs
  <2> QED BY <2>1, <2>2, <2>3
<1> HIDE DEF r, w
<1>8. LaunchedOnce'
  <2>1. \A x \in Runs : Len(procs[x]) <= 1
    BY DEF LaunchInv, LaunchedOnce, Launches
  <2>2. ASSUME NEW x \in Runs PROVE Len(procs'[x]) <= 1
    <3>1. CASE x = r
      <4>1. Len(procs'[r]) = 1
        BY <1>4
      <4>2. Len(procs'[x]) = 1
        BY <3>1, <4>1
      <4> QED BY <4>2
    <3>2. CASE x # r
      BY <1>4, <2>1, <3>2
    <3> QED BY <3>1, <3>2
  <2> QED BY <2>2 DEF LaunchedOnce, Launches
<1>9. QueueInv'
  BY <1>1 DEF LaunchInv, QueueInv
<1>10. ProcsInv'
  <2>1. NewProc.local.status # "queued"
    BY DEF NewProc
  <2>2. \A k \in 1..Len(procs'[r]) : procs'[r][k].local.status # "queued"
    BY <1>4, <2>1
  <2> QED BY <1>1, <1>3, <1>4, <2>2 DEF LaunchInv, ProcsInv, Left
<1>11. UndeliveredInv'
  <2>1. Delivered' = Delivered
    BY <1>1 DEF Delivered
  <2>2. \A t \in Schedulers : sched'[t].run = sched[t].run
    BY <1>2, <1>6 DEF r
  <2>3. \A t \in Schedulers : sched'[t].pc \in Handling => sched[t].pc \in Handling
    BY <1>0, <1>6 DEF Handling, SchedPcs
  <2> QED BY <1>1, <1>4, <1>5, <2>1, <2>2, <2>3 DEF LaunchInv, UndeliveredInv
<1>12. OneEarly'
  BY <1>7 DEF LaunchInv, OneEarly
<1>13. EarlyInv'
  <2>1. ASSUME NEW t \in Schedulers, sched'[t].pc \in Early
        PROVE  /\ sched[t].run \notin idle'
               /\ Fresh(sched[t]) => procs'[sched[t].run] = <<>>
               /\ sched[t].pc = "beat" => sched[t].seen \notin RunTerminal
               /\ sched[t].pc = "popen" => Left(sched[t].run)
    <3>1. procs'[sched[t].run] = procs[sched[t].run] /\ sched[t].pc \in Early
      BY <1>4, <1>7, <2>1
    <3>2. idle' = idle
      BY <1>1
    <3> QED BY <3>1, <3>2 DEF LaunchInv, EarlyInv
  <2>2. meta' = meta
    BY <1>1
  <2> QED BY <1>7, <2>1, <2>2 DEF EarlyInv, Fresh, Left
<1> QED BY <1>8, <1>9, <1>10, <1>11, <1>12, <1>13 DEF LaunchInv

LEMMA HandleLaunch ==
    ASSUME TypeInv, LaunchInv, [Next]_vars, NEW s \in Schedulers, HandleEntry(s)
    PROVE  LaunchInv'
<1>0. /\ sched \in [Schedulers -> Worker] /\ sched[s] \in Worker /\ Holds(s)
      /\ sched[s].seen \in MetaStatus
  BY DEF TypeInv, TypeOK, Worker
<1>1. CASE ReadStatus(s)
  <2> DEFINE r == sched[s].run
             seen == meta[r].status
             w == [sched[s] EXCEPT !.seen = seen,
                                   !.pc = IF seen \in RunTerminal THEN "ack" ELSE "beat"]
  <2>0. r \in Runs /\ seen \in MetaStatus
    BY <1>0, <1>1 DEF ReadStatus, Holds, Handling, SchedPcs, TypeInv, TypeOK, Meta
  <2>1. sched' = [sched EXCEPT ![s] = w] /\ sched[s].pc = "status"
    BY <1>0, <1>1 DEF ReadStatus
  <2>2. UNCHANGED <<queueVars, procs>>
    BY <1>1 DEF ReadStatus
  <2>3. seen \in {"absent", "queued"} => procs[r] = <<>>
    BY <2>0 DEF LaunchInv, ProcsInv, Left
  <2>4. ~sched[s].recovered => procs[r] = <<>>
    BY <2>1 DEF LaunchInv, EarlyInv, Early, Fresh
  <2> HIDE DEF r, seen
  <2>5. /\ w \in Worker /\ w.run = sched[s].run /\ w.recovered = sched[s].recovered
        /\ w.seen = seen /\ w.pc = IF seen \in RunTerminal THEN "ack" ELSE "beat"
    BY <1>0, <2>0 DEF Worker, SchedPcs
  <2> HIDE DEF w
  <2>6. sched[s].pc \in Handling /\ sched[s].pc \in Early
    BY <2>1 DEF Handling, Early, SchedPcs
  <2>7. ASSUME w.pc \in Early
        PROVE  /\ Fresh(w) => procs[w.run] = <<>>
               /\ w.pc = "beat" => w.seen \notin RunTerminal
               /\ w.pc # "popen"
    <3>1. w.pc = "beat"
      BY <2>5, <2>7 DEF Early
    <3>2. Fresh(w) => ~w.recovered \/ w.seen \in {"absent", "queued"}
      BY <3>1 DEF Fresh
    <3> QED BY <2>3, <2>4, <2>5, <3>1, <3>2 DEF r
  <2> QED BY <2>1, <2>2, <2>5, <2>6, <2>7, SchedMove DEF queueVars
<1>2. CASE CheckHeartbeat(s)
  <2>1. UNCHANGED <<queueVars, procs>> /\ sched[s].pc = "beat"
    BY <1>2 DEF CheckHeartbeat
  <2>2. sched[s].pc \in Handling /\ sched[s].pc \in Early
    BY <2>1 DEF Handling, Early, SchedPcs
  <2> DEFINE doubt == sched[s].recovered /\ sched[s].seen \in {"starting", "running", "stale"}
  <2>3. CASE sched' = [sched EXCEPT ![s] = Idler("poll")]
    BY <2>1, <2>3, DownLaunch DEF queueVars
  <2>4. CASE doubt /\ Goto(s, "abort")
    BY <2>1, <2>2, <2>4, GotoLaunch DEF SchedPcs
  <2>5. CASE ~doubt /\ Goto(s, "start")
    <3>1. ~sched[s].recovered \/ sched[s].seen \in {"absent", "queued"}
      BY <1>0, <2>1, <2>2, <2>5
         DEF LaunchInv, EarlyInv, MetaStatus, RunStatus, RunTerminal
    <3>2. procs[sched[s].run] = <<>>
      BY <2>1, <2>2, <3>1 DEF LaunchInv, EarlyInv, Fresh
    <3> QED BY <2>1, <2>2, <2>5, <3>2, GotoLaunch DEF SchedPcs
  <2> QED BY <1>2, <2>3, <2>4, <2>5 DEF CheckHeartbeat
<1>3. CASE AbortRecovered(s) \/ FailStart(s)
  BY <1>3, TransitionLaunch
     DEF AbortRecovered, FailStart, Handling, SchedPcs, MetaStatus, RunStatus
<1>4. CASE Start(s)
  BY <1>4, TransitionLaunch DEF Start, Handling, SchedPcs, MetaStatus, RunStatus
<1>5. CASE Popen(s)
  BY <1>5, PopenLaunch
<1>6. CASE PopenFails(s)
  <2>1. sched[s].pc = "popen" /\ Goto(s, "broken") /\ UNCHANGED <<queueVars, procs>>
    BY <1>6 DEF PopenFails
  <2>2. sched[s].pc \in Handling /\ sched[s].pc \in Early
    BY <2>1 DEF Handling, Early, SchedPcs
  <2>3. procs[sched[s].run] = <<>>
    BY <2>1, <2>2 DEF LaunchInv, EarlyInv, Fresh
  <2> QED BY <2>1, <2>2, <2>3, GotoLaunch DEF SchedPcs
<1>7. CASE Wait(s) \/ ReadFinal(s)
  <2>1. \E pc \in {"final", "finish", "ack"} : Goto(s, pc)
    BY <1>7 DEF Wait, ReadFinal
  <2>2. UNCHANGED <<queueVars, procs>> /\ sched[s].pc \in Handling
    BY <1>7 DEF Wait, ReadFinal, Handling, SchedPcs
  <2> QED BY <2>1, <2>2, GotoLaunch DEF SchedPcs, Early
<1>8. CASE Finish(s)
  <2>1. sched[s].run \in Runs /\ sched[s].child \in 1..Len(procs[sched[s].run])
    BY <1>0, <1>8 DEF Finish, Handling, SchedPcs, Holds
  <2>2. Child(s) \in Process
    BY <2>1, ElementOfSeq DEF Child, TypeInv, TypeOK
  <2>3. Child(s).verdict \in MetaStatus
    BY <2>2 DEF Process, MetaStatus, RunStatus
  <2> QED BY <1>8, <2>3, TransitionLaunch DEF Finish, Handling, SchedPcs
<1>9. CASE Ack(s)
  <2>1. /\ sched' = [sched EXCEPT ![s] = Idler("poll")]
        /\ UNCHANGED <<queue, delivered, procs>>
        /\ pending' \subseteq pending /\ idle' \subseteq idle
    BY <1>9 DEF Ack
  <2> QED BY <2>1, DownLaunch
<1> QED BY <1>1, <1>2, <1>3, <1>4, <1>5, <1>6, <1>7, <1>8, <1>9 DEF HandleEntry

LEMMA SubmitLaunch ==
    ASSUME TypeInv, LaunchInv, [Next]_vars, NEW r \in Runs, Submit(r)
    PROVE  LaunchInv'
<1>0. /\ queue \in Seq(Runs) /\ Len(queue) \in Nat /\ delivered \in 0..Len(queue)
      /\ meta \in [Runs -> Meta]
      /\ \A i \in 1..Len(queue) : queue[i] \in Runs
  BY ElementOfSeq DEF TypeInv, TypeOK
<1>1. /\ meta[r].status = "absent"
      /\ queue' = Append(queue, r)
      /\ meta' = [meta EXCEPT ![r].status = "queued"]
      /\ UNCHANGED <<delivered, pending, idle, sched, procs>>
  BY DEF Submit
<1>2. \A x \in Runs : /\ meta[x].status # "absent" => meta'[x].status # "absent"
                      /\ Left(x) => Left(x)'
  BY LeftStays DEF LaunchInv
<1>3. /\ Len(queue') = Len(queue) + 1 /\ queue'[Len(queue) + 1] = r
      /\ \A i \in 1..Len(queue) : queue'[i] = queue[i] /\ queue[i] # r
  BY <1>0, <1>1 DEF LaunchInv, QueueInv
<1>4. meta'[r].status = "queued"
  BY <1>0, <1>1 DEF Meta
<1>5. LaunchedOnce'
  BY <1>1 DEF LaunchInv, LaunchedOnce, Launches
<1>6. QueueInv'
  <2>1. \A i \in 1..Len(queue') : i \in 1..Len(queue) \/ i = Len(queue) + 1
    BY <1>0, <1>3
  <2>2. \A i, j \in 1..Len(queue') : queue'[i] = queue'[j] => i = j
    BY <1>3, <2>1 DEF LaunchInv, QueueInv
  <2>3. \A i \in 1..Len(queue') : meta'[queue'[i]].status # "absent"
    BY <1>0, <1>2, <1>3, <1>4, <2>1 DEF LaunchInv, QueueInv
  <2> QED BY <2>2, <2>3 DEF QueueInv
<1>7. ProcsInv'
  BY <1>1, <1>2 DEF LaunchInv, ProcsInv, Left
<1>8. UndeliveredInv'
  <2>1. \A i \in 1..delivered : i \in 1..Len(queue)
    BY <1>0
  <2>2. Delivered' = Delivered
    BY <1>1, <1>3, <2>1 DEF Delivered
  <2> QED BY <1>1, <2>2 DEF LaunchInv, UndeliveredInv
<1>9. OneEarly'
  BY <1>1 DEF LaunchInv, OneEarly
<1>10. EarlyInv'
  <2>1. \A s \in Schedulers : sched[s].pc = "popen" => sched[s].run \in Runs
    BY DEF TypeInv, Holds, Handling, SchedPcs
  <2> QED BY <1>1, <1>2, <2>1 DEF LaunchInv, EarlyInv, Fresh, Left
<1> QED BY <1>5, <1>6, <1>7, <1>8, <1>9, <1>10 DEF LaunchInv

\* Emit never brings a run back to "queued".
LEMMA EmitStatus ==
    ASSUME NEW r, NEW p \in Process, NEW status \in RunStatus \ {"queued"},
           p.local.status # "queued"
    PROVE  Emit(r, p, status).local.status # "queued"
<1> DEFINE data == [status |-> status, rev |-> p.local.rev + 1]
<1>1. data.status # "queued"
  OBVIOUS
<1> HIDE DEF data
<1>2. [p EXCEPT !.local = data].local = data
  BY DEF Process
<1>3. Emit(r, p, status) = p \/ Emit(r, p, status) = [p EXCEPT !.local = data]
  BY DEF Emit, data
<1> QED BY <1>1, <1>2, <1>3

\* What an Analyzer becomes by a step of its own.
LEMMA AnalyzerMoves ==
    ASSUME TypeInv, NEW r \in Runs, NEW k \in DOMAIN procs[r],
           procs[r][k].local.status # "queued",
           ProcStep(r, k) \/ Die(r, k) \/ Disconnect(r, k) \/ Reconnect(r, k)
    PROVE  /\ \E q \in Process : Set(r, k, q) /\ q.local.status # "queued"
           /\ UNCHANGED <<queueVars, sched>>
<1> DEFINE p == procs[r][k]
<1>1. p \in Process /\ p.local.status # "queued"
  BY ProcType
<1> HIDE DEF p
<1> DEFINE Moved(q) == q \in Process /\ q.local = p.local
<1>2. /\ \A pc \in ProcPcs : Moved([p EXCEPT !.pc = pc])
      /\ Moved([p EXCEPT !.pc = "up", !.offline = TRUE])
      /\ Moved([p EXCEPT !.pc = "exited", !.verdict = "failed"])
      /\ \A b \in BOOLEAN : Moved([p EXCEPT !.offline = b])
  BY <1>1 DEF Process, ProcPcs
<1>3. CASE Boot(r, k) \/ Finalize(r, k) \/ Exit(r, k) \/ Die(r, k) \/ Disconnect(r, k)
           \/ Reconnect(r, k)
  <2>1. /\ UNCHANGED <<queueVars, sched>>
        /\ \/ \E pc \in {"up", "finalized", "exited"} : Set(r, k, [p EXCEPT !.pc = pc])
           \/ Set(r, k, [p EXCEPT !.pc = "up", !.offline = TRUE])
           \/ Set(r, k, [p EXCEPT !.pc = "exited", !.verdict = "failed"])
           \/ \E b \in BOOLEAN : Set(r, k, [p EXCEPT !.offline = b])
    BY <1>3 DEF Boot, Finalize, Exit, Die, Disconnect, Reconnect, p
  <2> QED BY <1>1, <1>2, <2>1 DEF ProcPcs
<1>4. CASE EmitRunning(r, k)
  <2> DEFINE e == Emit(r, p, "running")
  <2>1. e \in Process /\ e.local.status # "queued"
    BY <1>1, EmitTypes, EmitStatus DEF RunStatus
  <2>2. UNCHANGED <<queueVars, sched>> /\ Set(r, k, [e EXCEPT !.pc = "working"])
    BY <1>4 DEF EmitRunning, p
  <2> HIDE DEF e
  <2>3. /\ [e EXCEPT !.pc = "working"] \in Process
        /\ [e EXCEPT !.pc = "working"].local = e.local
    BY <2>1 DEF Process, ProcPcs
  <2> QED BY <2>1, <2>2, <2>3
<1>5. ASSUME NEW v \in {"succeeded", "failed"}, EmitFinal(r, k, v)
      PROVE  /\ \E q \in Process : Set(r, k, q) /\ q.local.status # "queued"
             /\ UNCHANGED <<queueVars, sched>>
  <2> DEFINE e == Emit(r, p, v)
  <2>1. e \in Process /\ e.local.status # "queued"
    BY <1>1, EmitTypes, EmitStatus DEF RunStatus
  <2>2. UNCHANGED <<queueVars, sched>> /\ Set(r, k, [e EXCEPT !.pc = "final", !.verdict = v])
    BY <1>5 DEF EmitFinal, p
  <2> HIDE DEF e
  <2>3. /\ [e EXCEPT !.pc = "final", !.verdict = v] \in Process
        /\ [e EXCEPT !.pc = "final", !.verdict = v].local = e.local
    BY <2>1 DEF Process, ProcPcs
  <2> QED BY <2>1, <2>2, <2>3
<1> QED BY <1>3, <1>4, <1>5 DEF ProcStep

LEMMA AnalyzerLaunch ==
    ASSUME TypeInv, LaunchInv, [Next]_vars, NEW r \in Runs, NEW k \in DOMAIN procs[r],
           ProcStep(r, k) \/ Die(r, k) \/ Disconnect(r, k) \/ Reconnect(r, k)
    PROVE  LaunchInv'
<1>0. procs \in [Runs -> Seq(Process)] /\ k \in 1..Len(procs[r])
  BY ProcType DEF TypeInv, TypeOK
<1>1. procs[r][k].local.status # "queued"
  BY <1>0 DEF LaunchInv, ProcsInv
<1>2. PICK q \in Process : Set(r, k, q) /\ q.local.status # "queued"
  BY <1>1, AnalyzerMoves
<1>3. UNCHANGED <<queue, delivered, pending, idle, sched>>
  BY <1>1, AnalyzerMoves DEF queueVars
<1>4. /\ procs' \in [Runs -> Seq(Process)]
      /\ \A x \in Runs : Len(procs'[x]) = Len(procs[x])
      /\ \A x \in Runs : \A j \in 1..Len(procs[x]) :
            procs'[x][j] = IF x = r /\ j = k THEN q ELSE procs[x][j]
  BY <1>2, SetProc
<1>5. \A x \in Runs : procs'[x] = <<>> <=> procs[x] = <<>>
  <2> SUFFICES ASSUME NEW x \in Runs PROVE procs'[x] = <<>> <=> procs[x] = <<>>
    OBVIOUS
  <2>1. procs[x] \in Seq(Process) /\ procs'[x] \in Seq(Process)
    BY <1>0, <1>4
  <2> QED BY <1>4, <2>1, EmptySeq
<1>6. \A x \in Runs : /\ meta[x].status # "absent" => meta'[x].status # "absent"
                      /\ Left(x) => Left(x)'
  BY LeftStays DEF LaunchInv
<1>7. LaunchedOnce'
  BY <1>4 DEF LaunchInv, LaunchedOnce, Launches
<1>8. QueueInv'
  <2>1. \A i \in 1..Len(queue) : queue[i] \in Runs
    BY ElementOfSeq DEF TypeInv, TypeOK
  <2> QED BY <1>3, <1>6, <2>1 DEF LaunchInv, QueueInv
<1>9. ProcsInv'
  <2>1. \A x \in Runs : \A j \in 1..Len(procs'[x]) : procs'[x][j].local.status # "queued"
    BY <1>2, <1>4 DEF LaunchInv, ProcsInv
  <2> QED BY <1>5, <1>6, <2>1 DEF LaunchInv, ProcsInv, Left
<1>10. UndeliveredInv'
  <2>1. Delivered' = Delivered
    BY <1>3 DEF Delivered
  <2> QED BY <1>3, <1>5, <2>1 DEF LaunchInv, UndeliveredInv
<1>11. OneEarly'
  BY <1>3 DEF LaunchInv, OneEarly
<1>12. EarlyInv'
  <2>1. \A s \in Schedulers : sched[s].pc \in Early => sched[s].run \in Runs
    BY DEF TypeInv, Holds, Early, Handling, SchedPcs
  <2> QED BY <1>3, <1>5, <1>6, <2>1 DEF LaunchInv, EarlyInv, Fresh, Left
<1> QED BY <1>7, <1>8, <1>9, <1>10, <1>11, <1>12 DEF LaunchInv

\* Without stalls the idle time of an entry restarts with its claim and passes
\* recovery_idle_ms only while its holder waits for the Analyzer.
LEMMA TimeLaunch ==
    ASSUME TypeInv, LaunchInv, [Next]_vars, "stall" \notin Delays,
           NEW r \in Runs, HeartbeatExpires(r) \/ GrowIdle(r)
    PROVE  LaunchInv'
<1>1. UNCHANGED <<queue, delivered, pending, meta, sched, procs>>
  BY DEF HeartbeatExpires, GrowIdle, queueVars
<1>2. \A s \in Schedulers : sched[s].pc \in Early /\ sched[s].run \in idle'
                               => sched[s].run \in idle
  BY DEF HeartbeatExpires, GrowIdle, queueVars, Early
<1>3. UndeliveredInv' /\ OneEarly'
  BY <1>1 DEF LaunchInv, UndeliveredInv, OneEarly, Delivered
<1>4. EarlyInv'
  BY <1>1, <1>2 DEF LaunchInv, EarlyInv, Fresh, Left
<1> QED BY <1>1, <1>3, <1>4, SameQueueAndProcs DEF LaunchInv

LEMMA LaunchInductive ==
    ASSUME "stall" \notin Delays, TypeInv, LaunchInv, [Next]_vars
    PROVE  LaunchInv'
<1>1. CASE UNCHANGED vars
  BY <1>1 DEF vars, queueVars, LaunchInv, LaunchedOnce, Launches, QueueInv, ProcsInv, Left,
              UndeliveredInv, Delivered, OneEarly, EarlyInv, Fresh
<1>2. ASSUME NEW s \in Schedulers, Crash(s) \/ Restart(s) PROVE LaunchInv'
  <2>1. /\ \E pc \in {"poll", "down"} : sched' = [sched EXCEPT ![s] = Idler(pc)]
        /\ UNCHANGED <<queue, delivered, pending, idle, procs>>
    BY <1>2 DEF Crash, Restart, queueVars
  <2> QED BY <2>1, DownLaunch
<1>3. CASE Next
  BY <1>2, <1>3, SubmitLaunch, LookLaunch, HandleLaunch, AnalyzerLaunch, TimeLaunch DEF Next
<1> QED BY <1>1, <1>3

\* LaunchedOnce: as long as no scheduler stalls in mid-handling for the time
\* after which others recover its entry, no run is launched twice, whatever
\* crashes, however slow its Analyzer and however long it is offline.
THEOREM SchedulerLaunchesOnce ==
    ASSUME "stall" \notin Delays
    PROVE  Spec => []LaunchedOnce
<1>1. Init => LaunchInv
  BY DEF Init, LaunchInv, LaunchedOnce, Launches, QueueInv, ProcsInv, UndeliveredInv,
         OneEarly, EarlyInv, Idler, Early, Handling, Delivered
<1>2. Spec => []TypeInv
  BY TypesInitially, TypesInductive, PTL DEF Spec
<1>3. TypeInv /\ LaunchInv /\ [Next]_vars => LaunchInv'
  BY LaunchInductive
<1>4. LaunchInv => LaunchedOnce
  BY DEF LaunchInv
<1> QED BY <1>1, <1>2, <1>3, <1>4, PTL DEF Spec

-----------------------------------------------------------------------------
(* The lifecycle of runs.                                                   *)

Verdicts == {"succeeded", "failed"}

\* The status moves of RunLifecycle.
Moves(old, new) ==
    \/ old = "absent" /\ new = "queued"
    \/ old = "queued" /\ new = "starting"
    \/ old = "starting" /\ new = "running"
    \/ old \in {"starting", "running"} /\ new \in RunTerminal
    \/ old = "aborted" /\ new \in Verdicts

\* No status but that of r changes, and that as RunLifecycle allows.
StatusMove(r) ==
    /\ meta'[r].status = meta[r].status \/ Moves(meta[r].status, meta'[r].status)
    /\ \A x \in Runs \ {r} : meta'[x].status = meta[x].status

\* The verdicts that an Analyzer may have reported, or its scheduler for it.
Announced(p) == IF p.pc \in {"final", "finalized"} THEN {p.verdict}
                ELSE IF p.pc = "exited" THEN Verdicts ELSE {}

\* What the only Analyzer of a run holds of it agrees with its status.
Story(p, status) ==
    /\ p.local.status \in {"starting", "running"} \union Verdicts
    /\ p.local.status = "starting" => p.local.rev = 0
    /\ p.local.status \in Verdicts => p.local.status \in Announced(p)
    /\ status \in Verdicts => status \in Announced(p)

Ended(r) == \A k \in 1..Len(procs[r]) : procs[r][k].pc = "exited"

\* What a scheduler on its way to a launch, or back from it, knows of its run.
HeldInv(s) ==
    /\ sched[s].pc \in {"beat", "start", "popen", "broken"} /\ Fresh(sched[s]) =>
          ~Over(sched[s].run)
    /\ sched[s].pc = "beat" /\ sched[s].seen \notin {"absent", "queued"} => Left(sched[s].run)
    /\ sched[s].pc \in {"abort", "broken"} => Left(sched[s].run)
    /\ sched[s].pc \in {"final", "finish"} => Ended(sched[s].run)

LifeInv ==
    /\ \A r \in Runs : meta[r].status # "stale"
    /\ \A r \in Runs : \A k \in 1..Len(procs[r]) : Story(procs[r][k], meta[r].status)
    /\ \A s \in Schedulers : HeldInv(s)

\* RUN_TRANSITION_LUA lets a run that was started move as RunLifecycle allows,
\* also for a snapshot, which may skip statuses.
LEMMA WriteMoves ==
    ASSUME NEW old \in RunStatus \ {"queued", "stale"}, NEW rev,
           NEW data \in [status : {"running"} \union Verdicts, rev : Nat],
           NEW snapshot \in BOOLEAN, RunWriteReply(old, rev, data, snapshot) = "accepted"
    PROVE  data.status = old \/ Moves(old, data.status)
<1> DEFINE new == data.status
<1>1. new \in {"running"} \union Verdicts
  OBVIOUS
<1>2. RunAllowed(old, new, snapshot)
  BY DEF RunWriteReply
<1> HIDE DEF new
<1>3. old = new \/ new \in RunMoves[old] \/ old \notin RunTerminal
  BY <1>2 DEF RunAllowed, RunStatus
<1>4. old \in {"starting", "running"} \union RunTerminal
  BY DEF RunStatus, RunTerminal
<1>5. old \in RunTerminal => RunMoves[old] = {}
  BY DEF RunMoves, RunTerminal, MetaStatus, RunStatus
<1>6. new = old \/ Moves(old, new)
  BY <1>1, <1>3, <1>4, <1>5 DEF Moves, RunTerminal, Verdicts
<1> QED BY <1>6 DEF new

\* A write to one run.
LEMMA SetStatus ==
    ASSUME TypeInv, NEW r \in Runs, NEW rec, meta' = [meta EXCEPT ![r] = rec],
           rec.status = meta[r].status \/ Moves(meta[r].status, rec.status)
    PROVE  StatusMove(r) /\ meta'[r].status = rec.status
BY DEF TypeInv, TypeOK, StatusMove

LEMMA SetStatusOnly ==
    ASSUME TypeInv, NEW r \in Runs, NEW new, meta' = [meta EXCEPT ![r].status = new],
           new = meta[r].status \/ Moves(meta[r].status, new)
    PROVE  StatusMove(r) /\ meta'[r].status = new
<1> DEFINE rec == [meta[r] EXCEPT !.status = new]
<1>1. meta' = [meta EXCEPT ![r] = rec] /\ rec.status = new
  BY DEF TypeInv, TypeOK, Meta
<1> HIDE DEF rec
<1> QED BY <1>1, SetStatus

LEMMA SameStatus ==
    ASSUME UNCHANGED meta, NEW r \in Runs
    PROVE  StatusMove(r) /\ meta'[r].status = meta[r].status
BY DEF StatusMove

\* RUN_TRANSITION_LUA on a run that was started.
LEMMA WriteStatus ==
    ASSUME TypeInv, NEW r \in Runs, Left(r), meta[r].status # "stale",
           NEW data \in [status : {"running"} \union Verdicts, rev : Nat],
           WriteRun(r, data, FALSE)
    PROVE  StatusMove(r) /\ meta'[r].status \in {meta[r].status, data.status}
<1>1. CASE RunWriteReply(meta[r].status, meta[r].rev, data, FALSE) = "accepted"
  <2> DEFINE rec == [meta[r] EXCEPT !.status = data.status, !.rev = data.rev]
  <2>1. meta' = [meta EXCEPT ![r] = rec] /\ rec.status = data.status
    BY <1>1 DEF WriteRun, TypeInv, TypeOK, Meta
  <2>2. meta[r].status \in RunStatus \ {"queued", "stale"}
    BY DEF TypeInv, TypeOK, Meta, MetaStatus, Left
  <2>3. data.status = meta[r].status \/ Moves(meta[r].status, data.status)
    BY <1>1, <2>2, WriteMoves
  <2> HIDE DEF rec
  <2> QED BY <2>1, <2>3, SetStatus
<1>2. CASE RunWriteReply(meta[r].status, meta[r].rev, data, FALSE) # "accepted"
  BY <1>2, SameStatus DEF WriteRun
<1> QED BY <1>1, <1>2

\* What an Analyzer reports of its run.
LEMMA EmitStory ==
    ASSUME NEW r, NEW p \in Process, NEW status \in {"running"} \union Verdicts
    PROVE  /\ Emit(r, p, status) \in Process
           /\ Emit(r, p, status).pc = p.pc
           /\ \/ Emit(r, p, status).local = p.local
              \/ /\ Emit(r, p, status).local.status = status
                 /\ Emit(r, p, status).local.rev = p.local.rev + 1
<1>1. Emit(r, p, status) \in Process
  BY EmitTypes DEF Verdicts, RunStatus
<1> DEFINE data == [status |-> status, rev |-> p.local.rev + 1]
<1>2. data.status = status /\ data.rev = p.local.rev + 1
  OBVIOUS
<1> HIDE DEF data
<1>3. [p EXCEPT !.local = data].local = data /\ [p EXCEPT !.local = data].pc = p.pc
  BY DEF Process
<1>4. Emit(r, p, status) = p \/ Emit(r, p, status) = [p EXCEPT !.local = data]
  BY DEF Emit, data
<1> QED BY <1>1, <1>2, <1>3, <1>4

\* A step of the only Analyzer of a run.
LEMMA AnalyzerStory ==
    ASSUME TypeInv, NEW r \in Runs, NEW k \in DOMAIN procs[r], Left(r),
           meta[r].status # "stale", Story(procs[r][k], meta[r].status),
           ProcStep(r, k) \/ Die(r, k) \/ Disconnect(r, k) \/ Reconnect(r, k)
    PROVE  /\ \E q \in Process : Set(r, k, q) /\ Story(q, meta'[r].status)
           /\ StatusMove(r)
<1> DEFINE p == procs[r][k]
           old == meta[r].status
           new == meta'[r].status
           Goal == /\ \E q \in Process : Set(r, k, q) /\ Story(q, new)
                   /\ StatusMove(r)
<1> SUFFICES Goal
  OBVIOUS
<1>0. p \in Process /\ Story(p, old) /\ meta \in [Runs -> Meta] /\ meta[r] \in Meta
  BY ProcType DEF TypeInv, TypeOK
<1>1. /\ p.local.rev \in Nat /\ p.local.status \in {"starting", "running"} \union Verdicts
      /\ p.verdict \in Verdicts
      /\ old \in RunStatus \ {"queued", "stale"}
  BY <1>0 DEF Process, Story, Verdicts, Meta, MetaStatus, Left
<1> HIDE DEF p, Goal
<1>2. CASE Boot(r, k)
  <2> DEFINE rec == [meta[r] EXCEPT !.initialized = TRUE, !.rev = 0,
                                    !.status = IF @ = "queued" THEN "starting" ELSE @]
  <2>1. rec.status = old
    BY <1>0, <1>1 DEF Meta
  <2>2. UNCHANGED meta \/ meta' = [meta EXCEPT ![r] = rec]
    BY <1>0, <1>2 DEF Boot
  <2> HIDE DEF rec
  <2>3. StatusMove(r) /\ new = old
    BY <2>1, <2>2, SameStatus, SetStatus
  <2> DEFINE q1 == [p EXCEPT !.pc = "up"]
             q2 == [p EXCEPT !.pc = "up", !.offline = TRUE]
  <2>4. p.pc = "boot" /\ (Set(r, k, q1) \/ Set(r, k, q2))
    BY <1>2 DEF Boot, p
  <2>5. /\ q1 \in Process /\ q1.local = p.local
        /\ q2 \in Process /\ q2.local = p.local
    BY <1>0 DEF Process, ProcPcs
  <2> HIDE DEF q1, q2
  <2>6. Story(q1, old) /\ Story(q2, old)
    BY <1>0, <2>4, <2>5 DEF Story, Announced
  <2> QED BY <2>3, <2>4, <2>5, <2>6 DEF Goal
<1>3. CASE EmitRunning(r, k)
  <2> DEFINE data == [status |-> "running", rev |-> p.local.rev + 1]
             e == Emit(r, p, "running")
             q == [e EXCEPT !.pc = "working"]
  <2>1. /\ p.pc = "up" /\ Set(r, k, q)
        /\ UNCHANGED meta \/ WriteRun(r, data, FALSE)
    BY <1>3 DEF EmitRunning, p
  <2>2. data \in [status : {"running"} \union Verdicts, rev : Nat] /\ data.status = "running"
    BY <1>1
  <2> HIDE DEF data
  <2>3. StatusMove(r) /\ new \in {old, "running"}
    BY <2>1, <2>2, SameStatus, WriteStatus
  <2>4. e \in Process /\ (e.local = p.local \/ (e.local.status = "running"
                                                 /\ e.local.rev = p.local.rev + 1))
    BY <1>0, EmitStory
  <2> HIDE DEF e
  <2>5. q \in Process /\ q.local = e.local
    BY <2>4 DEF Process, ProcPcs
  <2> HIDE DEF q
  <2>6. old \notin Verdicts /\ p.local.status \notin Verdicts
    BY <1>0, <2>1 DEF Story, Announced
  <2>7. new \notin Verdicts
    BY <2>3, <2>6 DEF Verdicts
  <2>8. Story(q, new)
    BY <1>0, <2>4, <2>5, <2>6, <2>7 DEF Story, Verdicts
  <2> QED BY <2>1, <2>3, <2>5, <2>8 DEF Goal
<1>4. ASSUME NEW v \in Verdicts, EmitFinal(r, k, v) PROVE Goal
  <2> DEFINE data == [status |-> v, rev |-> p.local.rev + 1]
             e == Emit(r, p, v)
             q == [e EXCEPT !.pc = "final", !.verdict = v]
  <2>1. /\ p.pc = "working" /\ Set(r, k, q)
        /\ UNCHANGED meta \/ WriteRun(r, data, FALSE)
    BY <1>4 DEF EmitFinal, p
  <2>2. data \in [status : {"running"} \union Verdicts, rev : Nat] /\ data.status = v
    BY <1>1
  <2> HIDE DEF data
  <2>3. StatusMove(r) /\ new \in {old, v}
    BY <2>1, <2>2, SameStatus, WriteStatus
  <2>4. e \in Process /\ (e.local = p.local \/ (e.local.status = v
                                                 /\ e.local.rev = p.local.rev + 1))
    <3>1. v \in {"running"} \union Verdicts
      OBVIOUS
    <3> QED BY <1>0, <3>1, EmitStory
  <2> HIDE DEF e
  <2>5. q \in Process /\ q.local = e.local /\ q.pc = "final" /\ q.verdict = v
    BY <2>4 DEF Process, ProcPcs, Verdicts
  <2> HIDE DEF q
  <2>6. old \notin Verdicts /\ p.local.status \notin Verdicts
    BY <1>0, <2>1 DEF Story, Announced
  <2>7. Announced(q) = {v}
    BY <2>5 DEF Announced
  <2>8. Story(q, new)
    BY <1>0, <2>3, <2>4, <2>5, <2>6, <2>7 DEF Story, Verdicts
  <2> QED BY <2>1, <2>3, <2>5, <2>8 DEF Goal
<1>5. CASE Finalize(r, k)
  <2> DEFINE q == [p EXCEPT !.pc = "finalized"]
  <2>1. /\ p.pc = "final" /\ Set(r, k, q)
        /\ UNCHANGED meta \/ meta' = [meta EXCEPT ![r].status = p.verdict]
    BY <1>5 DEF Finalize, p
  <2>2. p.verdict = old \/ Moves(old, p.verdict)
    BY <1>0, <1>1, <2>1 DEF Story, Announced, Moves, RunStatus, RunTerminal, Verdicts
  <2>3. StatusMove(r) /\ new \in {old, p.verdict}
    BY <2>1, <2>2, SameStatus, SetStatusOnly
  <2>4. q \in Process /\ q.local = p.local /\ q.pc = "finalized" /\ q.verdict = p.verdict
    BY <1>0 DEF Process, ProcPcs
  <2> HIDE DEF q
  <2>5. Announced(q) = {p.verdict} /\ Announced(p) = {p.verdict}
    BY <2>1, <2>4 DEF Announced
  <2>6. Story(q, new)
    BY <1>0, <2>3, <2>4, <2>5 DEF Story
  <2> QED BY <2>1, <2>3, <2>4, <2>6 DEF Goal
<1>6. CASE Exit(r, k) \/ Die(r, k)
  <2> DEFINE q1 == [p EXCEPT !.pc = "exited"]
             q2 == [p EXCEPT !.pc = "exited", !.verdict = "failed"]
  <2>1. (Set(r, k, q1) \/ Set(r, k, q2)) /\ UNCHANGED meta
    BY <1>6 DEF Exit, Die, p
  <2>2. /\ q1 \in Process /\ q1.local = p.local /\ q1.pc = "exited"
        /\ q2 \in Process /\ q2.local = p.local /\ q2.pc = "exited"
    BY <1>0 DEF Process, ProcPcs
  <2> HIDE DEF q1, q2
  <2>3. Story(q1, old) /\ Story(q2, old)
    BY <1>0, <2>2 DEF Story, Announced
  <2> QED BY <2>1, <2>2, <2>3, SameStatus DEF Goal
<1>7. CASE Disconnect(r, k)
  <2> DEFINE q == [p EXCEPT !.offline = TRUE]
  <2>1. Set(r, k, q) /\ UNCHANGED meta
    BY <1>7 DEF Disconnect, p
  <2>2. q \in Process /\ q.local = p.local /\ q.pc = p.pc /\ q.verdict = p.verdict
    BY <1>0 DEF Process
  <2> HIDE DEF q
  <2>3. Story(q, old)
    BY <1>0, <2>2 DEF Story, Announced
  <2> QED BY <2>1, <2>2, <2>3, SameStatus DEF Goal
<1>8. CASE Reconnect(r, k)
  <2> DEFINE wasRev == IF meta[r].initialized THEN meta[r].rev ELSE 0
             reply == IF p.local.rev = 0 THEN "stale"
                      ELSE RunWriteReply(old, wasRev, p.local, TRUE)
             status == IF p.pc = "finalized" THEN p.verdict
                       ELSE IF reply = "accepted" THEN p.local.status ELSE old
             rec == [initialized |-> TRUE,
                     rev |-> IF reply = "accepted" THEN p.local.rev ELSE wasRev,
                     status |-> status]
             q == [p EXCEPT !.offline = FALSE]
  <2>1. Set(r, k, q) /\ meta' = [meta EXCEPT ![r] = rec]
    BY <1>1, <1>8 DEF Reconnect, p
  <2>2. rec.status = status
    OBVIOUS
  <2>3. reply = "accepted" =>
          p.local.status = old \/ Moves(old, p.local.status)
    <3> SUFFICES ASSUME reply = "accepted"
                 PROVE  p.local.status = old \/ Moves(old, p.local.status)
      OBVIOUS
    <3>1. p.local.rev # 0 /\ RunWriteReply(old, wasRev, p.local, TRUE) = "accepted"
      OBVIOUS
    <3>2. p.local.status \in {"running"} \union Verdicts
      BY <1>0, <1>1, <3>1 DEF Story
    <3>3. p.local \in [status : {"running"} \union Verdicts, rev : Nat]
      BY <1>0, <3>2 DEF Process
    <3> HIDE DEF wasRev
    <3> QED BY <1>1, <3>1, <3>3, WriteMoves
  <2> HIDE DEF reply, rec
  <2>4. p.pc = "finalized" => p.verdict = old \/ Moves(old, p.verdict)
    BY <1>0, <1>1 DEF Story, Announced, Moves, RunStatus, RunTerminal, Verdicts
  <2>5. status = old \/ Moves(old, status)
    BY <2>3, <2>4
  <2>6. StatusMove(r) /\ new = status
    BY <2>1, <2>2, <2>5, SetStatus
  <2>7. q \in Process /\ q.local = p.local /\ q.pc = p.pc /\ q.verdict = p.verdict
    BY <1>0 DEF Process
  <2> HIDE DEF q
  <2>8. Announced(q) = Announced(p) /\ (p.pc = "finalized" => Announced(p) = {p.verdict})
    BY <2>7 DEF Announced
  <2>9. Story(q, status)
    BY <1>0, <2>7, <2>8 DEF Story
  <2> QED BY <2>1, <2>6, <2>7, <2>9 DEF Goal
<1> QED BY <1>2, <1>3, <1>4, <1>5, <1>6, <1>7, <1>8 DEF ProcStep, Verdicts

\* A step moves at most the status of r, and the schedulers in S.
LEMMA LifeKept ==
    ASSUME TypeInv, LaunchInv, LifeInv, [Next]_vars, NEW r \in Runs, StatusMove(r),
           meta'[r].status # "stale",
           \A x \in Runs \ {r} : procs'[x] = procs[x],
           \A k \in 1..Len(procs'[r]) : Story(procs'[r][k], meta'[r].status),
           NEW S \in SUBSET Schedulers,
           \A t \in Schedulers \ S : sched'[t] = sched[t],
           \A t \in S : HeldInv(t)',
           meta'[r].status = meta[r].status \/
              \A t \in Schedulers \ S :
                 sched[t].run = r /\ sched[t].pc \in Early => ~Fresh(sched[t]),
           procs'[r] = procs[r] \/
              \A t \in Schedulers \ S : sched[t].pc \in {"final", "finish"} => sched[t].run # r
    PROVE  LifeInv'
<1>1. \A x \in Runs : meta'[x].status # "stale"
  BY DEF LifeInv, StatusMove
<1>2. \A x \in Runs : \A k \in 1..Len(procs'[x]) : Story(procs'[x][k], meta'[x].status)
  <2> SUFFICES ASSUME NEW x \in Runs, x # r
               PROVE  \A k \in 1..Len(procs'[x]) : Story(procs'[x][k], meta'[x].status)
    OBVIOUS
  <2>1. procs'[x] = procs[x] /\ meta'[x].status = meta[x].status
    BY DEF StatusMove
  <2> QED BY <2>1 DEF LifeInv
<1>3. ASSUME NEW t \in Schedulers \ S PROVE HeldInv(t)'
  <2> DEFINE w == sched[t]
  <2>1. sched'[t] = w /\ HeldInv(t)
    BY DEF LifeInv
  <2>2. w.pc \in Early => w.run \in Runs
    BY DEF TypeInv, Holds, Early, Handling, SchedPcs
  <2>3. w.pc \in {"beat", "start", "popen", "broken"} /\ Fresh(w) =>
          meta'[w.run].status \notin RunTerminal
    <3> SUFFICES ASSUME w.pc \in {"beat", "start", "popen", "broken"}, Fresh(w)
                 PROVE  meta'[w.run].status \notin RunTerminal
      OBVIOUS
    <3>1. w.pc \in Early /\ w.run \in Runs /\ meta[w.run].status \notin RunTerminal
      BY <2>1, <2>2 DEF Early, HeldInv, Over
    <3>2. meta'[w.run].status = meta[w.run].status
      BY <3>1 DEF StatusMove
    <3> QED BY <3>1, <3>2
  <2>4. w.pc \in Early /\ Left(w.run) => Left(w.run)'
    BY <2>1, <2>2, LeftStays DEF LaunchInv, Left
  <2>5. w.pc \in {"final", "finish"} => w.run \in Runs /\ procs'[w.run] = procs[w.run]
    BY DEF TypeInv, Holds, Handling, SchedPcs
  <2>6. w.pc \in {"final", "finish"} => Ended(w.run)'
    BY <2>1, <2>5 DEF HeldInv, Ended
  <2> QED BY <2>1, <2>3, <2>4, <2>6 DEF HeldInv, Over, Left, Early, Ended
<1>4. \A s \in Schedulers : HeldInv(s)'
  BY <1>3
<1> QED BY <1>1, <1>2, <1>4 DEF LifeInv

LEMMA AnalyzerLife ==
    ASSUME TypeInv, LaunchInv, LifeInv, [Next]_vars, NEW r \in Runs, NEW k \in DOMAIN procs[r],
           ProcStep(r, k) \/ Die(r, k) \/ Disconnect(r, k) \/ Reconnect(r, k)
    PROVE  LifeInv' /\ StatusMove(r) /\ UNCHANGED <<queueVars, sched>>
<1>0. /\ procs \in [Runs -> Seq(Process)] /\ Len(procs[r]) \in Nat /\ k \in 1..Len(procs[r])
      /\ Len(procs[r]) <= 1
  BY ProcType DEF TypeInv, TypeOK, LaunchInv, LaunchedOnce, Launches
<1>1. procs[r] # <<>> /\ k = 1 /\ Len(procs[r]) = 1
  <2> DEFINE n == Len(procs[r])
  <2>1. n \in Nat /\ n <= 1 /\ k \in 1..n
    BY <1>0
  <2> HIDE DEF n
  <2>2. k = 1 /\ n = 1
    BY <2>1
  <2>3. procs[r] # <<>>
    <3>1. procs[r] = <<>> => n = 0
      BY EmptySeq DEF n
    <3> QED BY <2>2, <3>1
  <2> QED BY <2>2, <2>3 DEF n
<1>2. Left(r) /\ meta[r].status # "stale" /\ Story(procs[r][k], meta[r].status)
  BY <1>0, <1>1 DEF LaunchInv, ProcsInv, LifeInv
<1>3. StatusMove(r) /\ \E q \in Process : Set(r, k, q) /\ Story(q, meta'[r].status)
  BY <1>2, AnalyzerStory
<1>4. PICK q \in Process : Set(r, k, q) /\ Story(q, meta'[r].status)
  BY <1>3
<1>5. UNCHANGED <<queueVars, sched>>
  BY DEF ProcStep, Boot, EmitRunning, EmitFinal, Finalize, Exit, Die, Disconnect, Reconnect
<1>6. /\ Len(procs'[r]) = 1 /\ procs'[r][1] = q
      /\ \A x \in Runs \ {r} : procs'[x] = procs[x]
  BY <1>0, <1>1, <1>4, SetProc DEF Set
<1>7. \A j \in 1..Len(procs'[r]) : Story(procs'[r][j], meta'[r].status)
  BY <1>4, <1>6
<1>8. meta'[r].status # "stale"
  BY <1>2, <1>3 DEF StatusMove, Moves, RunTerminal, Verdicts
<1>9. \A t \in Schedulers : sched[t].run = r /\ sched[t].pc \in Early => ~Fresh(sched[t])
  BY <1>1 DEF LaunchInv, EarlyInv
<1>10. \A t \in Schedulers : sched[t].pc \in {"final", "finish"} => sched[t].run # r
  <2>1. procs[r][k].pc # "exited"
    BY DEF ProcStep, Boot, EmitRunning, EmitFinal, Finalize, Exit, Die, Disconnect, Reconnect, Connected
  <2> QED BY <1>0, <2>1 DEF LifeInv, HeldInv, Ended
<1>11. LifeInv'
  <2> DEFINE S == {}
  <2>1. /\ S \in SUBSET Schedulers
        /\ \A t \in Schedulers \ S : sched'[t] = sched[t]
        /\ \A t \in S : HeldInv(t)'
    BY <1>5
  <2>2. \A t \in Schedulers \ S : sched[t].run = r /\ sched[t].pc \in Early => ~Fresh(sched[t])
    BY <1>9
  <2>3. \A t \in Schedulers \ S : sched[t].pc \in {"final", "finish"} => sched[t].run # r
    BY <1>10
  <2> HIDE DEF S
  <2> QED BY <1>3, <1>6, <1>7, <1>8, <2>1, <2>2, <2>3, LifeKept
<1> QED BY <1>3, <1>5, <1>11

\* A scheduler's move to the state w, which leaves all runs as they are.
LEMMA QuietLife ==
    ASSUME TypeInv, LaunchInv, LifeInv, [Next]_vars, NEW s \in Schedulers, NEW w,
           sched' = [sched EXCEPT ![s] = w], UNCHANGED <<meta, procs>>,
           w.pc \in {"beat", "start", "popen", "broken"} /\ Fresh(w) => ~Over(w.run),
           w.pc = "beat" /\ w.seen \notin {"absent", "queued"} => Left(w.run),
           w.pc \in {"abort", "broken"} => Left(w.run),
           w.pc \in {"final", "finish"} => Ended(w.run)
    PROVE  LifeInv'
<1>1. sched'[s] = w /\ \A t \in Schedulers \ {s} : sched'[t] = sched[t]
  BY DEF TypeInv, TypeOK
<1>2. HeldInv(s)'
  BY <1>1 DEF HeldInv, Over, Left, Ended
<1>3. \A t \in Schedulers \ {s} : HeldInv(t)'
  BY <1>1 DEF LifeInv, HeldInv, Over, Left, Ended
<1> QED BY <1>2, <1>3 DEF LifeInv

\* A scheduler looks for an entry, goes down or comes back.
LEMMA LookLife ==
    ASSUME TypeInv, LaunchInv, LifeInv, [Next]_vars, NEW s \in Schedulers,
           Look(s) \/ Crash(s) \/ Restart(s)
    PROVE  LifeInv' /\ UNCHANGED meta
<1>1. UNCHANGED <<meta, procs>>
  BY DEF Look, CountPending, Claim, Read, Crash, Restart
<1>2. \/ \E pc \in {"poll", "claim", "read"} : sched' = [sched EXCEPT ![s] = [sched[s] EXCEPT !.pc = pc]]
      \/ \E r \in {queue[i] : i \in DOMAIN queue} \union {queue[delivered + 1]}, recovered \in BOOLEAN :
            Take(s, r, recovered)
      \/ \E pc \in {"poll", "down"} : sched' = [sched EXCEPT ![s] = Idler(pc)]
  BY DEF Look, CountPending, Claim, Read, Crash, Restart, Goto, TypeInv, TypeOK
<1>3. PICK w : /\ sched' = [sched EXCEPT ![s] = w]
               /\ w.pc \in {"poll", "claim", "read", "down", "status"}
  BY <1>2 DEF Take, Idler, TypeInv, TypeOK, Worker
<1> QED BY <1>1, <1>3, QuietLife

\* A transition that a scheduler asks for, unless it is rejected or the run is over.
LEMMA TransitionLife ==
    ASSUME TypeInv, LaunchInv, LifeInv, [Next]_vars, NEW s \in Schedulers, sched[s].pc \in Handling,
           NEW new \in {"starting"} \union RunTerminal, NEW next \in {"ack", "popen"},
           Transition(s, new, next),
           sched[s].pc \in Early \/ procs[sched[s].run] # <<>>,
           new \in RunTerminal => Left(sched[s].run) /\ next = "ack",
           new \in Verdicts => Ended(sched[s].run),
           next = "popen" => new = "starting" /\ ~Over(sched[s].run)
    PROVE  LifeInv' /\ StatusMove(sched[s].run) /\ UNCHANGED queueVars
<1> DEFINE r == sched[s].run
           old == meta[r].status
           reply == SchedulerReply(old, new)
<1>0. /\ r \in Runs /\ meta[r] \in Meta /\ old \in MetaStatus /\ old # "stale"
      /\ UNCHANGED <<queueVars, procs>> /\ sched \in [Schedulers -> Worker]
  BY DEF TypeInv, TypeOK, Holds, Meta, Transition, LifeInv
<1>1. meta' = IF reply = "accepted" THEN [meta EXCEPT ![r].status = new] ELSE meta
  BY DEF Transition
<1>2. \/ sched' = [sched EXCEPT ![s] = Idler("down")]
      \/ Goto(s, next)
  BY DEF Transition
<1>3. reply = "accepted" => old \notin RunTerminal /\ (new = old \/ Moves(old, new))
  <2>1. new = "starting" /\ reply = "accepted" => old \in {"queued", "starting"}
    BY <1>0 DEF SchedulerReply, SchedulerMoves, RunTerminal, MetaStatus, RunStatus
  <2>2. new \in RunTerminal /\ reply = "accepted" => old \in {"starting", "running"}
    BY <1>0 DEF SchedulerReply, RunTerminal, MetaStatus, RunStatus, Left
  <2> QED BY <2>1, <2>2 DEF Moves, RunTerminal
<1> HIDE DEF reply
<1>4. StatusMove(r) /\ meta'[r].status \in {old, new}
  BY <1>0, <1>1, <1>3, SameStatus, SetStatusOnly
<1>5. \A t \in Schedulers \ {s} : sched[t].run = r /\ sched[t].pc \in Early => ~Fresh(sched[t])
  BY DEF LaunchInv, OneEarly, EarlyInv
<1>6. \A k \in 1..Len(procs'[r]) : Story(procs'[r][k], meta'[r].status)
  <2>1. \A k \in 1..Len(procs[r]) : Story(procs[r][k], old)
    BY <1>0 DEF LifeInv
  <2>2. \A k \in 1..Len(procs[r]) : new \in Verdicts => new \in Announced(procs[r][k])
    BY DEF Announced, Ended
  <2> QED BY <1>0, <1>4, <2>1, <2>2 DEF Story
<1>7. HeldInv(s)'
  <2>1. CASE sched' = [sched EXCEPT ![s] = Idler("down")]
    BY <1>0, <2>1 DEF HeldInv, Idler
  <2>2. CASE Goto(s, next)
    <3>1. sched'[s].pc = next /\ sched'[s].run = r
      BY <1>0, <2>2 DEF Goto, Worker
    <3>2. next = "popen" => meta'[r].status \notin RunTerminal
      BY <1>4 DEF Over, RunTerminal
    <3> QED BY <3>1, <3>2 DEF HeldInv, Over
  <2> QED BY <1>2, <2>1, <2>2
<1>8. LifeInv'
  <2>1. meta'[r].status # "stale"
    BY <1>0, <1>4 DEF RunTerminal
  <2>2. \A t \in Schedulers \ {s} : sched'[t] = sched[t]
    BY <1>0, <1>2 DEF Goto
  <2>3. \A x \in Runs \ {r} : procs'[x] = procs[x]
    BY <1>0
  <2> DEFINE S == {s}
  <2>4. /\ S \in SUBSET Schedulers
        /\ \A t \in Schedulers \ S : sched'[t] = sched[t]
        /\ \A t \in S : HeldInv(t)'
        /\ \A t \in Schedulers \ S : sched[t].run = r /\ sched[t].pc \in Early => ~Fresh(sched[t])
    BY <1>5, <1>7, <2>2
  <2> HIDE DEF S, r
  <2> QED BY <1>0, <1>4, <1>6, <2>1, <2>3, <2>4, LifeKept
<1> QED BY <1>0, <1>4, <1>8

LEMMA PopenLife ==
    ASSUME TypeInv, LaunchInv, LifeInv, [Next]_vars, NEW s \in Schedulers, Popen(s)
    PROVE  LifeInv' /\ UNCHANGED <<meta, queueVars>>
<1> DEFINE r == sched[s].run
           w == [sched[s] EXCEPT !.pc = "wait", !.child = Len(procs[r]) + 1]
<1>0. /\ sched \in [Schedulers -> Worker] /\ sched[s] \in Worker /\ sched[s].pc = "popen"
      /\ r \in Runs /\ procs \in [Runs -> Seq(Process)]
  BY DEF Popen, TypeInv, TypeOK, Holds, Handling, SchedPcs
<1>1. /\ procs' = [procs EXCEPT ![r] = Append(procs[r], NewProc)]
      /\ sched' = [sched EXCEPT ![s] = w]
      /\ UNCHANGED <<meta, queueVars>>
  BY <1>0 DEF Popen
<1>2. procs[r] = <<>> /\ Fresh(sched[s])
  BY <1>0 DEF LaunchInv, EarlyInv, Early, Fresh
<1>3. /\ \A x \in Runs \ {r} : procs'[x] = procs[x]
      /\ Len(procs'[r]) = 1 /\ procs'[r][1] = NewProc
  BY <1>0, <1>1, <1>2
<1>4. meta[r].status \notin Verdicts
  BY <1>0, <1>2 DEF LifeInv, HeldInv, Over, RunTerminal, Verdicts
<1>5. Story(NewProc, meta[r].status)
  BY <1>4 DEF Story, NewProc, Verdicts
<1>6. w.pc = "wait"
  BY <1>0 DEF Worker
<1>7. sched'[s].pc = "wait" /\ \A t \in Schedulers \ {s} : sched'[t] = sched[t]
  BY <1>0, <1>1, <1>6
<1> DEFINE S == {s}
<1>8. /\ S \in SUBSET Schedulers
      /\ \A t \in Schedulers \ S : sched'[t] = sched[t]
      /\ \A t \in S : HeldInv(t)'
      /\ \A t \in Schedulers \ S : sched[t].pc \in {"final", "finish"} => sched[t].run # r
  BY <1>2, <1>7 DEF HeldInv, TypeInv, Holds
<1>9. StatusMove(r) /\ meta'[r].status = meta[r].status /\ meta[r].status # "stale"
  BY <1>0, <1>1, SameStatus DEF LifeInv
<1>10. \A k \in 1..Len(procs'[r]) : Story(procs'[r][k], meta'[r].status)
  BY <1>3, <1>5, <1>9
<1> HIDE DEF S, r
<1>11. LifeInv'
  BY <1>0, <1>3, <1>8, <1>9, <1>10, LifeKept
<1> QED BY <1>1, <1>11

LEMMA HandleLife ==
    ASSUME TypeInv, LaunchInv, LifeInv, [Next]_vars, NEW s \in Schedulers, HandleEntry(s)
    PROVE  /\ LifeInv'
           /\ UNCHANGED meta \/ (StatusMove(sched[s].run) /\ UNCHANGED queueVars)
<1>0. /\ sched \in [Schedulers -> Worker] /\ sched[s] \in Worker
      /\ HeldInv(s) /\ (sched[s].pc \in Handling => sched[s].run \in Runs)
      /\ Early \subseteq Handling
  BY DEF TypeInv, TypeOK, LifeInv, Holds, Early, Handling, SchedPcs
<1>1. CASE ReadStatus(s)
  <2> DEFINE r == sched[s].run
             seen == meta[r].status
             w == [sched[s] EXCEPT !.seen = seen,
                                   !.pc = IF seen \in RunTerminal THEN "ack" ELSE "beat"]
  <2>1. sched' = [sched EXCEPT ![s] = w] /\ UNCHANGED <<meta, procs>>
    BY <1>0, <1>1 DEF ReadStatus
  <2>2. /\ w.run = r /\ w.seen = seen
        /\ w.pc = IF seen \in RunTerminal THEN "ack" ELSE "beat"
    BY <1>0 DEF Worker
  <2> HIDE DEF w
  <2>3. LifeInv'
    BY <2>1, <2>2, QuietLife DEF Over, Left
  <2> QED BY <2>1, <2>3
<1>2. CASE CheckHeartbeat(s) \/ PopenFails(s) \/ Wait(s) \/ ReadFinal(s)
  <2>1. UNCHANGED <<meta, procs>>
    BY <1>2 DEF CheckHeartbeat, PopenFails, Wait, ReadFinal
  <2>2. CASE sched' = [sched EXCEPT ![s] = Idler("poll")]
    BY <2>1, <2>2, QuietLife DEF Idler
  <2>3. CASE ~(sched' = [sched EXCEPT ![s] = Idler("poll")])
    <3>1. PICK pc \in {"abort", "start", "broken", "final", "ack", "finish"} :
            /\ Goto(s, pc)
            /\ pc = "abort" => sched[s].pc = "beat" /\ sched[s].seen \in {"starting", "running", "stale"}
            /\ pc = "start" => /\ sched[s].pc = "beat"
                               /\ ~(sched[s].recovered /\ sched[s].seen \in {"starting", "running", "stale"})
            /\ pc = "broken" => sched[s].pc = "popen"
            /\ pc = "final" => sched[s].pc = "wait" /\ Child(s).pc = "exited"
            /\ pc = "finish" => sched[s].pc = "final"
      BY <1>2, <2>3 DEF CheckHeartbeat, PopenFails, Wait, ReadFinal
    <3> DEFINE w == [sched[s] EXCEPT !.pc = pc]
    <3>2. w.pc = pc /\ w.run = sched[s].run /\ sched' = [sched EXCEPT ![s] = w]
      BY <1>0, <3>1 DEF Goto, Worker
    <3> HIDE DEF w
    <3>3. w.pc = "abort" => Left(w.run)
      BY <1>0, <3>1, <3>2 DEF HeldInv
    <3>4. w.pc = "broken" => Left(w.run) /\ ~Over(w.run)
      BY <1>0, <3>1, <3>2 DEF HeldInv, Fresh, LaunchInv, EarlyInv, Early
    <3>5. w.pc = "start" => ~Over(w.run)
      <4> SUFFICES ASSUME pc = "start" PROVE ~Over(sched[s].run)
        BY <3>2
      <4>1. sched[s].seen \in MetaStatus /\ sched[s].seen \notin RunTerminal
        BY <1>0, <3>1 DEF Worker, LaunchInv, EarlyInv, Early
      <4>2. ~sched[s].recovered \/ sched[s].seen \in {"absent", "queued"}
        BY <3>1, <4>1 DEF MetaStatus, RunStatus, RunTerminal
      <4> QED BY <1>0, <3>1, <4>2 DEF HeldInv, Fresh
    <3>6. w.pc = "final" => Ended(w.run)
      <4> SUFFICES ASSUME pc = "final" PROVE Ended(sched[s].run)
        BY <3>2
      <4>1. sched[s].run \in Runs /\ sched[s].child \in 1..Len(procs[sched[s].run])
        BY <3>1 DEF TypeInv, Holds, Handling, SchedPcs
      <4>2. Len(procs[sched[s].run]) <= 1 /\ Len(procs[sched[s].run]) \in Nat
        BY <4>1 DEF LaunchInv, LaunchedOnce, Launches, TypeInv, TypeOK
      <4>3. \A k \in 1..Len(procs[sched[s].run]) : k = sched[s].child
        BY <4>1, <4>2
      <4> QED BY <3>1, <4>3 DEF Ended, Child
    <3>7. w.pc = "finish" => Ended(w.run)
      BY <1>0, <3>1, <3>2 DEF HeldInv
    <3>8. LifeInv'
      BY <2>1, <3>1, <3>2, <3>3, <3>4, <3>5, <3>6, <3>7, QuietLife
    <3> QED BY <2>1, <3>8
  <2> QED BY <2>1, <2>2, <2>3
<1>3. CASE AbortRecovered(s)
  <2>1. /\ sched[s].pc = "abort" /\ Transition(s, "aborted", "ack")
        /\ sched[s].pc \in Early /\ "aborted" \in RunTerminal /\ "aborted" \notin Verdicts
    BY <1>3 DEF AbortRecovered, Early, RunTerminal, Verdicts
  <2>2. Left(sched[s].run)
    BY <1>0, <2>1 DEF HeldInv
  <2> QED BY <1>0, <2>1, <2>2, TransitionLife
<1>4. CASE Start(s)
  <2>1. /\ sched[s].pc = "start" /\ Transition(s, "starting", "popen")
        /\ sched[s].pc \in Early /\ "starting" \notin RunTerminal /\ "starting" \notin Verdicts
    BY <1>4 DEF Start, Early, RunTerminal, Verdicts
  <2>2. ~Over(sched[s].run)
    BY <1>0, <2>1 DEF HeldInv, Fresh
  <2> QED BY <1>0, <2>1, <2>2, TransitionLife
<1>5. CASE Popen(s)
  BY <1>5, PopenLife
<1>6. CASE FailStart(s)
  <2>1. /\ sched[s].pc = "broken" /\ Transition(s, "failed", "ack")
        /\ sched[s].pc \in Early /\ "failed" \in RunTerminal
    BY <1>6 DEF FailStart, Early, RunTerminal
  <2>2. Left(sched[s].run) /\ procs[sched[s].run] = <<>>
    BY <1>0, <2>1 DEF HeldInv, LaunchInv, EarlyInv, Fresh
  <2>3. Ended(sched[s].run)
    BY <2>2 DEF Ended
  <2> QED BY <1>0, <2>1, <2>2, <2>3, TransitionLife
<1>7. CASE Finish(s)
  <2> DEFINE r == sched[s].run
  <2>1. /\ sched[s].pc = "finish" /\ Transition(s, Child(s).verdict, "ack")
        /\ sched[s].pc \in Handling /\ r \in Runs /\ sched[s].child \in 1..Len(procs[r])
    BY <1>7 DEF Finish, Handling, SchedPcs, Holds, TypeInv
  <2>2. procs[r] \in Seq(Process) /\ procs[r] # <<>>
    BY <2>1 DEF TypeInv, TypeOK
  <2>3. Left(r)
    BY <2>1, <2>2 DEF LaunchInv, ProcsInv
  <2>4. Child(s).verdict \in Verdicts /\ Child(s).verdict \in RunTerminal
    <3>1. Child(s) \in Process
      BY <2>1, <2>2, ElementOfSeq DEF Child
    <3> QED BY <3>1 DEF Process, Verdicts, RunTerminal
  <2>5. Ended(r)
    BY <1>0, <2>1 DEF HeldInv
  <2> HIDE DEF r
  <2> QED BY <1>0, <2>1, <2>2, <2>3, <2>4, <2>5, TransitionLife DEF r
<1>8. CASE Ack(s)
  <2>1. sched' = [sched EXCEPT ![s] = Idler("poll")] /\ UNCHANGED <<meta, procs>>
    BY <1>8 DEF Ack
  <2> QED BY <2>1, QuietLife DEF Idler
<1> QED BY <1>1, <1>2, <1>3, <1>4, <1>5, <1>6, <1>7, <1>8 DEF HandleEntry

LEMMA LifeInductive ==
    ASSUME TypeInv, LaunchInv, LifeInv, [Next]_vars
    PROVE  LifeInv'
<1>1. CASE UNCHANGED vars
  BY <1>1 DEF vars, queueVars, LifeInv, HeldInv, Over, Left, Ended
<1>2. ASSUME NEW r \in Runs, Submit(r) PROVE LifeInv'
  <2>1. /\ meta[r].status = "absent" /\ meta' = [meta EXCEPT ![r].status = "queued"]
        /\ UNCHANGED <<sched, procs>>
    BY <1>2 DEF Submit
  <2>2. StatusMove(r) /\ meta'[r].status = "queued"
    BY <2>1, SetStatusOnly DEF Moves
  <2>3. \A k \in 1..Len(procs'[r]) : Story(procs'[r][k], meta'[r].status)
    BY <2>1, <2>2 DEF LifeInv, Story, Verdicts
  <2>4. \A t \in Schedulers : HeldInv(t)'
    <3> SUFFICES ASSUME NEW t \in Schedulers PROVE HeldInv(t)'
      OBVIOUS
    <3>1. sched[t].pc \in Early => sched[t].run \in Runs
      BY DEF TypeInv, Holds, Early, Handling, SchedPcs
    <3>2. \A x \in Runs : (~Over(x) => ~Over(x)') /\ (Left(x) => Left(x)')
      BY <2>1, <2>2 DEF StatusMove, Over, Left, RunTerminal
    <3> QED BY <2>1, <3>1, <3>2 DEF LifeInv, HeldInv, Over, Left, Ended, Early
  <2> DEFINE S == Schedulers
  <2>5. S \in SUBSET Schedulers /\ Schedulers \ S = {}
    OBVIOUS
  <2> QED BY <2>1, <2>2, <2>3, <2>4, <2>5, LifeKept
<1>3. ASSUME NEW r \in Runs, HeartbeatExpires(r) \/ GrowIdle(r) PROVE LifeInv'
  BY <1>3 DEF HeartbeatExpires, GrowIdle, LifeInv, HeldInv, Over, Left, Ended
<1>4. CASE Next
  BY <1>2, <1>3, <1>4, LookLife, HandleLife, AnalyzerLife DEF Next
<1> QED BY <1>1, <1>4

\* A step that is no acknowledgement settles no run, and forgets none.
LEMMA SettledSame ==
    ASSUME TypeInv, LaunchInv, [Next]_vars, \A s \in Schedulers : ~Ack(s)
    PROVE  Settled' = Settled
<1>0. queue \in Seq(Runs) /\ Len(queue) \in Nat /\ delivered \in 0..Len(queue)
  BY DEF TypeInv, TypeOK
<1>1. UNCHANGED <<queue, delivered, pending>> => Settled' = Settled
  BY DEF Settled
<1>2. ASSUME NEW x \in Runs, Submit(x) PROVE Settled' = Settled
  <2>1. \A i \in 1..delivered : queue'[i] = queue[i]
    BY <1>0, <1>2 DEF Submit
  <2> QED BY <1>2, <2>1 DEF Submit, Settled
<1>3. ASSUME NEW s \in Schedulers, Read(s), delivered # Len(queue) PROVE Settled' = Settled
  <2>1. /\ queue' = queue
        /\ delivered' = delivered + 1
        /\ pending' = pending \union {queue[delivered + 1]}
    BY <1>3 DEF Read
  <2>2. 1..delivered' = 1..delivered \union {delivered + 1}
    BY <1>0, <2>1
  <2>3. \A i \in 1..delivered : queue[i] # queue[delivered + 1]
    <3>1. delivered + 1 \in 1..Len(queue) /\ \A i \in 1..delivered : i \in 1..Len(queue) /\ i # delivered + 1
      BY <1>0, <1>3
    <3> QED BY <3>1 DEF LaunchInv, QueueInv
  <2> QED BY <2>1, <2>2, <2>3 DEF Settled
<1>4. CASE Next
  <2>1. ASSUME NEW s \in Schedulers, CountPending(s) \/ Claim(s) \/ Crash(s) \/ Restart(s)
                                     \/ (Read(s) /\ delivered = Len(queue))
        PROVE  Settled' = Settled
    BY <1>1, <2>1 DEF CountPending, Claim, Read, Crash, Restart, queueVars
  <2>2. ASSUME NEW s \in Schedulers, HandleEntry(s) PROVE Settled' = Settled
    BY <1>1, <2>2 DEF HandleEntry, ReadStatus, CheckHeartbeat, AbortRecovered, Start, Popen,
                      PopenFails, FailStart, Wait, ReadFinal, Finish, Transition, queueVars
  <2>3. ASSUME NEW x \in Runs, NEW k \in DOMAIN procs[x],
               ProcStep(x, k) \/ Die(x, k) \/ Disconnect(x, k) \/ Reconnect(x, k)
        PROVE  Settled' = Settled
    BY <1>1, <2>3 DEF ProcStep, Boot, EmitRunning, EmitFinal, Finalize, Exit, Die, Disconnect,
                      Reconnect, queueVars
  <2>4. ASSUME NEW x \in Runs, HeartbeatExpires(x) \/ GrowIdle(x) PROVE Settled' = Settled
    BY <1>1, <2>4 DEF HeartbeatExpires, GrowIdle, queueVars
  <2> QED BY <1>2, <1>3, <1>4, <2>1, <2>2, <2>3, <2>4 DEF Next, Look
<1> QED BY <1>1, <1>4 DEF vars, queueVars

\* An acknowledgement settles the run of the entry.
LEMMA AckSettles ==
    ASSUME TypeInv, LaunchInv, AckInv, NEW s \in Schedulers, Ack(s)
    PROVE  /\ sched[s].run \in Runs /\ Over(sched[s].run)
           /\ UNCHANGED meta /\ Settled' = Settled \union {sched[s].run}
<1>1. sched[s].run \in Runs /\ sched[s].pc \in Handling /\ Over(sched[s].run)
  BY DEF Ack, TypeInv, Holds, Handling, SchedPcs, AckInv
<1>2. sched[s].run \in Delivered
  BY <1>1 DEF LaunchInv, UndeliveredInv
<1>3. Delivered' = Delivered /\ pending' = pending \ {sched[s].run} /\ UNCHANGED meta
  BY DEF Ack, Delivered
<1>4. Settled = Delivered \ pending /\ Settled' = Delivered' \ pending'
  BY DEF Settled, Delivered
<1> QED BY <1>1, <1>2, <1>3, <1>4

\* What a step does to the statuses of the runs.
LEMMA StepStatus ==
    ASSUME TypeInv, LaunchInv, LifeInv, [Next]_vars
    PROVE  \/ \A r \in Runs : meta'[r].status = meta[r].status
           \/ \E r \in Runs : StatusMove(r)
<1>1. ASSUME NEW r \in Runs, Submit(r) PROVE StatusMove(r)
  BY <1>1, SetStatusOnly DEF Submit, Moves
<1>2. ASSUME NEW s \in Schedulers, HandleEntry(s), ~UNCHANGED meta
      PROVE  \E r \in Runs : StatusMove(r)
  <2>1. StatusMove(sched[s].run)
    BY <1>2, HandleLife
  <2>2. sched[s].run \in Runs
    BY <1>2 DEF HandleEntry, ReadStatus, CheckHeartbeat, AbortRecovered, Start, Popen,
                PopenFails, FailStart, Wait, ReadFinal, Finish, Ack, TypeInv, Holds,
                Handling, SchedPcs
  <2> QED BY <2>1, <2>2
<1>3. ASSUME NEW s \in Schedulers, Look(s) \/ Crash(s) \/ Restart(s) PROVE UNCHANGED meta
  BY <1>3, LookLife
<1>4. ASSUME NEW r \in Runs, HeartbeatExpires(r) \/ GrowIdle(r) PROVE UNCHANGED meta
  BY <1>4 DEF HeartbeatExpires, GrowIdle
<1>5. CASE Next /\ ~UNCHANGED meta
  BY <1>1, <1>2, <1>3, <1>4, <1>5, AnalyzerLife DEF Next
<1> QED BY <1>5 DEF vars

\* A step of the queue is a step of RunLifecycle, or changes nothing it sees.
LEMMA StepsFollow ==
    ASSUME TypeInv, LaunchInv, AckInv, LifeInv, [Next]_vars
    PROVE  [Lifecycle!Next]_(Lifecycle!lifecycleVars)
<1> DEFINE status == [r \in Runs |-> meta[r].status]
<1>1. CASE \E s \in Schedulers : Ack(s)
  <2>1. PICK s \in Schedulers : Ack(s)
    BY <1>1
  <2>2. Lifecycle!Settle(sched[s].run) /\ sched[s].run \in Runs
    BY <2>1, AckSettles DEF Lifecycle!Settle, Lifecycle!RunTerminal, Over, RunTerminal
  <2> QED BY <2>2 DEF Lifecycle!Next
<1>2. CASE \A s \in Schedulers : ~Ack(s)
  <2>1. Settled' = Settled
    BY <1>2, SettledSame
  <2>2. CASE \A r \in Runs : meta'[r].status = meta[r].status
    BY <2>1, <2>2 DEF Lifecycle!lifecycleVars
  <2>3. CASE ~(\A r \in Runs : meta'[r].status = meta[r].status)
    <3>1. PICK r \in Runs : StatusMove(r)
      BY <2>3, StepStatus
    <3> DEFINE old == meta[r].status
               new == meta'[r].status
    <3>2. Moves(old, new)
      BY <2>3, <3>1 DEF StatusMove
    <3>3. Settled' = Settled /\ status' = [status EXCEPT ![r] = new] /\ status[r] = old
      BY <2>1, <3>1 DEF StatusMove
    <3> HIDE DEF old, new
    <3>4. CASE old = "absent" /\ new = "queued"
      <4>1. Lifecycle!Submit(r)
        BY <3>3, <3>4 DEF Lifecycle!Submit, Lifecycle!Set
      <4> QED BY <4>1 DEF Lifecycle!Next
    <3>5. CASE old = "queued" /\ new = "starting"
      <4>1. Lifecycle!Start(r)
        BY <3>3, <3>5 DEF Lifecycle!Start, Lifecycle!Set
      <4> QED BY <4>1 DEF Lifecycle!Next
    <3>6. CASE old = "starting" /\ new = "running"
      <4>1. Lifecycle!Proceed(r)
        BY <3>3, <3>6 DEF Lifecycle!Proceed, Lifecycle!Set
      <4> QED BY <4>1 DEF Lifecycle!Next
    <3>7. CASE old \in {"starting", "running"} /\ new \in RunTerminal
      <4>1. Lifecycle!Conclude(r)
        BY <3>3, <3>7 DEF Lifecycle!Conclude, Lifecycle!Set, Lifecycle!RunTerminal, RunTerminal
      <4> QED BY <4>1 DEF Lifecycle!Next
    <3>8. CASE old = "aborted" /\ new \in Verdicts
      <4>1. Lifecycle!Correct(r)
        BY <3>3, <3>8 DEF Lifecycle!Correct, Lifecycle!Set, Verdicts
      <4> QED BY <4>1 DEF Lifecycle!Next
    <3> QED BY <3>2, <3>4, <3>5, <3>6, <3>7, <3>8 DEF Moves
  <2> QED BY <2>2, <2>3
<1> QED BY <1>1, <1>2

\* KeepsLifecycle: as long as no scheduler stalls in mid-handling, the queue, its
\* schedulers and the Analyzers implement the lifecycle of runs: whoever writes the
\* status, crashes, or comes back late, a run passes through its statuses in order,
\* and only a terminal run is settled.
THEOREM SchedulerKeepsLifecycle ==
    ASSUME "stall" \notin Delays
    PROVE  Spec => KeepsLifecycle
<1>1. Init => LaunchInv /\ AckInv /\ LifeInv
  BY DEF Init, LaunchInv, LaunchedOnce, Launches, QueueInv, ProcsInv, UndeliveredInv,
         OneEarly, EarlyInv, Idler, Early, Handling, Delivered, AckInv, AckedIsFinal, Settled,
         LifeInv, HeldInv
<1>2. Init => Lifecycle!Init
  BY DEF Init, Settled, Lifecycle!Init
<1>3. Spec => []TypeInv
  BY TypesInitially, TypesInductive, PTL DEF Spec
<1>4. TypeInv /\ LaunchInv /\ AckInv /\ LifeInv /\ [Next]_vars => (LaunchInv /\ AckInv /\ LifeInv)'
  BY LaunchInductive, AckInductive, LifeInductive
<1>5. TypeInv /\ LaunchInv /\ AckInv /\ LifeInv /\ [Next]_vars
        => [Lifecycle!Next]_(Lifecycle!lifecycleVars)
  BY StepsFollow
<1> QED BY <1>1, <1>2, <1>3, <1>4, <1>5, PTL DEF Spec, KeepsLifecycle, Lifecycle!Safe

-----------------------------------------------------------------------------
(* Without delays: who is given up, and who analyses.                       *)

Busy == {"boot", "up", "working"}
NoneBoots(r) == \A k \in 1..Len(procs[r]) : procs[r][k].pc # "boot"
Quiet(r) == \A k \in 1..Len(procs[r]) : procs[r][k].pc \notin Busy

\* An Analyzer that booted and did not exit keeps the heartbeat alive, and one
\* that boots keeps its entry from being recovered.
LiveInv ==
    /\ \A r \in Runs : \A k \in 1..Len(procs[r]) :
          /\ ~procs[r][k].offline
          /\ procs[r][k].pc \notin {"boot", "exited"} => r \in heartbeat
    /\ \A r \in idle : NoneBoots(r)
    /\ \A s \in Schedulers : sched[s].pc \in Early /\ sched[s].recovered => NoneBoots(sched[s].run)
    /\ \A s \in Schedulers : sched[s].pc = "abort" => Ended(sched[s].run)
    /\ \A r \in Runs : Over(r) => Quiet(r)

LEMMA EmitOnline ==
    ASSUME NEW r, NEW p \in Process, NEW status
    PROVE  Emit(r, p, status).offline = p.offline
<1> DEFINE data == [status |-> status, rev |-> p.local.rev + 1]
<1>1. [p EXCEPT !.local = data].offline = p.offline
  BY DEF Process
<1>2. Emit(r, p, status) = p \/ Emit(r, p, status) = [p EXCEPT !.local = data]
  BY DEF Emit
<1> QED BY <1>1, <1>2

\* What an Analyzer that never loses touch with Redis becomes by a step.
LEMMA AnalyzerStep ==
    ASSUME TypeInv, "outage" \notin Delays, NEW r \in Runs, NEW k \in DOMAIN procs[r],
           ~procs[r][k].offline,
           ProcStep(r, k) \/ Die(r, k) \/ Disconnect(r, k) \/ Reconnect(r, k)
    PROVE  /\ procs[r][k].pc # "exited"
           /\ \E q \in Process :
                /\ Set(r, k, q) /\ ~q.offline /\ q.pc # "boot"
                /\ \/ q.pc = "exited" \/ heartbeat' = heartbeat \union {r}
                   \/ heartbeat' = heartbeat /\ procs[r][k].pc \notin {"boot", "exited"}
                /\ q.pc \in Busy => procs[r][k].pc \in Busy /\ (Over(r)' => Over(r))
           /\ heartbeat \subseteq heartbeat'
           /\ \A x \in Runs \ {r} : meta'[x] = meta[x]
           /\ meta'[r].status = "aborted" => meta[r].status = "aborted"
           /\ UNCHANGED <<queueVars, sched>>
<1> DEFINE p == procs[r][k]
           Becomes(q) ==
                /\ q \in Process /\ Set(r, k, q) /\ ~q.offline /\ q.pc # "boot"
                /\ \/ q.pc = "exited" \/ heartbeat' = heartbeat \union {r}
                   \/ heartbeat' = heartbeat /\ p.pc \notin {"boot", "exited"}
                /\ q.pc \in Busy => p.pc \in Busy /\ (Over(r)' => Over(r))
           Rest == /\ p.pc # "exited" /\ heartbeat \subseteq heartbeat'
                   /\ \A x \in Runs \ {r} : meta'[x] = meta[x]
                   /\ meta'[r].status = "aborted" => meta[r].status = "aborted"
                   /\ UNCHANGED <<queueVars, sched>>
<1> SUFFICES Rest /\ \E q : Becomes(q)
  OBVIOUS
<1>0. /\ p \in Process /\ meta \in [Runs -> Meta] /\ meta[r] \in Meta /\ ~p.offline
      /\ p.verdict \in Verdicts
  BY ProcType DEF TypeInv, TypeOK, Process, Verdicts
<1>1. UNCHANGED meta => /\ Over(r)' => Over(r)
                        /\ \A x \in Runs \ {r} : meta'[x] = meta[x]
                        /\ meta'[r].status = "aborted" => meta[r].status = "aborted"
  BY DEF Over
<1> HIDE DEF p
<1>2. CASE Boot(r, k)
  <2> DEFINE q == [p EXCEPT !.pc = "up"]
             rec == [meta[r] EXCEPT !.initialized = TRUE, !.rev = 0,
                                    !.status = IF @ = "queued" THEN "starting" ELSE @]
  <2>1. /\ p.pc = "boot" /\ Set(r, k, q) /\ heartbeat' = heartbeat \union {r}
        /\ meta' = meta \/ meta' = [meta EXCEPT ![r] = rec]
        /\ UNCHANGED <<queueVars, sched>>
    BY <1>0, <1>2 DEF Boot, p
  <2>2. rec.status = meta[r].status \/ rec.status = "starting"
    BY <1>0 DEF Meta
  <2> HIDE DEF rec
  <2>3. /\ Over(r)' => Over(r)
        /\ \A x \in Runs \ {r} : meta'[x] = meta[x]
        /\ meta'[r].status = "aborted" => meta[r].status = "aborted"
    BY <1>0, <1>1, <2>1, <2>2 DEF Over, RunTerminal
  <2>4. q \in Process /\ ~q.offline /\ q.pc = "up"
    BY <1>0 DEF Process, ProcPcs
  <2> HIDE DEF q
  <2>5. Becomes(q)
    BY <2>1, <2>3, <2>4 DEF Busy
  <2> QED BY <2>1, <2>3, <2>5
<1>3. ASSUME NEW data \in [status : {"running"} \union Verdicts, rev : Nat],
             WriteRun(r, data, FALSE)
      PROVE  /\ \A x \in Runs \ {r} : meta'[x] = meta[x]
             /\ meta'[r].status \in {meta[r].status, data.status}
  <2> DEFINE rec == [meta[r] EXCEPT !.status = data.status, !.rev = data.rev]
  <2>1. rec.status = data.status
    BY <1>0 DEF Meta
  <2>2. meta' = meta \/ meta' = [meta EXCEPT ![r] = rec]
    BY <1>0, <1>3 DEF WriteRun
  <2> HIDE DEF rec
  <2> QED BY <1>0, <2>1, <2>2
<1>4. CASE EmitRunning(r, k)
  <2> DEFINE data == [status |-> "running", rev |-> p.local.rev + 1]
             e == Emit(r, p, "running")
             q == [e EXCEPT !.pc = "working"]
  <2>1. /\ p.pc = "up" /\ Set(r, k, q) /\ WriteRun(r, data, FALSE)
        /\ UNCHANGED <<queueVars, heartbeat, sched>>
    BY <1>0, <1>4 DEF EmitRunning, p
  <2>2. data \in [status : {"running"} \union Verdicts, rev : Nat] /\ data.status = "running"
    BY <1>0 DEF Process
  <2> HIDE DEF data
  <2>3. /\ \A x \in Runs \ {r} : meta'[x] = meta[x]
        /\ meta'[r].status \in {meta[r].status, "running"}
    BY <1>3, <2>1, <2>2
  <2>4. e \in Process /\ ~e.offline
    BY <1>0, EmitStory, EmitOnline
  <2> HIDE DEF e
  <2>5. q \in Process /\ ~q.offline /\ q.pc = "working"
    BY <2>4 DEF Process, ProcPcs
  <2> HIDE DEF q
  <2>6. Becomes(q)
    BY <2>1, <2>3, <2>5 DEF Busy, Over, RunTerminal
  <2> QED BY <2>1, <2>3, <2>6
<1>5. ASSUME NEW v \in Verdicts, EmitFinal(r, k, v) PROVE Rest /\ \E q : Becomes(q)
  <2> DEFINE data == [status |-> v, rev |-> p.local.rev + 1]
             e == Emit(r, p, v)
             q == [e EXCEPT !.pc = "final", !.verdict = v]
  <2>1. /\ p.pc = "working" /\ Set(r, k, q) /\ WriteRun(r, data, FALSE)
        /\ UNCHANGED <<queueVars, heartbeat, sched>>
    BY <1>0, <1>5 DEF EmitFinal, p
  <2>2. data \in [status : {"running"} \union Verdicts, rev : Nat] /\ data.status = v
    BY <1>0 DEF Process
  <2> HIDE DEF data
  <2>3. /\ \A x \in Runs \ {r} : meta'[x] = meta[x]
        /\ meta'[r].status \in {meta[r].status, v}
    BY <1>3, <2>1, <2>2
  <2>4. e \in Process /\ ~e.offline
    <3>1. v \in {"running"} \union Verdicts
      OBVIOUS
    <3>2. e \in Process
      BY <1>0, <3>1, EmitStory
    <3>3. e.offline = p.offline
      BY <1>0, EmitOnline
    <3> QED BY <1>0, <3>2, <3>3
  <2> HIDE DEF e
  <2>5. q \in Process /\ ~q.offline /\ q.pc = "final"
    BY <2>4 DEF Process, ProcPcs, Verdicts
  <2> HIDE DEF q
  <2>6. Becomes(q)
    BY <2>1, <2>5 DEF Busy
  <2> QED BY <2>1, <2>3, <2>6 DEF Verdicts
<1>6. CASE Finalize(r, k)
  <2> DEFINE q == [p EXCEPT !.pc = "finalized"]
             rec == [meta[r] EXCEPT !.status = p.verdict]
  <2>1. /\ p.pc = "final" /\ Set(r, k, q) /\ meta' = [meta EXCEPT ![r] = rec]
        /\ UNCHANGED <<queueVars, heartbeat, sched>>
    BY <1>0, <1>6 DEF Finalize, p
  <2>2. rec.status = p.verdict
    BY <1>0 DEF Meta
  <2> HIDE DEF rec
  <2>3. /\ \A x \in Runs \ {r} : meta'[x] = meta[x]
        /\ meta'[r].status \in Verdicts
    BY <1>0, <2>1, <2>2
  <2>4. q \in Process /\ ~q.offline /\ q.pc = "finalized"
    BY <1>0 DEF Process, ProcPcs
  <2> HIDE DEF q
  <2>5. Becomes(q)
    BY <2>1, <2>4 DEF Busy
  <2> QED BY <2>1, <2>3, <2>5 DEF Verdicts
<1>7. CASE Exit(r, k) \/ Die(r, k)
  <2> DEFINE q1 == [p EXCEPT !.pc = "exited"]
             q2 == [p EXCEPT !.pc = "exited", !.verdict = "failed"]
  <2>1. /\ p.pc # "exited" /\ (Set(r, k, q1) \/ Set(r, k, q2))
        /\ UNCHANGED <<meta, queueVars, heartbeat, sched>>
    BY <1>7 DEF Exit, Die, p
  <2>2. /\ q1 \in Process /\ ~q1.offline /\ q1.pc = "exited"
        /\ q2 \in Process /\ ~q2.offline /\ q2.pc = "exited"
    BY <1>0 DEF Process, ProcPcs
  <2> HIDE DEF q1, q2
  <2>3. Becomes(q1) \/ Becomes(q2)
    BY <2>1, <2>2 DEF Busy
  <2> QED BY <1>1, <2>1, <2>3
<1>8. ~Disconnect(r, k) /\ ~Reconnect(r, k)
  BY <1>0 DEF Disconnect, Reconnect, p
<1> QED BY <1>2, <1>4, <1>5, <1>6, <1>7, <1>8 DEF ProcStep, Verdicts

LEMMA AnalyzerLive ==
    ASSUME TypeInv, LaunchInv, LiveInv, "outage" \notin Delays,
           NEW r \in Runs, NEW k \in DOMAIN procs[r],
           ProcStep(r, k) \/ Die(r, k) \/ Disconnect(r, k) \/ Reconnect(r, k)
    PROVE  LiveInv'
<1>0. procs \in [Runs -> Seq(Process)] /\ k \in 1..Len(procs[r])
  BY ProcType DEF TypeInv, TypeOK
<1>1. ~procs[r][k].offline
  BY <1>0 DEF LiveInv
<1>2. /\ procs[r][k].pc # "exited" /\ heartbeat \subseteq heartbeat'
      /\ \A x \in Runs \ {r} : meta'[x] = meta[x]
      /\ UNCHANGED <<queueVars, sched>>
  BY <1>1, AnalyzerStep
<1>3. PICK q \in Process :
        /\ Set(r, k, q) /\ ~q.offline /\ q.pc # "boot"
        /\ \/ q.pc = "exited" \/ heartbeat' = heartbeat \union {r}
           \/ heartbeat' = heartbeat /\ procs[r][k].pc \notin {"boot", "exited"}
        /\ q.pc \in Busy => procs[r][k].pc \in Busy /\ (Over(r)' => Over(r))
  BY <1>1, AnalyzerStep
<1>4. /\ \A x \in Runs : Len(procs'[x]) = Len(procs[x])
      /\ \A x \in Runs : \A j \in 1..Len(procs[x]) :
            procs'[x][j] = IF x = r /\ j = k THEN q ELSE procs[x][j]
  BY <1>3, SetProc
<1>5. \A j \in 1..Len(procs[r]) : j = k
  <2> DEFINE n == Len(procs[r])
  <2>1. n \in Nat /\ n <= 1
    BY <1>0 DEF LaunchInv, LaunchedOnce, Launches
  <2>2. k \in 1..n
    BY <1>0
  <2> HIDE DEF n
  <2>3. \A j \in 1..n : j = k
    BY <2>1, <2>2
  <2> QED BY <2>3 DEF n
<1>6. q.pc \notin {"boot", "exited"} => r \in heartbeat'
  BY <1>0, <1>3 DEF LiveInv
<1>7. \A x \in Runs : \A j \in 1..Len(procs'[x]) :
          /\ ~procs'[x][j].offline
          /\ procs'[x][j].pc \notin {"boot", "exited"} => x \in heartbeat'
  BY <1>2, <1>3, <1>4, <1>6 DEF LiveInv
<1>8. \A x \in Runs : NoneBoots(x) => NoneBoots(x)'
  BY <1>3, <1>4 DEF NoneBoots
<1>9. \A x \in Runs : Ended(x) => Ended(x)'
  BY <1>0, <1>2, <1>4 DEF Ended
<1>10. \A x \in Runs : Over(x)' => Quiet(x)'
  <2>1. ASSUME NEW x \in Runs, Over(x)', x # r PROVE Quiet(x)'
    BY <1>2, <1>4, <2>1 DEF LiveInv, Over, Quiet
  <2>2. ASSUME Over(r)' PROVE Quiet(r)'
    <3>1. q.pc \notin Busy
      BY <1>0, <1>3, <2>2 DEF LiveInv, Quiet
    <3> QED BY <1>4, <1>5, <3>1 DEF Quiet
  <2> QED BY <2>1, <2>2
<1>11. /\ idle' = idle /\ sched' = sched /\ idle \subseteq Runs
       /\ \A s \in Schedulers : sched[s].pc \in Early => sched[s].run \in Runs
  BY <1>2 DEF queueVars, TypeInv, TypeOK, Holds, Early, Handling, SchedPcs
<1>12. \A s \in Schedulers : sched[s].pc = "abort" => sched[s].pc \in Early
  BY DEF Early
<1>13. \A x \in idle' : NoneBoots(x)'
  BY <1>8, <1>11 DEF LiveInv
<1>14. (\A s \in Schedulers : sched[s].pc \in Early /\ sched[s].recovered => NoneBoots(sched[s].run))'
  BY <1>8, <1>11 DEF LiveInv, NoneBoots
<1>15. (\A s \in Schedulers : sched[s].pc = "abort" => Ended(sched[s].run))'
  BY <1>9, <1>11, <1>12 DEF LiveInv, Ended
<1> QED BY <1>7, <1>10, <1>13, <1>14, <1>15 DEF LiveInv

\* A scheduler's step that launches nothing.
LEMMA SchedLive ==
    ASSUME TypeInv, LiveInv, NEW s \in Schedulers, NEW w, sched' = [sched EXCEPT ![s] = w],
           UNCHANGED <<procs, heartbeat>>, idle' \subseteq idle,
           w.pc \in Early /\ w.recovered => NoneBoots(w.run),
           w.pc = "abort" => Ended(w.run),
           \A x \in Runs : Over(x)' => Over(x) \/ Quiet(x)
    PROVE  LiveInv'
<1>1. \A t \in Schedulers : sched'[t] = IF t = s THEN w ELSE sched[t]
  BY DEF TypeInv, TypeOK
<1>2. \A x : (NoneBoots(x)' <=> NoneBoots(x)) /\ (Ended(x)' <=> Ended(x)) /\ (Quiet(x)' <=> Quiet(x))
  BY DEF NoneBoots, Ended, Quiet
<1>3. \A x \in idle' : NoneBoots(x)'
  BY <1>2 DEF LiveInv
<1>4. \A x \in Runs : Over(x)' => Quiet(x)'
  BY <1>2 DEF LiveInv
<1>5. (\A t \in Schedulers : sched[t].pc \in Early /\ sched[t].recovered => NoneBoots(sched[t].run))'
  BY <1>1 DEF LiveInv, NoneBoots
<1>6. (\A t \in Schedulers : sched[t].pc = "abort" => Ended(sched[t].run))'
  BY <1>1 DEF LiveInv, Ended
<1> QED BY <1>3, <1>4, <1>5, <1>6 DEF LiveInv

LEMMA TransitionLive ==
    ASSUME TypeInv, LiveInv, NEW s \in Schedulers, sched[s].pc \in Handling,
           NEW new, NEW next \in {"ack", "popen"}, Transition(s, new, next),
           new \in RunTerminal => Quiet(sched[s].run),
           next = "popen" => sched[s].pc \in Early
    PROVE  LiveInv'
<1> DEFINE r == sched[s].run
<1>1. /\ r \in Runs /\ sched \in [Schedulers -> Worker] /\ sched[s] \in Worker
      /\ UNCHANGED <<procs, heartbeat, idle>>
      /\ meta \in [Runs -> Meta] /\ meta[r] \in Meta
  BY DEF TypeInv, TypeOK, Holds, Transition, queueVars
<1>2. \A x \in Runs : Over(x)' => Over(x) \/ Quiet(x)
  <2> DEFINE rec == [meta[r] EXCEPT !.status = new]
  <2>1. rec.status = new
    BY <1>1 DEF Meta
  <2>2. meta' = meta \/ meta' = [meta EXCEPT ![r] = rec]
    BY <1>1 DEF Transition
  <2> HIDE DEF rec
  <2> QED BY <1>1, <2>1, <2>2 DEF Over
<1>3. CASE sched' = [sched EXCEPT ![s] = Idler("down")]
  BY <1>1, <1>2, <1>3, SchedLive DEF Idler, Early
<1>4. CASE Goto(s, next)
  <2> DEFINE w == [sched[s] EXCEPT !.pc = next]
  <2>1. /\ sched' = [sched EXCEPT ![s] = w]
        /\ w.pc = next /\ w.run = r /\ w.recovered = sched[s].recovered
    BY <1>1, <1>4 DEF Goto, Worker
  <2> HIDE DEF w, r
  <2>2. w.pc \in Early /\ w.recovered => NoneBoots(w.run)
    BY <2>1 DEF LiveInv, Early, r
  <2> QED BY <1>1, <1>2, <2>1, <2>2, SchedLive
<1> QED BY <1>3, <1>4 DEF Transition

LEMMA PopenLive ==
    ASSUME TypeInv, LaunchInv, LifeInv, LiveInv, NEW s \in Schedulers, Popen(s)
    PROVE  LiveInv'
<1> DEFINE r == sched[s].run
           w == [sched[s] EXCEPT !.pc = "wait", !.child = Len(procs[r]) + 1]
<1>0. /\ sched \in [Schedulers -> Worker] /\ sched[s] \in Worker /\ sched[s].pc = "popen"
      /\ r \in Runs /\ procs \in [Runs -> Seq(Process)] /\ sched[s].pc \in Early
  BY DEF Popen, TypeInv, TypeOK, Holds, Handling, SchedPcs, Early
<1>1. /\ procs' = [procs EXCEPT ![r] = Append(procs[r], NewProc)]
      /\ sched' = [sched EXCEPT ![s] = w]
      /\ UNCHANGED <<meta, heartbeat, idle>>
  BY <1>0 DEF Popen, queueVars
<1>2. procs[r] = <<>> /\ Fresh(sched[s]) /\ r \notin idle /\ ~Over(r)
  BY <1>0 DEF LaunchInv, EarlyInv, Early, Fresh, LifeInv, HeldInv
<1>3. /\ \A x \in Runs \ {r} : procs'[x] = procs[x]
      /\ Len(procs'[r]) = 1 /\ procs'[r][1] = NewProc
  BY <1>0, <1>1, <1>2
<1>4. ~NewProc.offline /\ NewProc.pc = "boot"
  BY DEF NewProc
<1>5. \A t \in Schedulers : t # s /\ sched[t].pc \in Early => sched[t].run \in Runs \ {r}
  BY <1>0 DEF LaunchInv, OneEarly, TypeInv, Holds, Early, Handling, SchedPcs
<1>6. w.pc = "wait"
  BY <1>0 DEF Worker
<1>7. sched'[s].pc = "wait" /\ \A t \in Schedulers \ {s} : sched'[t] = sched[t]
  BY <1>0, <1>1, <1>6
<1> HIDE DEF r, w
<1>8. \A x \in Runs : \A k \in 1..Len(procs'[x]) :
         /\ ~procs'[x][k].offline
         /\ procs'[x][k].pc \notin {"boot", "exited"} => x \in heartbeat'
  BY <1>1, <1>3, <1>4 DEF LiveInv
<1>9. \A x \in idle' : NoneBoots(x)'
  BY <1>1, <1>2, <1>3 DEF LiveInv, NoneBoots, TypeInv, TypeOK
<1>10. ASSUME NEW t \in Schedulers, sched'[t].pc \in Early
       PROVE  /\ sched'[t] = sched[t]
              /\ procs'[sched[t].run] = procs[sched[t].run]
  BY <1>3, <1>5, <1>7, <1>10 DEF Early
<1>12. (\A t \in Schedulers : sched[t].pc \in Early /\ sched[t].recovered => NoneBoots(sched[t].run))'
  BY <1>10 DEF LiveInv, NoneBoots
<1>13. (\A t \in Schedulers : sched[t].pc = "abort" => Ended(sched[t].run))'
  BY <1>10 DEF LiveInv, Ended, Early
<1>11. \A x \in Runs : Over(x)' => Quiet(x)'
  BY <1>1, <1>2, <1>3 DEF LiveInv, Over, Quiet
<1> QED BY <1>8, <1>9, <1>11, <1>12, <1>13 DEF LiveInv

LEMMA LookLive ==
    ASSUME TypeInv, LaunchInv, LiveInv, NEW s \in Schedulers, Look(s) \/ Crash(s) \/ Restart(s)
    PROVE  LiveInv'
<1>1. UNCHANGED <<meta, procs, heartbeat>> /\ idle' \subseteq idle
  BY DEF Look, CountPending, Claim, Read, Crash, Restart, queueVars
<1>2. \A x \in Runs : Over(x)' => Over(x)
  BY <1>1 DEF Over
<1>3. \/ \E pc \in {"poll", "claim", "read"} : sched' = [sched EXCEPT ![s] = [sched[s] EXCEPT !.pc = pc]]
      \/ \E r \in idle : Take(s, r, TRUE)
      \/ Take(s, queue[delivered + 1], FALSE)
      \/ \E pc \in {"poll", "down"} : sched' = [sched EXCEPT ![s] = Idler(pc)]
  BY DEF Look, CountPending, Claim, Read, Crash, Restart, Goto, TypeInv, TypeOK
<1>4. PICK w : /\ sched' = [sched EXCEPT ![s] = w] /\ w.pc # "abort"
               /\ w.pc \in Early /\ w.recovered => w.run \in idle
  BY <1>3 DEF Take, Idler, TypeInv, TypeOK, Worker, Early
<1>5. w.pc \in Early /\ w.recovered => NoneBoots(w.run)
  BY <1>4 DEF LiveInv
<1> QED BY <1>1, <1>2, <1>4, <1>5, SchedLive

LEMMA HandleLive ==
    ASSUME TypeInv, LaunchInv, LifeInv, LiveInv, NEW s \in Schedulers, HandleEntry(s)
    PROVE  LiveInv'
<1>0. /\ sched \in [Schedulers -> Worker] /\ sched[s] \in Worker
      /\ (sched[s].pc \in Handling => sched[s].run \in Runs)
  BY DEF TypeInv, TypeOK, Holds
<1>1. ASSUME UNCHANGED meta PROVE \A x \in Runs : Over(x)' => Over(x) \/ Quiet(x)
  BY <1>1 DEF Over
<1>2. CASE ReadStatus(s)
  <2> DEFINE w == [sched[s] EXCEPT !.seen = meta[sched[s].run].status,
                     !.pc = IF meta[sched[s].run].status \in RunTerminal THEN "ack" ELSE "beat"]
  <2>1. /\ sched' = [sched EXCEPT ![s] = w] /\ sched[s].pc \in Early
        /\ UNCHANGED <<meta, procs, heartbeat, idle>>
    BY <1>0, <1>2 DEF ReadStatus, queueVars, Early
  <2>2. w.run = sched[s].run /\ w.recovered = sched[s].recovered /\ w.pc # "abort"
    BY <1>0 DEF Worker
  <2> HIDE DEF w
  <2> QED BY <1>1, <2>1, <2>2, SchedLive DEF LiveInv
<1>3. CASE CheckHeartbeat(s) \/ PopenFails(s) \/ Wait(s) \/ ReadFinal(s)
  <2>1. UNCHANGED <<meta, procs, heartbeat, idle>>
    BY <1>3 DEF CheckHeartbeat, PopenFails, Wait, ReadFinal, queueVars
  <2>2. CASE sched' = [sched EXCEPT ![s] = Idler("poll")]
    BY <1>1, <2>1, <2>2, SchedLive DEF Idler, Early
  <2>3. CASE sched' # [sched EXCEPT ![s] = Idler("poll")]
    <3>1. PICK pc \in {"abort", "start", "broken", "final", "ack", "finish"} :
            /\ Goto(s, pc)
            /\ pc = "abort" => /\ sched[s].pc = "beat" /\ sched[s].recovered
                               /\ sched[s].run \notin heartbeat
            /\ pc = "start" => sched[s].pc = "beat"
            /\ pc = "broken" => sched[s].pc = "popen"
      BY <1>3, <2>3 DEF CheckHeartbeat, PopenFails, Wait, ReadFinal
    <3> DEFINE w == [sched[s] EXCEPT !.pc = pc]
    <3>2. /\ w.pc = pc /\ w.run = sched[s].run /\ w.recovered = sched[s].recovered
          /\ sched' = [sched EXCEPT ![s] = w]
      BY <1>0, <3>1 DEF Goto, Worker
    <3> HIDE DEF w
    <3>3. w.pc \in Early /\ w.recovered => NoneBoots(w.run)
      BY <3>1, <3>2 DEF LiveInv, Early
    <3>4. w.pc = "abort" => Ended(w.run)
      BY <1>0, <3>1, <3>2, <3>3 DEF LiveInv, NoneBoots, Ended, Early, Handling, SchedPcs
    <3> QED BY <1>1, <2>1, <3>2, <3>3, <3>4, SchedLive
  <2> QED BY <2>2, <2>3
<1>4. \A x : Ended(x) => Quiet(x)
  BY DEF Ended, Quiet, Busy
<1>5. CASE AbortRecovered(s)
  <2>1. sched[s].pc = "abort" /\ Transition(s, "aborted", "ack")
    BY <1>5 DEF AbortRecovered
  <2>2. Quiet(sched[s].run)
    BY <1>4, <2>1 DEF LiveInv
  <2> QED BY <2>1, <2>2, TransitionLive DEF Handling, SchedPcs
<1>6. CASE Start(s)
  BY <1>6, TransitionLive DEF Start, Handling, SchedPcs, Early, RunTerminal
<1>7. CASE Popen(s)
  BY <1>7, PopenLive
<1>8. CASE FailStart(s)
  <2>1. sched[s].pc = "broken" /\ Transition(s, "failed", "ack")
    BY <1>8 DEF FailStart
  <2>2. procs[sched[s].run] = <<>>
    BY <2>1 DEF LaunchInv, EarlyInv, Early, Fresh
  <2>3. Quiet(sched[s].run)
    BY <2>2 DEF Quiet
  <2> QED BY <2>1, <2>3, TransitionLive DEF Handling, SchedPcs
<1>9. CASE Finish(s)
  <2>1. sched[s].pc = "finish" /\ Transition(s, Child(s).verdict, "ack")
    BY <1>9 DEF Finish
  <2>2. Quiet(sched[s].run)
    BY <1>4, <2>1 DEF LifeInv, HeldInv
  <2> QED BY <2>1, <2>2, TransitionLive DEF Handling, SchedPcs
<1>10. CASE Ack(s)
  <2>1. /\ sched' = [sched EXCEPT ![s] = Idler("poll")] /\ idle' \subseteq idle
        /\ UNCHANGED <<meta, procs, heartbeat>>
    BY <1>10 DEF Ack
  <2> QED BY <1>1, <2>1, SchedLive DEF Idler, Early
<1> QED BY <1>2, <1>3, <1>5, <1>6, <1>7, <1>8, <1>9, <1>10 DEF HandleEntry

LEMMA TimeLive ==
    ASSUME TypeInv, LiveInv, "boot" \notin Delays, NEW r \in Runs,
           HeartbeatExpires(r) \/ GrowIdle(r)
    PROVE  LiveInv'
<1>1. procs \in [Runs -> Seq(Process)] /\ DOMAIN procs[r] = 1..Len(procs[r])
  BY LenProperties DEF TypeInv, TypeOK
<1>2. UNCHANGED <<meta, sched, procs>>
  BY DEF HeartbeatExpires, GrowIdle
<1>3. \A x \in idle' : NoneBoots(x)
  <2>1. CASE HeartbeatExpires(r)
    BY <2>1 DEF HeartbeatExpires, queueVars, LiveInv
  <2>2. CASE GrowIdle(r)
    BY <1>1, <2>2 DEF GrowIdle, LiveInv, NoneBoots
  <2> QED BY <2>1, <2>2
<1>4. \A x \in Runs : \A k \in 1..Len(procs[x]) :
         procs[x][k].pc \notin {"boot", "exited"} => x \in heartbeat'
  <2>1. CASE HeartbeatExpires(r)
    BY <1>1, <2>1 DEF HeartbeatExpires, LiveInv, Connected
  <2>2. CASE GrowIdle(r)
    BY <2>2 DEF GrowIdle, LiveInv
  <2> QED BY <2>1, <2>2
<1> QED BY <1>2, <1>3, <1>4 DEF LiveInv, NoneBoots, Ended, Over, Quiet

LEMMA LiveInductive ==
    ASSUME Delays = {}, TypeInv, LaunchInv, LifeInv, LiveInv, [Next]_vars
    PROVE  LiveInv'
<1>1. CASE UNCHANGED vars
  BY <1>1 DEF vars, queueVars, LiveInv, NoneBoots, Ended, Over, Quiet
<1>2. ASSUME NEW r \in Runs, Submit(r) PROVE LiveInv'
  <2>1. meta' = [meta EXCEPT ![r].status = "queued"] /\ UNCHANGED <<sched, procs, heartbeat, idle>>
    BY <1>2 DEF Submit
  <2>2. \A x \in Runs : Over(x)' => Over(x)
    <3> DEFINE rec == [meta[r] EXCEPT !.status = "queued"]
    <3>1. meta \in [Runs -> Meta] /\ meta' = [meta EXCEPT ![r] = rec] /\ rec.status = "queued"
      BY <2>1 DEF TypeInv, TypeOK, Meta
    <3> HIDE DEF rec
    <3> QED BY <3>1 DEF Over, RunTerminal
  <2> QED BY <2>1, <2>2 DEF LiveInv, NoneBoots, Ended, Quiet
<1>3. CASE Next
  BY <1>2, <1>3, LookLive, HandleLive, AnalyzerLive, TimeLive DEF Next
<1> QED BY <1>1, <1>3

\* A run becomes "aborted" only by the step in which a scheduler gives it up.
LEMMA AbortIsGivenUp ==
    ASSUME Delays = {}, TypeInv, LaunchInv, LifeInv, LiveInv, [Next]_vars, NEW x \in Runs,
           meta[x].status # "aborted", meta'[x].status = "aborted"
    PROVE  Ended(x)
<1>0. meta \in [Runs -> Meta] /\ ~UNCHANGED meta
  BY DEF TypeInv, TypeOK
<1>1. ASSUME NEW r \in Runs, Submit(r) PROVE FALSE
  <2> DEFINE rec == [meta[r] EXCEPT !.status = "queued"]
  <2>1. meta' = [meta EXCEPT ![r] = rec] /\ rec.status = "queued"
    BY <1>0, <1>1 DEF Submit, Meta
  <2> HIDE DEF rec
  <2> QED BY <1>0, <2>1
<1>2. ASSUME NEW r \in Runs, NEW k \in DOMAIN procs[r],
             ProcStep(r, k) \/ Die(r, k) \/ Disconnect(r, k) \/ Reconnect(r, k)
      PROVE  FALSE
  <2>1. ~procs[r][k].offline
    BY ProcType DEF LiveInv
  <2>2. /\ \A y \in Runs \ {r} : meta'[y] = meta[y]
        /\ meta'[r].status = "aborted" => meta[r].status = "aborted"
    BY <1>2, <2>1, AnalyzerStep
  <2> QED BY <2>2
<1>3. ASSUME NEW s \in Schedulers, NEW new, NEW next, sched[s].run \in Runs, Transition(s, new, next)
      PROVE  x = sched[s].run /\ new = "aborted"
  <2> DEFINE rec == [meta[sched[s].run] EXCEPT !.status = new]
  <2>1. rec.status = new
    BY <1>0, <1>3 DEF Meta
  <2>2. meta' = [meta EXCEPT ![sched[s].run] = rec]
    BY <1>0, <1>3 DEF Transition
  <2> HIDE DEF rec
  <2> QED BY <1>0, <1>3, <2>1, <2>2
<1>4. ASSUME NEW s \in Schedulers, HandleEntry(s) PROVE Ended(x)
  <2>1. sched[s].pc \in Handling => sched[s].run \in Runs
    BY DEF TypeInv, Holds
  <2>2. CASE AbortRecovered(s)
    BY <1>3, <2>1, <2>2 DEF AbortRecovered, LiveInv, Handling, SchedPcs
  <2>3. CASE Start(s) \/ FailStart(s)
    BY <1>3, <2>1, <2>3 DEF Start, FailStart, Handling, SchedPcs
  <2>4. CASE Finish(s)
    <3>1. sched[s].run \in Runs /\ sched[s].child \in 1..Len(procs[sched[s].run])
      BY <2>4 DEF Finish, Handling, SchedPcs, Holds, TypeInv
    <3>2. Child(s) \in Process
      BY <3>1, ElementOfSeq DEF Child, TypeInv, TypeOK
    <3>3. Child(s).verdict # "aborted"
      BY <3>2 DEF Process
    <3> QED BY <1>3, <2>4, <3>1, <3>3 DEF Finish
  <2>5. CASE ~(AbortRecovered(s) \/ Start(s) \/ FailStart(s) \/ Finish(s))
    BY <1>0, <1>4, <2>5 DEF HandleEntry, ReadStatus, CheckHeartbeat, Popen, PopenFails,
                            Wait, ReadFinal, Ack
  <2> QED BY <2>2, <2>3, <2>4, <2>5
<1>5. ASSUME NEW s \in Schedulers, Look(s) \/ Crash(s) \/ Restart(s) PROVE FALSE
  BY <1>0, <1>5 DEF Look, CountPending, Claim, Read, Crash, Restart
<1>6. ASSUME NEW r \in Runs, HeartbeatExpires(r) \/ GrowIdle(r) PROVE FALSE
  BY <1>0, <1>6 DEF HeartbeatExpires, GrowIdle
<1> QED BY <1>0, <1>1, <1>2, <1>4, <1>5, <1>6 DEF Next, vars

LEMMA LiveInitially == Init => LaunchInv /\ AckInv /\ LifeInv /\ LiveInv
BY DEF Init, LaunchInv, LaunchedOnce, Launches, QueueInv, ProcsInv, UndeliveredInv,
       OneEarly, EarlyInv, Idler, Early, Handling, Delivered, AckInv, AckedIsFinal, Settled,
       LifeInv, HeldInv, LiveInv, NoneBoots, Ended, Over, Quiet, RunTerminal

\* NoLiveAbort: if nothing takes longer than the timeouts allow for, no scheduler
\* gives up a run whose Analyzer is connected, with any number of schedulers and
\* crashes.
THEOREM SchedulerAbortsNoLiveRun ==
    ASSUME Delays = {}
    PROVE  Spec => NoLiveAbort
<1> DEFINE Inv == TypeInv /\ LaunchInv /\ LifeInv /\ LiveInv
           GivenUp == \A r \in Runs : meta[r].status # "aborted" /\ meta'[r].status = "aborted" =>
                         \A k \in DOMAIN procs[r] : ~Connected(procs[r][k])
<1>1. Init => Inv
  BY TypesInitially, LiveInitially
<1>2. Inv /\ [Next]_vars => Inv'
  BY TypesInductive, LaunchInductive, LifeInductive, LiveInductive
<1>3. Inv /\ [Next]_vars => [GivenUp]_vars
  <2> SUFFICES ASSUME Inv, [Next]_vars, NEW r \in Runs,
                      meta[r].status # "aborted", meta'[r].status = "aborted",
                      NEW k \in DOMAIN procs[r]
               PROVE  ~Connected(procs[r][k])
    OBVIOUS
  <2>1. Ended(r) /\ k \in 1..Len(procs[r])
    BY AbortIsGivenUp, ProcType
  <2> QED BY <2>1 DEF Ended, Connected
<1> QED BY <1>1, <1>2, <1>3, PTL DEF Spec, NoLiveAbort

-----------------------------------------------------------------------------
(* A single worker.                                                         *)

OneWorker == \A s, t \in Schedulers : s = t

\* Nothing new is read while an entry is pending.
WorkInv ==
    /\ \A r \in pending : delivered # 0 /\ r = queue[delivered]
    /\ \A s \in Schedulers : sched[s].pc = "read" => pending = {}
    /\ \A s \in Schedulers : sched[s].pc \in Handling => sched[s].run \in pending

LEMMA WorkInductive ==
    ASSUME OneWorker, TypeInv, WorkInv, [Next]_vars
    PROVE  WorkInv'
<1>0. /\ queue \in Seq(Runs) /\ Len(queue) \in Nat /\ delivered \in 0..Len(queue)
      /\ sched \in [Schedulers -> Worker] /\ idle \subseteq pending
  BY DEF TypeInv, TypeOK
<1>1. CASE UNCHANGED <<queue, delivered, pending, sched>>
  BY <1>1 DEF WorkInv
<1>2. ASSUME NEW r \in Runs, Submit(r) PROVE WorkInv'
  <2>1. queue' = Append(queue, r) /\ UNCHANGED <<delivered, pending, sched>>
    BY <1>2 DEF Submit
  <2>2. delivered # 0 => queue'[delivered] = queue[delivered]
    BY <1>0, <2>1
  <2> QED BY <2>1, <2>2 DEF WorkInv
<1>3. ASSUME NEW s \in Schedulers, NEW w, sched' = [sched EXCEPT ![s] = w],
             UNCHANGED <<queue, delivered, pending>>,
             w.pc = "read" => pending = {},
             w.pc \in Handling => w.run \in pending
      PROVE  WorkInv'
  <2>1. \A t \in Schedulers : sched'[t] = IF t = s THEN w ELSE sched[t]
    BY <1>0, <1>3
  <2> QED BY <1>3, <2>1 DEF WorkInv
<1>4. ASSUME NEW s \in Schedulers, NEW pc, Goto(s, pc), UNCHANGED <<queue, delivered, pending>>,
             pc = "read" => pending = {},
             pc \in Handling => sched[s].pc \in Handling
      PROVE  WorkInv'
  <2> DEFINE w == [sched[s] EXCEPT !.pc = pc]
  <2>1. sched' = [sched EXCEPT ![s] = w] /\ w.pc = pc /\ w.run = sched[s].run
    BY <1>0, <1>4 DEF Goto, Worker
  <2> HIDE DEF w
  <2> QED BY <1>3, <1>4, <2>1 DEF WorkInv
<1>5. ASSUME NEW s \in Schedulers, NEW pc \in {"poll", "down"}, sched' = [sched EXCEPT ![s] = Idler(pc)],
             UNCHANGED <<queue, delivered, pending>>
      PROVE  WorkInv'
  <2>1. Idler(pc).pc = pc
    BY DEF Idler
  <2> QED BY <1>3, <1>5, <2>1 DEF Handling, SchedPcs
<1>6. ASSUME NEW s \in Schedulers, CountPending(s) PROVE WorkInv'
  BY <1>4, <1>6 DEF CountPending, queueVars, Handling, SchedPcs
<1>7. ASSUME NEW s \in Schedulers, NEW r, NEW recovered, Take(s, r, recovered)
      PROVE  \A t \in Schedulers : sched'[t].pc = "status" /\ sched'[t].run = r
  BY <1>0, <1>7 DEF OneWorker, Take
<1>8. ASSUME NEW s \in Schedulers, Claim(s) PROVE WorkInv'
  <2>1. CASE Goto(s, "poll")
    BY <1>4, <1>8, <2>1 DEF Claim, Handling, SchedPcs
  <2>2. CASE ~Goto(s, "poll")
    <3>1. PICK r \in idle : Take(s, r, TRUE)
      BY <1>8, <2>2 DEF Claim
    <3>2. UNCHANGED <<queue, delivered, pending>> /\ r \in pending
      BY <1>0, <1>8 DEF Claim
    <3>3. \A t \in Schedulers : sched'[t].pc = "status" /\ sched'[t].run = r
      BY <1>7, <3>1
    <3>4. \A x \in pending' : delivered' # 0 /\ x = queue'[delivered']
      BY <3>2 DEF WorkInv
    <3> QED BY <3>2, <3>3, <3>4 DEF WorkInv
  <2> QED BY <2>1, <2>2
<1>9. ASSUME NEW s \in Schedulers, Read(s) PROVE WorkInv'
  <2>1. CASE delivered = Len(queue)
    BY <1>4, <1>9, <2>1 DEF Read, Handling, SchedPcs
  <2>2. CASE delivered # Len(queue)
    <3> DEFINE r == queue[delivered + 1]
    <3>1. /\ Take(s, r, FALSE) /\ delivered' = delivered + 1 /\ queue' = queue
          /\ pending' = pending \union {r} /\ pending = {}
      BY <1>9, <2>2 DEF Read, WorkInv
    <3>2. delivered' # 0
      BY <1>0, <3>1
    <3> QED BY <1>7, <3>1, <3>2 DEF WorkInv
  <2> QED BY <2>1, <2>2
<1>10. ASSUME NEW s \in Schedulers, Ack(s) PROVE WorkInv'
  <2>1. /\ sched' = [sched EXCEPT ![s] = Idler("poll")]
        /\ UNCHANGED <<queue, delivered>> /\ pending' \subseteq pending
    BY <1>10 DEF Ack
  <2>2. \A t \in Schedulers : sched'[t].pc = "poll"
    BY <1>0, <2>1 DEF OneWorker, Idler
  <2> QED BY <2>1, <2>2 DEF WorkInv, Handling, SchedPcs
<1>11. ASSUME NEW s \in Schedulers, NEW new, NEW next \in {"ack", "popen"},
              sched[s].pc \in Handling, Transition(s, new, next)
       PROVE  WorkInv'
  BY <1>4, <1>5, <1>11 DEF Transition, queueVars
<1>12. ASSUME NEW s \in Schedulers, HandleEntry(s) PROVE WorkInv'
  <2>1. CASE ReadStatus(s)
    <3> DEFINE w == [sched[s] EXCEPT !.seen = meta[sched[s].run].status,
                       !.pc = IF meta[sched[s].run].status \in RunTerminal THEN "ack" ELSE "beat"]
    <3>1. /\ sched' = [sched EXCEPT ![s] = w] /\ sched[s].pc \in Handling
          /\ UNCHANGED <<queue, delivered, pending>>
      BY <1>0, <2>1 DEF ReadStatus, queueVars, Handling, SchedPcs
    <3>2. w.run = sched[s].run /\ w.pc # "read"
      BY <1>0 DEF Worker
    <3> HIDE DEF w
    <3> QED BY <1>3, <3>1, <3>2 DEF WorkInv
  <2>2. CASE CheckHeartbeat(s) \/ PopenFails(s) \/ Wait(s) \/ ReadFinal(s)
    BY <1>4, <1>5, <2>2 DEF CheckHeartbeat, PopenFails, Wait, ReadFinal, queueVars, Handling, SchedPcs
  <2>3. CASE AbortRecovered(s) \/ Start(s) \/ FailStart(s) \/ Finish(s)
    BY <1>11, <2>3 DEF AbortRecovered, Start, FailStart, Finish, Handling, SchedPcs
  <2>4. CASE Popen(s)
    <3> DEFINE w == [sched[s] EXCEPT !.pc = "wait", !.child = Len(procs[sched[s].run]) + 1]
    <3>1. /\ sched' = [sched EXCEPT ![s] = w] /\ sched[s].pc \in Handling
          /\ UNCHANGED <<queue, delivered, pending>>
      BY <1>0, <2>4 DEF Popen, queueVars, Handling, SchedPcs
    <3>2. w.run = sched[s].run /\ w.pc = "wait"
      BY <1>0 DEF Worker
    <3> HIDE DEF w
    <3> QED BY <1>3, <3>1, <3>2 DEF WorkInv
  <2> QED BY <1>10, <1>12, <2>1, <2>2, <2>3, <2>4 DEF HandleEntry
<1>13. ASSUME NEW s \in Schedulers, Crash(s) \/ Restart(s) PROVE WorkInv'
  BY <1>5, <1>13 DEF Crash, Restart, queueVars
<1>14. ASSUME NEW r \in Runs, HeartbeatExpires(r) \/ GrowIdle(r) PROVE WorkInv'
  BY <1>1, <1>14 DEF HeartbeatExpires, GrowIdle, queueVars
<1>15. ASSUME NEW r \in Runs, NEW k \in DOMAIN procs[r],
              ProcStep(r, k) \/ Die(r, k) \/ Disconnect(r, k) \/ Reconnect(r, k)
       PROVE  WorkInv'
  BY <1>1, <1>15 DEF ProcStep, Boot, EmitRunning, EmitFinal, Finalize, Exit, Die, Disconnect,
                     Reconnect, queueVars
<1> QED BY <1>1, <1>2, <1>6, <1>8, <1>9, <1>12, <1>13, <1>14, <1>15 DEF Next, Look, vars, queueVars

LEMMA WorkInitially == Init => WorkInv
BY DEF Init, WorkInv, Idler, Handling, SchedPcs

\* InOrder: a single scheduler, which does not stall, launches runs in the order in
\* which they were queued, each when those before it are over, whatever crashes.
THEOREM SchedulerStartsInOrder ==
    ASSUME OneWorker, "stall" \notin Delays
    PROVE  Spec => []InOrder
<1> DEFINE Inv == TypeInv /\ LaunchInv /\ AckInv /\ WorkInv
<1>1. Init => Inv
  BY TypesInitially, LiveInitially, WorkInitially
<1>2. Inv /\ [Next]_vars => Inv'
  BY TypesInductive, LaunchInductive, AckInductive, WorkInductive
<1>3. Inv => InOrder
  <2> SUFFICES ASSUME Inv, NEW i \in 1..Len(queue), NEW j \in 1..Len(queue), i < j,
                      Launches(queue[j]) > 0
               PROVE  meta[queue[i]].status \in RunTerminal
    BY DEF InOrder
  <2>0. Len(queue) \in Nat /\ delivered \in 0..Len(queue) /\ queue[i] \in Runs /\ queue[j] \in Runs
    BY ElementOfSeq DEF TypeInv, TypeOK
  <2>1. queue[j] \in Delivered
    <3>1. procs[queue[j]] # <<>>
      BY EmptySeq DEF Launches
    <3> QED BY <2>0, <3>1 DEF LaunchInv, UndeliveredInv
  <2>2. PICK d \in 1..delivered : queue[j] = queue[d]
    BY <2>1 DEF Delivered
  <2>3. j = d
    BY <2>0, <2>2 DEF LaunchInv, QueueInv
  <2>4. i \in 1..delivered /\ i # delivered /\ delivered \in 1..Len(queue)
    BY <2>0, <2>3
  <2>5. queue[i] \notin pending
    BY <2>4 DEF WorkInv, LaunchInv, QueueInv
  <2> QED BY <2>4, <2>5 DEF AckInv, AckedIsFinal, Settled
<1> QED BY <1>1, <1>2, <1>3, PTL DEF Spec

\* The run of an Analyzer that analyses is pending.
BusyInv == \A r \in Runs : r \in pending \/ Quiet(r)

LEMMA BusyInductive ==
    ASSUME Delays = {}, TypeInv, LaunchInv, AckInv, LifeInv, LiveInv, WorkInv, BusyInv, [Next]_vars
    PROVE  BusyInv'
<1>1. CASE UNCHANGED <<pending, procs>>
  BY <1>1 DEF BusyInv, Quiet
<1>2. ASSUME NEW s \in Schedulers, Ack(s) PROVE BusyInv'
  <2>1. sched[s].run \in Runs /\ Over(sched[s].run)
    BY <1>2, AckSettles
  <2>2. Quiet(sched[s].run)
    BY <2>1 DEF LiveInv
  <2>3. pending' = pending \ {sched[s].run} /\ procs' = procs
    BY <1>2 DEF Ack
  <2> QED BY <2>2, <2>3 DEF BusyInv, Quiet
<1>3. ASSUME NEW s \in Schedulers, Popen(s) PROVE BusyInv'
  <2>1. sched[s].run \in pending /\ pending' = pending
    BY <1>3 DEF Popen, WorkInv, Handling, SchedPcs, queueVars
  <2>2. \A x \in Runs : x # sched[s].run => procs'[x] = procs[x]
    BY <1>3 DEF Popen, TypeInv, TypeOK
  <2> QED BY <2>1, <2>2 DEF BusyInv, Quiet
<1>4. ASSUME NEW r \in Runs, NEW k \in DOMAIN procs[r],
             ProcStep(r, k) \/ Die(r, k) \/ Disconnect(r, k) \/ Reconnect(r, k)
      PROVE  BusyInv'
  <2>1. ~procs[r][k].offline /\ k \in 1..Len(procs[r])
    BY ProcType DEF LiveInv
  <2>2. pending' = pending
    BY <1>4, <2>1, AnalyzerStep DEF queueVars
  <2>3. PICK q \in Process : Set(r, k, q) /\ (q.pc \in Busy => procs[r][k].pc \in Busy)
    BY <1>4, <2>1, AnalyzerStep
  <2>4. /\ \A x \in Runs : Len(procs'[x]) = Len(procs[x])
        /\ \A x \in Runs : \A j \in 1..Len(procs[x]) :
              procs'[x][j] = IF x = r /\ j = k THEN q ELSE procs[x][j]
    BY <2>3, SetProc
  <2>5. \A x \in Runs : Quiet(x) => Quiet(x)'
    BY <2>1, <2>3, <2>4 DEF Quiet
  <2> QED BY <2>2, <2>5 DEF BusyInv
<1>5. ASSUME NEW s \in Schedulers, Look(s) \/ Crash(s) \/ Restart(s) PROVE BusyInv'
  <2>1. procs' = procs /\ pending \subseteq pending'
    BY <1>5 DEF Look, CountPending, Claim, Read, Crash, Restart, queueVars
  <2> QED BY <2>1 DEF BusyInv, Quiet
<1>6. ASSUME NEW s \in Schedulers, HandleEntry(s) PROVE BusyInv'
  BY <1>1, <1>2, <1>3, <1>6 DEF HandleEntry, ReadStatus, CheckHeartbeat, AbortRecovered, Start,
     PopenFails, FailStart, Wait, ReadFinal, Finish, Transition, queueVars
<1>7. ASSUME NEW r \in Runs, Submit(r) \/ HeartbeatExpires(r) \/ GrowIdle(r) PROVE BusyInv'
  BY <1>1, <1>7 DEF Submit, HeartbeatExpires, GrowIdle, queueVars
<1> QED BY <1>1, <1>4, <1>5, <1>6, <1>7 DEF Next, vars, queueVars

\* OneAtATime: with a single scheduler, and if nothing takes longer than the timeouts
\* allow for, the Analyzers of two runs never analyse at the same time, however often
\* the scheduler crashes and meets the orphan of its predecessor.
THEOREM SchedulerRunsOneAtATime ==
    ASSUME OneWorker, Delays = {}
    PROVE  Spec => []OneAtATime
<1> DEFINE Inv == TypeInv /\ LaunchInv /\ AckInv /\ LifeInv /\ LiveInv /\ WorkInv /\ BusyInv
<1>1. Init => Inv
  BY TypesInitially, LiveInitially, WorkInitially DEF Init, BusyInv, Quiet
<1>2. Inv /\ [Next]_vars => Inv'
  BY TypesInductive, LaunchInductive, AckInductive, LifeInductive, LiveInductive, WorkInductive,
     BusyInductive
<1>3. Inv => OneAtATime
  <2> SUFFICES ASSUME Inv, NEW x \in Analysing, NEW y \in Analysing PROVE x = y
    BY DEF OneAtATime
  <2>1. ASSUME NEW r \in Analysing PROVE r \in pending
    <3>1. r \in Runs
      BY DEF Analysing
    <3>2. PICK k \in DOMAIN procs[r] : procs[r][k].pc \in Busy
      BY DEF Analysing, Busy
    <3>3. k \in 1..Len(procs[r])
      BY <3>1, ProcType
    <3> QED BY <3>1, <3>2, <3>3 DEF BusyInv, Quiet
  <2> QED BY <2>1 DEF WorkInv
<1> QED BY <1>1, <1>2, <1>3, PTL DEF Spec
=============================================================================
