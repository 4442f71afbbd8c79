------------------------ MODULE RunScheduler_proofs ------------------------
(***************************************************************************)
(* Proofs about RunScheduler, for every set of runs and schedulers, every  *)
(* number of crashes and launches, and every kind of delay.                *)
(***************************************************************************)
EXTENDS RunScheduler, SequenceTheorems, TLAPS

-----------------------------------------------------------------------------
(* Types.                                                                   *)

\* A scheduler in mid-handling holds an entry, and one that waits for an
\* Analyzer has launched it.
Holds(s) ==
    /\ sched[s].pc \in Handling => sched[s].run \in Runs
    /\ sched[s].pc \in {"wait", "final", "finish"} =>
          sched[s].child \in 1..Len(procs[sched[s].run])

TypeInv == TypeOK /\ \A s \in Schedulers : Holds(s)

LEMMA ProcType ==
    ASSUME TypeInv, NEW r \in Runs, NEW k \in DOMAIN procs[r]
    PROVE  /\ procs[r][k] \in Process
           /\ k \in 1..Len(procs[r])
<1>1. procs[r] \in Seq(Process)
  BY DEF TypeInv, TypeOK
<1> QED BY <1>1, LenProperties, ElementOfSeq

LEMMA SetProc ==
    ASSUME TypeInv, NEW r \in Runs, NEW k \in DOMAIN procs[r],
           NEW p \in Process, Set(r, k, p)
    PROVE  /\ procs' \in [Runs -> Seq(Process)]
           /\ \A x \in Runs : Len(procs'[x]) = Len(procs[x])
           /\ \A x \in Runs : \A j \in 1..Len(procs[x]) :
                 procs'[x][j] = IF x = r /\ j = k THEN p ELSE procs[x][j]
<1>1. procs \in [Runs -> Seq(Process)]
  BY DEF TypeInv, TypeOK
<1>2. k \in 1..Len(procs[r])
  BY ProcType
<1>3. procs' = [procs EXCEPT ![r] = [procs[r] EXCEPT ![k] = p]]
  BY <1>1 DEF Set
<1>4. /\ [procs[r] EXCEPT ![k] = p] \in Seq(Process)
      /\ Len([procs[r] EXCEPT ![k] = p]) = Len(procs[r])
      /\ \A j \in 1..Len(procs[r]) :
            [procs[r] EXCEPT ![k] = p][j] = IF j = k THEN p ELSE procs[r][j]
  BY <1>1, <1>2, ExceptSeq
<1> QED BY <1>1, <1>3, <1>4

\* What an Analyzer step does to its own process leaves the schedulers' view
\* of the processes as it was.
LEMMA ProcStepTypes ==
    ASSUME TypeInv, NEW r \in Runs, NEW k \in DOMAIN procs[r],
           NEW p \in Process, Set(r, k, p),
           UNCHANGED <<queueVars, sched, crashes>>,
           meta' \in [Runs -> Meta], heartbeat' \subseteq Runs
    PROVE  TypeInv'
<1>1. /\ procs' \in [Runs -> Seq(Process)]
      /\ \A x \in Runs : Len(procs'[x]) = Len(procs[x])
  BY SetProc
<1>2. TypeOK'
  BY <1>1 DEF TypeInv, TypeOK, queueVars
<1>3. ASSUME NEW s \in Schedulers PROVE Holds(s)'
  <2>1. sched[s].pc \in {"wait", "final", "finish"} => sched[s].run \in Runs
    BY DEF TypeInv, Holds, Handling, SchedPcs
  <2> QED BY <1>1, <2>1 DEF TypeInv, Holds
<1> QED BY <1>2, <1>3 DEF TypeInv

LEMMA ReplyTypes ==
    ASSUME NEW old \in MetaStatus, NEW new \in MetaStatus
    PROVE  SchedulerReply(old, new) \in {"missing", "terminal", "invalid", "accepted"}
BY DEF SchedulerReply

LEMMA WriteRunTypes ==
    ASSUME TypeInv, NEW r \in Runs, NEW data \in [status : RunStatus, rev : Nat],
           NEW snapshot \in BOOLEAN, WriteRun(r, data, snapshot)
    PROVE  meta' \in [Runs -> Meta]
BY DEF TypeInv, TypeOK, WriteRun, Meta, MetaStatus

LEMMA EmitTypes ==
    ASSUME NEW r, NEW p \in Process, NEW status \in RunStatus
    PROVE  Emit(r, p, status) \in Process
<1> DEFINE data == [status |-> status, rev |-> p.local.rev + 1]
<1>1. p.local.rev \in Nat
  BY DEF Process
<1>2. data \in [status : RunStatus, rev : Nat]
  BY <1>1
<1>3. [p EXCEPT !.local = data] \in Process
  BY <1>2 DEF Process
<1> QED BY <1>3 DEF Emit

\* A scheduler's own move: nobody else's entry, run or process changes.
LEMMA SchedStepTypes ==
    ASSUME TypeInv, NEW s \in Schedulers, NEW w \in Worker,
           sched' = [sched EXCEPT ![s] = w],
           w.pc \in Handling => w.run \in Runs,
           w.pc \in {"wait", "final", "finish"} => w.child \in 1..Len(procs[w.run]),
           UNCHANGED procs
    PROVE  /\ sched' \in [Schedulers -> Worker]
           /\ \A t \in Schedulers : Holds(t)'
<1>1. sched \in [Schedulers -> Worker] /\ \A t \in Schedulers : Holds(t)
  BY DEF TypeInv, TypeOK
<1>2. ASSUME NEW t \in Schedulers PROVE Holds(t)'
  <2>1. CASE t = s
    BY <1>1, <2>1 DEF Holds
  <2>2. CASE t # s
    BY <1>1, <2>2 DEF Holds
  <2> QED BY <2>1, <2>2
<1> QED BY <1>1, <1>2

LEMMA IdlerTypes ==
    ASSUME NEW pc \in {"poll", "down"}
    PROVE  /\ Idler(pc) \in Worker
           /\ Idler(pc).pc = pc
           /\ pc \notin Handling
           /\ pc \notin {"wait", "final", "finish"}
BY SchedulerAssumption DEF Idler, Worker, SchedPcs, MetaStatus, Handling

LEMMA GotoTypes ==
    ASSUME TypeInv, NEW s \in Schedulers, NEW pc \in SchedPcs, Goto(s, pc),
           pc \in Handling => sched[s].run \in Runs,
           pc \in {"wait", "final", "finish"} => sched[s].pc \in {"wait", "final", "finish"},
           UNCHANGED procs
    PROVE  /\ sched' \in [Schedulers -> Worker]
           /\ \A t \in Schedulers : Holds(t)'
<1> DEFINE w == [sched[s] EXCEPT !.pc = pc]
<1>1. sched[s] \in Worker /\ Holds(s)
  BY DEF TypeInv, TypeOK
<1>2. /\ w \in Worker
      /\ w.pc = pc /\ w.run = sched[s].run /\ w.child = sched[s].child
  BY <1>1 DEF Worker
<1>3. sched' = [sched EXCEPT ![s] = w]
  BY DEF Goto, TypeInv, TypeOK
<1>4. pc \in {"wait", "final", "finish"} => w.child \in 1..Len(procs[w.run])
  BY <1>1, <1>2 DEF Holds
<1> HIDE DEF w
<1> QED BY <1>2, <1>3, <1>4, SchedStepTypes

LEMMA TransitionTypes ==
    ASSUME TypeInv, NEW s \in Schedulers, sched[s].pc \in Handling,
           NEW new \in MetaStatus, NEW next \in {"ack", "popen"},
           Transition(s, new, next)
    PROVE  TypeInv'
<1>1. sched[s].run \in Runs /\ meta[sched[s].run] \in Meta
  BY DEF TypeInv, TypeOK, Holds
<1> DEFINE reply == SchedulerReply(meta[sched[s].run].status, new)
<1>2. meta' = [meta EXCEPT ![sched[s].run].status = new] \/ meta' = meta
  BY DEF Transition
<1>3. [meta[sched[s].run] EXCEPT !.status = new] \in Meta
  BY <1>1 DEF Meta
<1>4. meta' \in [Runs -> Meta]
  BY <1>1, <1>2, <1>3 DEF TypeInv, TypeOK
<1>5. UNCHANGED <<queueVars, heartbeat, procs, crashes>>
  BY DEF Transition
<1>6. /\ sched' \in [Schedulers -> Worker]
      /\ \A t \in Schedulers : Holds(t)'
  <2>1. CASE reply \in {"missing", "invalid"}
    <3>1. sched' = [sched EXCEPT ![s] = Idler("down")]
      BY <2>1 DEF Transition
    <3> QED BY <1>5, <3>1, IdlerTypes, SchedStepTypes
  <2>2. CASE reply \notin {"missing", "invalid"}
    <3>1. Goto(s, next)
      BY <2>2 DEF Transition
    <3> QED BY <1>1, <1>5, <3>1, GotoTypes DEF SchedPcs, Handling
  <2> QED BY <2>1, <2>2
<1> QED BY <1>4, <1>5, <1>6 DEF TypeInv, TypeOK, queueVars

-----------------------------------------------------------------------------
(* Every action preserves the types.                                        *)

LEMMA SubmitTypes ==
    ASSUME TypeInv, NEW r \in Runs, Submit(r)
    PROVE  TypeInv'
<1>1. queue' \in Seq(Runs) /\ Len(queue') = Len(queue) + 1
  BY DEF TypeInv, TypeOK, Submit
<1>2. delivered' \in 0..Len(queue')
  BY <1>1 DEF TypeInv, TypeOK, Submit
<1>3. [meta[r] EXCEPT !.status = "queued"] \in Meta
  BY DEF TypeInv, TypeOK, Meta, MetaStatus, RunStatus
<1>4. meta' \in [Runs -> Meta]
  BY <1>3 DEF TypeInv, TypeOK, Submit
<1> QED BY <1>1, <1>2, <1>4 DEF TypeInv, TypeOK, Holds, Submit

LEMMA TakeTypes ==
    ASSUME TypeInv, NEW s \in Schedulers, NEW r \in Runs, NEW recovered \in BOOLEAN,
           Take(s, r, recovered), UNCHANGED procs
    PROVE  /\ sched' \in [Schedulers -> Worker]
           /\ \A t \in Schedulers : Holds(t)'
<1> DEFINE w == [pc |-> "status", run |-> r, recovered |-> recovered,
                 seen |-> "absent", child |-> 0]
<1>1. w \in Worker /\ w.pc = "status" /\ w.run = r
  BY SchedulerAssumption DEF Worker, SchedPcs, MetaStatus
<1>2. sched' = [sched EXCEPT ![s] = w]
  BY DEF Take
<1> HIDE DEF w
<1> QED BY <1>1, <1>2, SchedStepTypes

LEMMA LookTypes ==
    ASSUME TypeInv, NEW s \in Schedulers, Look(s)
    PROVE  TypeInv'
<1>1. CASE CountPending(s)
  <2>1. \E pc \in {"claim", "read"} : Goto(s, pc)
    BY <1>1 DEF CountPending
  <2>2. sched' \in [Schedulers -> Worker] /\ \A t \in Schedulers : Holds(t)'
    BY <1>1, <2>1, GotoTypes DEF CountPending, SchedPcs, Handling
  <2> QED BY <1>1, <2>2 DEF TypeInv, TypeOK, CountPending, queueVars
<1>2. CASE Claim(s)
  <2>1. UNCHANGED <<queue, delivered, pending, meta, heartbeat, procs, crashes>>
    BY <1>2 DEF Claim
  <2>2. CASE Goto(s, "poll") /\ UNCHANGED idle
    <3>1. sched' \in [Schedulers -> Worker] /\ \A t \in Schedulers : Holds(t)'
      BY <2>1, <2>2, GotoTypes DEF SchedPcs, Handling
    <3> QED BY <2>1, <2>2, <3>1 DEF TypeInv, TypeOK
  <2>3. CASE \E i \in DOMAIN queue : Take(s, queue[i], TRUE) /\ idle' = idle \ {queue[i]}
    <3>1. PICK i \in DOMAIN queue : Take(s, queue[i], TRUE) /\ idle' = idle \ {queue[i]}
      BY <2>3
    <3>2. queue[i] \in Runs
      BY LenProperties, ElementOfSeq DEF TypeInv, TypeOK
    <3>3. sched' \in [Schedulers -> Worker] /\ \A t \in Schedulers : Holds(t)'
      BY <2>1, <3>1, <3>2, TakeTypes
    <3> QED BY <2>1, <3>1, <3>3 DEF TypeInv, TypeOK
  <2> QED BY <1>2, <2>2, <2>3 DEF Claim
<1>3. CASE Read(s)
  <2>1. UNCHANGED <<queue, idle, meta, heartbeat, procs, crashes>>
    BY <1>3 DEF Read
  <2>2. CASE delivered = Len(queue)
    <3>1. Goto(s, "poll") /\ UNCHANGED <<delivered, pending>>
      BY <1>3, <2>2 DEF Read
    <3>2. sched' \in [Schedulers -> Worker] /\ \A t \in Schedulers : Holds(t)'
      BY <2>1, <3>1, GotoTypes DEF SchedPcs, Handling
    <3> QED BY <2>1, <3>1, <3>2 DEF TypeInv, TypeOK
  <2>3. CASE delivered # Len(queue)
    <3> DEFINE r == queue[delivered + 1]
    <3>1. Take(s, r, FALSE) /\ delivered' = delivered + 1 /\ pending' = pending \union {r}
      BY <1>3, <2>3 DEF Read
    <3>2. Len(queue) \in Nat /\ delivered + 1 \in 1..Len(queue)
      BY <2>3 DEF TypeInv, TypeOK
    <3>3. r \in Runs
      BY <3>2, ElementOfSeq DEF TypeInv, TypeOK
    <3>4. delivered' \in 0..Len(queue')
      BY <2>1, <3>1, <3>2
    <3> HIDE DEF r
    <3>5. sched' \in [Schedulers -> Worker] /\ \A t \in Schedulers : Holds(t)'
      BY <2>1, <3>1, <3>3, TakeTypes
    <3> QED BY <2>1, <3>1, <3>3, <3>4, <3>5 DEF TypeInv, TypeOK
  <2> QED BY <2>2, <2>3
<1> QED BY <1>1, <1>2, <1>3 DEF Look

LEMMA HandleTypes ==
    ASSUME TypeInv, NEW s \in Schedulers, HandleEntry(s)
    PROVE  TypeInv'
<1>1. /\ sched[s] \in Worker /\ Holds(s)
      /\ sched[s].pc \in Handling => sched[s].run \in Runs /\ meta[sched[s].run] \in Meta
  BY DEF TypeInv, TypeOK, Holds
<1>2. CASE ReadStatus(s)
  <2> DEFINE seen == meta[sched[s].run].status
             w == [sched[s] EXCEPT !.seen = seen,
                                   !.pc = IF seen \in RunTerminal THEN "ack" ELSE "beat"]
  <2>1. sched[s].run \in Runs /\ seen \in MetaStatus
    BY <1>1, <1>2 DEF ReadStatus, Handling, SchedPcs, Meta
  <2> HIDE DEF seen
  <2>2. /\ w \in Worker /\ w.run = sched[s].run
        /\ w.pc \in {"ack", "beat"}
    BY <1>1, <2>1 DEF Worker, SchedPcs
  <2>3. sched' = [sched EXCEPT ![s] = w]
    BY <1>2 DEF ReadStatus, TypeInv, TypeOK, seen
  <2> HIDE DEF w
  <2>4. sched' \in [Schedulers -> Worker] /\ \A t \in Schedulers : Holds(t)'
    BY <1>2, <2>1, <2>2, <2>3, SchedStepTypes DEF ReadStatus
  <2> QED BY <1>2, <2>4 DEF TypeInv, TypeOK, ReadStatus, queueVars
<1>3. CASE CheckHeartbeat(s)
  <2>1. sched[s].run \in Runs
    BY <1>1, <1>3 DEF CheckHeartbeat, Handling, SchedPcs
  <2>2. UNCHANGED <<queueVars, meta, heartbeat, procs, crashes>>
    BY <1>3 DEF CheckHeartbeat
  <2>3. CASE sched' = [sched EXCEPT ![s] = Idler("poll")]
    <3>1. sched' \in [Schedulers -> Worker] /\ \A t \in Schedulers : Holds(t)'
      BY <2>2, <2>3, IdlerTypes, SchedStepTypes
    <3> QED BY <2>2, <3>1 DEF TypeInv, TypeOK, queueVars
  <2>4. CASE \E pc \in {"abort", "start"} : Goto(s, pc)
    <3>1. sched' \in [Schedulers -> Worker] /\ \A t \in Schedulers : Holds(t)'
      BY <2>1, <2>2, <2>4, GotoTypes DEF SchedPcs
    <3> QED BY <2>2, <3>1 DEF TypeInv, TypeOK, queueVars
  <2> QED BY <1>3, <2>3, <2>4 DEF CheckHeartbeat
<1>4. CASE AbortRecovered(s) \/ Start(s) \/ FailStart(s)
  BY <1>4, TransitionTypes
     DEF AbortRecovered, Start, FailStart, Handling, SchedPcs, MetaStatus, RunStatus
<1>5. CASE Popen(s)
  <2> DEFINE r == sched[s].run
             w == [sched[s] EXCEPT !.pc = "wait", !.child = Len(procs[r]) + 1]
  <2>1. r \in Runs /\ procs \in [Runs -> Seq(Process)]
    BY <1>1, <1>5 DEF Popen, Handling, SchedPcs, TypeInv, TypeOK
  <2>2. NewProc \in Process
    BY DEF NewProc, Process, ProcPcs, RunStatus
  <2>3. /\ procs' = [procs EXCEPT ![r] = Append(procs[r], NewProc)]
        /\ Len(procs[r]) < MaxLaunches
        /\ UNCHANGED <<queueVars, meta, heartbeat, crashes>>
    BY <1>5, <2>1 DEF Popen
  <2>4. /\ Append(procs[r], NewProc) \in Seq(Process)
        /\ Len(Append(procs[r], NewProc)) = Len(procs[r]) + 1
        /\ Len(procs[r]) \in Nat
    BY <2>1, <2>2
  <2>5. /\ procs' \in [Runs -> Seq(Process)]
        /\ Len(procs'[r]) = Len(procs[r]) + 1
        /\ \A x \in Runs \ {r} : procs'[x] = procs[x]
    BY <2>1, <2>3, <2>4
  <2>6. Len(procs[r]) + 1 \in 0..MaxLaunches
    BY <2>3, <2>4, SchedulerAssumption
  <2>7. w \in Worker /\ w.pc = "wait" /\ w.run = r /\ w.child = Len(procs[r]) + 1
    BY <1>1, <2>6 DEF Worker, SchedPcs
  <2>8. sched' = [sched EXCEPT ![s] = w]
    BY <1>5 DEF Popen, TypeInv, TypeOK
  <2> HIDE DEF w
  <2>9. ASSUME NEW t \in Schedulers PROVE Holds(t)'
    <3>1. CASE t = s
      <4>1. sched'[t] = w
        BY <2>8, <3>1 DEF TypeInv, TypeOK
      <4>2. w.child \in 1..Len(procs'[r])
        BY <2>4, <2>5, <2>7
      <4> QED BY <2>1, <2>7, <4>1, <4>2 DEF Holds
    <3>2. CASE t # s
      <4>1. sched'[t] = sched[t] /\ Holds(t)
        BY <2>8, <3>2 DEF TypeInv, TypeOK
      <4>2. \A x \in Runs : 1..Len(procs[x]) \subseteq 1..Len(procs'[x])
        BY <2>4, <2>5
      <4>3. sched[t].pc \in {"wait", "final", "finish"} => sched[t].run \in Runs
        BY <4>1 DEF Holds, Handling, SchedPcs
      <4> QED BY <4>1, <4>2, <4>3 DEF Holds
    <3> QED BY <3>1, <3>2
  <2>10. sched' \in [Schedulers -> Worker]
    BY <2>7, <2>8 DEF TypeInv, TypeOK
  <2> QED BY <2>3, <2>5, <2>9, <2>10 DEF TypeInv, TypeOK, queueVars
<1>6. CASE PopenFails(s) \/ Wait(s) \/ ReadFinal(s)
  <2>1. UNCHANGED <<queueVars, meta, heartbeat, procs, crashes>>
    BY <1>6 DEF PopenFails, Wait, ReadFinal
  <2>2. sched' \in [Schedulers -> Worker] /\ \A t \in Schedulers : Holds(t)'
    <3>1. CASE PopenFails(s)
      BY <1>1, <2>1, <3>1, GotoTypes DEF PopenFails, SchedPcs, Handling
    <3>2. CASE Wait(s)
      BY <1>1, <2>1, <3>2, GotoTypes DEF Wait, SchedPcs, Handling
    <3>3. CASE ReadFinal(s)
      <4>1. sched[s].pc = "final" /\ \E pc \in {"ack", "finish"} : Goto(s, pc)
        BY <3>3 DEF ReadFinal
      <4> QED BY <1>1, <2>1, <4>1, GotoTypes DEF SchedPcs, Handling
    <3> QED BY <1>6, <3>1, <3>2, <3>3
  <2> QED BY <2>1, <2>2 DEF TypeInv, TypeOK, queueVars
<1>7. CASE Finish(s)
  <2>1. sched[s].run \in Runs /\ sched[s].child \in 1..Len(procs[sched[s].run])
    BY <1>1, <1>7 DEF Finish, Handling, SchedPcs, Holds
  <2>2. Child(s) \in Process
    BY <2>1, ElementOfSeq DEF Child, TypeInv, TypeOK
  <2>3. Child(s).verdict \in MetaStatus
    BY <2>2 DEF Process, MetaStatus, RunStatus
  <2> QED BY <1>7, <2>3, TransitionTypes DEF Finish, Handling, SchedPcs
<1>8. CASE Ack(s)
  <2>1. sched' \in [Schedulers -> Worker] /\ \A t \in Schedulers : Holds(t)'
    BY <1>8, IdlerTypes, SchedStepTypes DEF Ack
  <2> QED BY <1>8, <2>1 DEF Ack, TypeInv, TypeOK
<1> QED BY <1>2, <1>3, <1>4, <1>5, <1>6, <1>7, <1>8 DEF HandleEntry

LEMMA DownTypes ==
    ASSUME TypeInv, NEW s \in Schedulers, Crash(s) \/ Restart(s)
    PROVE  TypeInv'
<1>1. /\ UNCHANGED <<queueVars, meta, heartbeat, procs>>
      /\ \E pc \in {"poll", "down"} : sched' = [sched EXCEPT ![s] = Idler(pc)]
  BY DEF Crash, Restart
<1>2. sched' \in [Schedulers -> Worker] /\ \A t \in Schedulers : Holds(t)'
  BY <1>1, IdlerTypes, SchedStepTypes
<1>3. crashes' \in 0..MaxCrashes
  BY SchedulerAssumption DEF TypeInv, TypeOK, Crash, Restart
<1> QED BY <1>1, <1>2, <1>3 DEF TypeInv, TypeOK, queueVars

LEMMA AnalyzerTypes ==
    ASSUME TypeInv, NEW r \in Runs, NEW k \in DOMAIN procs[r],
           ProcStep(r, k) \/ Die(r, k) \/ Disconnect(r, k) \/ Reconnect(r, k)
    PROVE  TypeInv'
<1> DEFINE p == procs[r][k]
<1>1. p \in Process /\ meta \in [Runs -> Meta] /\ heartbeat \subseteq Runs
  BY ProcType DEF TypeInv, TypeOK
<1>2. meta[r] \in Meta
  BY <1>1
<1>3. /\ \A pc \in ProcPcs : [p EXCEPT !.pc = pc] \in Process
      /\ \A pc \in ProcPcs, b \in BOOLEAN : [p EXCEPT !.pc = pc, !.offline = b] \in Process
      /\ \A b \in BOOLEAN : [p EXCEPT !.offline = b] \in Process
      /\ \A pc \in ProcPcs, v \in {"succeeded", "failed"} :
            [p EXCEPT !.pc = pc, !.verdict = v] \in Process
  BY <1>1 DEF Process
<1>4. p.local \in [status : RunStatus, rev : Nat] /\ p.local.rev \in Nat
      /\ p.verdict \in {"succeeded", "failed"} /\ p.offline \in BOOLEAN
  BY <1>1 DEF Process
<1> HIDE DEF p
<1>5. CASE Boot(r, k)
  <2>1. /\ UNCHANGED <<queueVars, sched, crashes>>
        /\ \/ Set(r, k, [p EXCEPT !.pc = "up"])
           \/ Set(r, k, [p EXCEPT !.pc = "up", !.offline = TRUE])
    BY <1>5 DEF Boot, p
  <2>2. heartbeat' \subseteq Runs
    BY <1>1, <1>5 DEF Boot
  <2>3. [meta[r] EXCEPT !.initialized = TRUE, !.rev = 0,
                        !.status = IF @ = "queued" THEN "starting" ELSE @] \in Meta
    BY <1>2 DEF Meta, MetaStatus, RunStatus
  <2>4. \/ meta' = meta
        \/ meta' = [meta EXCEPT ![r] = [meta[r] EXCEPT !.initialized = TRUE, !.rev = 0,
                        !.status = IF @ = "queued" THEN "starting" ELSE @]]
    BY <1>1, <1>5 DEF Boot
  <2>5. meta' \in [Runs -> Meta]
    BY <1>1, <2>3, <2>4
  <2> QED BY <1>3, <2>1, <2>2, <2>5, ProcStepTypes DEF ProcPcs
<1>6. CASE EmitRunning(r, k) \/ \E v \in {"succeeded", "failed"} : EmitFinal(r, k, v)
  <2>1. UNCHANGED <<queueVars, heartbeat, sched, crashes>>
    BY <1>6 DEF EmitRunning, EmitFinal
  <2>2. PICK status \in RunStatus, q \in Process :
          /\ Set(r, k, q)
          /\ \/ UNCHANGED meta
             \/ WriteRun(r, [status |-> status, rev |-> p.local.rev + 1], FALSE)
    <3>1. CASE EmitRunning(r, k)
      <4>1. Emit(r, p, "running") \in Process
        BY <1>1, EmitTypes DEF RunStatus
      <4>2. [Emit(r, p, "running") EXCEPT !.pc = "working"] \in Process
        BY <4>1 DEF Process, ProcPcs
      <4> QED BY <3>1, <4>2 DEF EmitRunning, RunStatus, p
    <3>2. CASE \E v \in {"succeeded", "failed"} : EmitFinal(r, k, v)
      <4>1. PICK v \in {"succeeded", "failed"} : EmitFinal(r, k, v)
        BY <3>2
      <4>2. Emit(r, p, v) \in Process
        BY <1>1, <4>1, EmitTypes DEF RunStatus
      <4>3. [Emit(r, p, v) EXCEPT !.pc = "final", !.verdict = v] \in Process
        BY <4>1, <4>2 DEF Process, ProcPcs
      <4> QED BY <4>1, <4>3 DEF EmitFinal, RunStatus, p
    <3> QED BY <1>6, <3>1, <3>2
  <2>3. [status |-> status, rev |-> p.local.rev + 1] \in [status : RunStatus, rev : Nat]
    BY <1>4, <2>2
  <2>4. meta' \in [Runs -> Meta]
    BY <1>1, <2>2, <2>3, WriteRunTypes
  <2> QED BY <1>1, <2>1, <2>2, <2>4, ProcStepTypes
<1>7. CASE Finalize(r, k)
  <2>1. /\ UNCHANGED <<queueVars, heartbeat, sched, crashes>>
        /\ Set(r, k, [p EXCEPT !.pc = "finalized"])
        /\ meta' = meta \/ meta' = [meta EXCEPT ![r] = [meta[r] EXCEPT !.status = p.verdict]]
    BY <1>1, <1>7 DEF Finalize, p
  <2>2. [meta[r] EXCEPT !.status = p.verdict] \in Meta
    BY <1>2, <1>4 DEF Meta, MetaStatus, RunStatus
  <2>3. meta' \in [Runs -> Meta]
    BY <1>1, <2>1, <2>2
  <2> QED BY <1>1, <1>3, <2>1, <2>3, ProcStepTypes DEF ProcPcs
<1>8. CASE Exit(r, k) \/ Die(r, k) \/ Disconnect(r, k)
  <2>1. UNCHANGED <<queueVars, meta, heartbeat, sched, crashes>>
    BY <1>8 DEF Exit, Die, Disconnect
  <2>2. \/ Set(r, k, [p EXCEPT !.pc = "exited"])
        \/ Set(r, k, [p EXCEPT !.pc = "exited", !.verdict = "failed"])
        \/ Set(r, k, [p EXCEPT !.offline = TRUE])
    BY <1>8 DEF Exit, Die, Disconnect, p
  <2> QED BY <1>1, <1>3, <2>1, <2>2, ProcStepTypes DEF ProcPcs
<1>9. CASE Reconnect(r, k)
  <2>1. /\ UNCHANGED <<queueVars, sched, crashes>>
        /\ Set(r, k, [p EXCEPT !.offline = FALSE])
        /\ heartbeat' \subseteq Runs
    BY <1>1, <1>9 DEF Reconnect, p
  <2>2. PICK st \in MetaStatus, v \in Nat :
          meta' = [meta EXCEPT ![r] = [initialized |-> TRUE, rev |-> v, status |-> st]]
    BY <1>2, <1>4, <1>9 DEF Reconnect, p, Meta, MetaStatus, RunStatus
  <2>3. [initialized |-> TRUE, rev |-> v, status |-> st] \in Meta
    BY <2>2 DEF Meta
  <2>4. meta' \in [Runs -> Meta]
    BY <1>1, <2>2, <2>3
  <2> QED BY <1>3, <2>1, <2>4, ProcStepTypes
<1> QED BY <1>5, <1>6, <1>7, <1>8, <1>9 DEF ProcStep

LEMMA TimeTypes ==
    ASSUME TypeInv, NEW r \in Runs, HeartbeatExpires(r) \/ GrowIdle(r)
    PROVE  TypeInv'
BY DEF TypeInv, TypeOK, Holds, HeartbeatExpires, GrowIdle, queueVars

LEMMA TypesInductive ==
    ASSUME TypeInv, [Next]_vars
    PROVE  TypeInv'
<1>1. CASE UNCHANGED vars
  BY <1>1 DEF vars, queueVars, TypeInv, TypeOK, Holds
<1>2. CASE Next
  BY <1>2, SubmitTypes, LookTypes, HandleTypes, DownTypes, AnalyzerTypes, TimeTypes DEF Next
<1> QED BY <1>1, <1>2

LEMMA TypesInitially == Init => TypeInv
<1> SUFFICES ASSUME Init PROVE TypeInv
  OBVIOUS
<1>1. queue \in Seq(Runs) /\ delivered \in 0..Len(queue)
  BY DEF Init
<1>2. meta \in [Runs -> Meta]
  BY DEF Init, Meta, MetaStatus
<1>3. \A s \in Schedulers : Idler("poll") \in Worker /\ sched[s] = Idler("poll")
  BY IdlerTypes DEF Init
<1>4. sched \in [Schedulers -> Worker]
  BY <1>3 DEF Init
<1>5. \A s \in Schedulers : Holds(s)
  BY <1>3, IdlerTypes DEF Holds
<1>6. procs \in [Runs -> Seq(Process)]
  BY EmptySeq DEF Init
<1> QED BY <1>1, <1>2, <1>4, <1>5, <1>6, SchedulerAssumption DEF Init, TypeInv, TypeOK

\* TypeOK: the queue, the store, the schedulers and the processes keep their
\* types, and what was delivered never runs ahead of the queue.
THEOREM SchedulerTypes == Spec => []TypeOK
<1>1. Spec => []TypeInv
  BY TypesInitially, TypesInductive, PTL DEF Spec
<1>2. TypeInv => TypeOK
  BY DEF TypeInv
<1> QED BY <1>1, <1>2, PTL

-----------------------------------------------------------------------------
(* Acknowledged runs have a terminal status.                                *)

Over(r) == meta[r].status \in RunTerminal

AckInv ==
    /\ AckedIsFinal
    /\ \A s \in Schedulers : sched[s].pc = "ack" => Over(sched[s].run)

\* RUN_TRANSITION_LUA accepts no write that leaves a terminal status.
LEMMA RunWriteKeepsTerminal ==
    ASSUME NEW old \in RunTerminal, NEW rev \in Nat,
           NEW data \in [status : RunStatus, rev : Nat], NEW snapshot \in BOOLEAN,
           RunWriteReply(old, rev, data, snapshot) = "accepted"
    PROVE  data.status = old
BY DEF RunWriteReply, RunAllowed, RunMoves, RunTerminal, MetaStatus, RunStatus

LEMMA WriteRunKeepsTerminal ==
    ASSUME TypeInv, NEW r \in Runs, NEW data \in [status : RunStatus, rev : Nat],
           NEW snapshot \in BOOLEAN, WriteRun(r, data, snapshot), NEW x \in Runs, Over(x)
    PROVE  Over(x)'
<1>1. meta \in [Runs -> Meta] /\ meta[r].rev \in Nat
  BY DEF TypeInv, TypeOK, Meta
<1>2. CASE RunWriteReply(meta[r].status, meta[r].rev, data, snapshot) = "accepted"
  <2>1. meta' = [meta EXCEPT ![r] = [meta[r] EXCEPT !.status = data.status, !.rev = data.rev]]
    BY <1>1, <1>2 DEF WriteRun
  <2>2. [meta[r] EXCEPT !.status = data.status, !.rev = data.rev].status = data.status
    BY <1>1 DEF Meta
  <2>3. x = r => data.status = meta[r].status
    BY <1>1, <1>2, RunWriteKeepsTerminal DEF Over
  <2> QED BY <1>1, <2>1, <2>2, <2>3 DEF Over
<1>3. CASE RunWriteReply(meta[r].status, meta[r].rev, data, snapshot) # "accepted"
  BY <1>3 DEF WriteRun, Over
<1> QED BY <1>2, <1>3

\* A transition of the scheduler that does not raise leaves the run with the
\* status it asks for, or with the terminal status the run already had.
LEMMA TransitionStatus ==
    ASSUME TypeInv, NEW s \in Schedulers, sched[s].pc \in Handling,
           NEW new \in MetaStatus, NEW next \in {"ack", "popen"}, Transition(s, new, next)
    PROVE  /\ \A x \in Runs : Over(x) => Over(x)'
           /\ sched' = [sched EXCEPT ![s] = Idler("down")]
              \/ /\ Goto(s, next)
                 /\ meta'[sched[s].run].status \in RunTerminal \union {new}
<1> DEFINE r == sched[s].run
           reply == SchedulerReply(meta[r].status, new)
<1>1. r \in Runs /\ meta \in [Runs -> Meta] /\ meta[r] \in Meta
  BY DEF TypeInv, TypeOK, Holds
<1>2. reply \in {"missing", "terminal", "invalid", "accepted"}
  BY <1>1, ReplyTypes DEF Meta
<1>3. reply = "accepted" => ~Over(r)
  BY DEF SchedulerReply, Over, RunTerminal
<1>4. reply = "terminal" => Over(r)
  BY DEF SchedulerReply, Over
<1>5. [meta[r] EXCEPT !.status = new].status = new
  BY <1>1 DEF Meta
<1>6. meta' = IF reply = "accepted" THEN [meta EXCEPT ![r] = [meta[r] EXCEPT !.status = new]]
              ELSE meta
  BY <1>1 DEF Transition
<1>7. IF reply \in {"missing", "invalid"} THEN sched' = [sched EXCEPT ![s] = Idler("down")]
      ELSE Goto(s, next)
  BY DEF Transition
<1> HIDE DEF r, reply
<1>8. \A x \in Runs : Over(x) => Over(x)'
  BY <1>1, <1>3, <1>6 DEF Over
<1>9. reply = "accepted" => meta'[r].status = new
  BY <1>1, <1>5, <1>6
<1>10. reply = "terminal" => meta'[r].status \in RunTerminal
  BY <1>4, <1>6 DEF Over
<1> QED BY <1>2, <1>7, <1>8, <1>9, <1>10 DEF r

LEMMA TerminalStays ==
    ASSUME TypeInv, [Next]_vars, NEW x \in Runs, Over(x)
    PROVE  Over(x)'
<1>0. meta \in [Runs -> Meta] /\ meta[x].status \in RunTerminal
  BY DEF TypeInv, TypeOK, Over
<1>1. CASE UNCHANGED meta
  BY <1>1 DEF Over
<1>2. ASSUME NEW r \in Runs, Submit(r) PROVE Over(x)'
  <2>1. r # x
    BY <1>2 DEF Submit, Over, RunTerminal
  <2> QED BY <1>0, <1>2, <2>1 DEF Submit, Over
<1>3. ASSUME NEW s \in Schedulers, HandleEntry(s) PROVE Over(x)'
  <2>1. CASE AbortRecovered(s) \/ Start(s) \/ FailStart(s)
    BY <2>1, TransitionStatus
       DEF AbortRecovered, Start, FailStart, Handling, SchedPcs, MetaStatus, RunStatus
  <2>2. CASE Finish(s)
    <3>1. sched[s].run \in Runs /\ sched[s].child \in 1..Len(procs[sched[s].run])
      BY <2>2 DEF Finish, Handling, SchedPcs, Holds, TypeInv
    <3>2. Child(s) \in Process
      BY <3>1, ElementOfSeq DEF Child, TypeInv, TypeOK
    <3>3. Child(s).verdict \in MetaStatus
      BY <3>2 DEF Process, MetaStatus, RunStatus
    <3> QED BY <2>2, <3>3, TransitionStatus DEF Finish, Handling, SchedPcs
  <2>3. CASE ~(AbortRecovered(s) \/ Start(s) \/ FailStart(s) \/ Finish(s))
    BY <1>1, <1>3, <2>3 DEF HandleEntry, ReadStatus, CheckHeartbeat, Popen, PopenFails,
                            Wait, ReadFinal, Ack
  <2> QED BY <2>1, <2>2, <2>3
<1>4. ASSUME NEW r \in Runs, NEW k \in DOMAIN procs[r],
             ProcStep(r, k) \/ Die(r, k) \/ Disconnect(r, k) \/ Reconnect(r, k)
      PROVE  Over(x)'
  <2> DEFINE p == procs[r][k]
  <2>1. p \in Process /\ meta[r] \in Meta
    BY <1>0, ProcType
  <2>2. /\ p.local \in [status : RunStatus, rev : Nat] /\ p.local.rev \in Nat
        /\ p.verdict \in RunTerminal
    BY <2>1 DEF Process, RunTerminal
  <2> HIDE DEF p
  <2>3. CASE Boot(r, k)
    <3>1. CASE UNCHANGED meta
      BY <1>1, <3>1
    <3>2. CASE ~UNCHANGED meta
      <4>1. meta' = [meta EXCEPT ![r] = [meta[r] EXCEPT !.initialized = TRUE, !.rev = 0,
                        !.status = IF @ = "queued" THEN "starting" ELSE @]]
        BY <1>0, <2>3, <3>2 DEF Boot
      <4>2. [meta[r] EXCEPT !.initialized = TRUE, !.rev = 0,
                        !.status = IF @ = "queued" THEN "starting" ELSE @].status
               = IF meta[r].status = "queued" THEN "starting" ELSE meta[r].status
        BY <2>1 DEF Meta
      <4>3. r = x => meta[r].status # "queued"
        BY <1>0 DEF RunTerminal
      <4> QED BY <1>0, <4>1, <4>2, <4>3 DEF Over
    <3> QED BY <3>1, <3>2
  <2>4. CASE EmitRunning(r, k) \/ \E v \in {"succeeded", "failed"} : EmitFinal(r, k, v)
    <3>1. CASE UNCHANGED meta
      BY <1>1, <3>1
    <3>2. CASE ~UNCHANGED meta
      <4>1. PICK status \in RunStatus :
              WriteRun(r, [status |-> status, rev |-> p.local.rev + 1], FALSE)
        BY <2>4, <3>2 DEF EmitRunning, EmitFinal, RunStatus, p
      <4>2. [status |-> status, rev |-> p.local.rev + 1] \in [status : RunStatus, rev : Nat]
        BY <2>2
      <4> QED BY <4>1, <4>2, WriteRunKeepsTerminal
    <3> QED BY <3>1, <3>2
  <2>5. CASE Finalize(r, k)
    <3>1. meta' = meta \/ meta' = [meta EXCEPT ![r] = [meta[r] EXCEPT !.status = p.verdict]]
      BY <1>0, <2>5 DEF Finalize, p
    <3>2. [meta[r] EXCEPT !.status = p.verdict].status = p.verdict
      BY <2>1 DEF Meta
    <3> QED BY <1>0, <2>2, <3>1, <3>2 DEF Over
  <2>6. CASE Exit(r, k) \/ Die(r, k) \/ Disconnect(r, k)
    BY <1>1, <2>6 DEF Exit, Die, Disconnect
  <2>7. CASE Reconnect(r, k)
    <3> DEFINE was == IF meta[r].initialized \/ meta[r].status # "queued"
                      THEN meta[r].status ELSE "starting"
               wasRev == IF meta[r].initialized THEN meta[r].rev ELSE 0
               reply == IF p.local.rev = 0 THEN "stale"
                        ELSE RunWriteReply(was, wasRev, p.local, TRUE)
               rec == [initialized |-> TRUE,
                       rev |-> IF reply = "accepted" THEN p.local.rev ELSE wasRev,
                       status |-> IF p.pc = "finalized" THEN p.verdict
                                  ELSE IF reply = "accepted" THEN p.local.status ELSE was]
    <3>1. meta' = [meta EXCEPT ![r] = rec]
      BY <2>7 DEF Reconnect, p
    <3>2. ASSUME r = x PROVE rec.status \in RunTerminal
      <4>1. was = meta[r].status /\ was \in RunTerminal
        BY <1>0, <3>2 DEF RunTerminal
      <4>2. wasRev \in Nat
        BY <2>1 DEF Meta
      <4> HIDE DEF was, wasRev
      <4>3. reply = "accepted" => p.local.status = was
        BY <2>2, <4>1, <4>2, RunWriteKeepsTerminal
      <4> HIDE DEF reply
      <4> QED BY <2>2, <4>1, <4>3
    <3> HIDE DEF rec
    <3> QED BY <1>0, <3>1, <3>2 DEF Over
  <2> QED BY <1>4, <2>3, <2>4, <2>5, <2>6, <2>7 DEF ProcStep
<1>5. CASE Next
  <2>1. ASSUME NEW s \in Schedulers, Look(s) \/ Crash(s) \/ Restart(s) PROVE Over(x)'
    BY <1>1, <2>1 DEF Look, CountPending, Claim, Read, Crash, Restart
  <2>2. ASSUME NEW r \in Runs, HeartbeatExpires(r) \/ GrowIdle(r) PROVE Over(x)'
    BY <1>1, <2>2 DEF HeartbeatExpires, GrowIdle
  <2> QED BY <1>2, <1>3, <1>4, <1>5, <2>1, <2>2 DEF Next
<1> QED BY <1>1, <1>5 DEF vars

LEMMA SettledMoves ==
    ASSUME TypeInv, [Next]_vars, NEW r \in Settled'
    PROVE  r \in Settled \/ \E s \in Schedulers : sched[s].pc = "ack" /\ sched[s].run = r
<1>0. queue \in Seq(Runs) /\ Len(queue) \in Nat /\ delivered \in 0..Len(queue)
  BY DEF TypeInv, TypeOK
<1>1. UNCHANGED <<queue, delivered, pending>> => r \in Settled
  BY DEF Settled
<1>2. ASSUME NEW x \in Runs, Submit(x) PROVE r \in Settled
  <2>1. \A i \in 1..delivered : queue'[i] = queue[i]
    BY <1>0, <1>2 DEF Submit
  <2> QED BY <1>2, <2>1 DEF Submit, Settled
<1>3. ASSUME NEW s \in Schedulers, Read(s) PROVE r \in Settled
  <2>1. CASE delivered = Len(queue)
    BY <1>1, <1>3, <2>1 DEF Read
  <2>2. CASE delivered # Len(queue)
    <3>1. /\ queue' = queue
          /\ delivered' = delivered + 1
          /\ pending' = pending \union {queue[delivered + 1]}
      BY <1>3, <2>2 DEF Read
    <3>2. PICK i \in 1..(delivered + 1) : r = queue[i] /\ r \notin pending'
      BY <3>1 DEF Settled
    <3>3. i # delivered + 1 /\ r \notin pending
      BY <3>1, <3>2
    <3>4. i \in 1..delivered
      BY <1>0, <3>2, <3>3
    <3> QED BY <3>2, <3>3, <3>4 DEF Settled
  <2> QED BY <2>1, <2>2
<1>4. ASSUME NEW s \in Schedulers, Ack(s)
      PROVE  r \in Settled \/ (sched[s].pc = "ack" /\ sched[s].run = r)
  BY <1>4 DEF Ack, Settled
<1>5. CASE Next
  <2>1. ASSUME NEW s \in Schedulers, CountPending(s) \/ Claim(s) \/ Crash(s) \/ Restart(s)
        PROVE  r \in Settled
    BY <1>1, <2>1 DEF CountPending, Claim, Crash, Restart, queueVars
  <2>2. ASSUME NEW s \in Schedulers, HandleEntry(s), ~Ack(s) PROVE r \in Settled
    BY <1>1, <2>2 DEF HandleEntry, ReadStatus, CheckHeartbeat, AbortRecovered, Start, Popen,
                      PopenFails, FailStart, Wait, ReadFinal, Finish, Transition, queueVars
  <2>3. ASSUME NEW x \in Runs, NEW k \in DOMAIN procs[x],
               ProcStep(x, k) \/ Die(x, k) \/ Disconnect(x, k) \/ Reconnect(x, k)
        PROVE  r \in Settled
    BY <1>1, <2>3 DEF ProcStep, Boot, EmitRunning, EmitFinal, Finalize, Exit, Die, Disconnect,
                      Reconnect, queueVars
  <2>4. ASSUME NEW x \in Runs, HeartbeatExpires(x) \/ GrowIdle(x) PROVE r \in Settled
    BY <1>1, <2>4 DEF HeartbeatExpires, GrowIdle, queueVars
  <2> QED BY <1>2, <1>3, <1>4, <1>5, <2>1, <2>2, <2>3, <2>4 DEF Next, Look
<1> QED BY <1>1, <1>5 DEF vars, queueVars

\* The scheduler that comes to its acknowledgement has seen, or has just
\* written, a terminal status.
LEMMA AckReached ==
    ASSUME TypeInv, [Next]_vars, NEW s \in Schedulers,
           sched[s].pc # "ack", sched'[s].pc = "ack"
    PROVE  meta'[sched'[s].run].status \in RunTerminal
<1>0. sched \in [Schedulers -> Worker] /\ sched[s] \in Worker
  BY DEF TypeInv, TypeOK
<1>1. ~UNCHANGED sched
  OBVIOUS
<1>2. \A t \in Schedulers : \A w : sched' = [sched EXCEPT ![t] = w] => t = s /\ w.pc = "ack"
  BY <1>0
<1>3. \A t \in Schedulers : \A pc : Goto(t, pc) => /\ t = s /\ pc = "ack"
                                                      /\ sched'[s].run = sched[s].run
  <2> SUFFICES ASSUME NEW t \in Schedulers, NEW pc, Goto(t, pc)
               PROVE  t = s /\ pc = "ack" /\ sched'[s].run = sched[s].run
    OBVIOUS
  <2>1. sched' = [sched EXCEPT ![t] = [sched[t] EXCEPT !.pc = pc]]
    BY <1>0 DEF Goto
  <2>2. t = s
    BY <1>0, <2>1
  <2>3. [sched[s] EXCEPT !.pc = pc].pc = pc /\ [sched[s] EXCEPT !.pc = pc].run = sched[s].run
    BY <1>0 DEF Worker
  <2> QED BY <1>0, <2>1, <2>2, <2>3
<1>4. \A t \in Schedulers, pc \in {"poll", "down"} : sched' # [sched EXCEPT ![t] = Idler(pc)]
  BY <1>2 DEF Idler
<1>5. ASSUME NEW t \in Schedulers, ReadStatus(t)
      PROVE  meta'[sched'[s].run].status \in RunTerminal
  <2> DEFINE seen == meta[sched[t].run].status
             w == [sched[t] EXCEPT !.seen = seen,
                                   !.pc = IF seen \in RunTerminal THEN "ack" ELSE "beat"]
  <2>1. sched' = [sched EXCEPT ![t] = w] /\ UNCHANGED meta
    BY <1>0, <1>5 DEF ReadStatus
  <2>2. t = s /\ w.pc = "ack"
    BY <1>2, <2>1
  <2>3. seen \in RunTerminal /\ w.run = sched[s].run
    BY <1>0, <2>2 DEF Worker
  <2>4. sched'[s].run = sched[s].run
    BY <1>0, <2>1, <2>2, <2>3
  <2> QED BY <2>1, <2>2, <2>3, <2>4
<1>6. ASSUME NEW t \in Schedulers, NEW new \in RunTerminal, NEW next \in {"ack", "popen"},
             sched[t].pc \in Handling, Transition(t, new, next)
      PROVE  meta'[sched'[s].run].status \in RunTerminal
  <2>1. new \in MetaStatus
    BY DEF RunTerminal, MetaStatus, RunStatus
  <2>2. Goto(t, next) /\ meta'[sched[t].run].status \in RunTerminal \union {new}
    BY <1>4, <1>6, <2>1, TransitionStatus
  <2> QED BY <1>3, <2>2
<1>7. ASSUME NEW t \in Schedulers, HandleEntry(t), ~ReadStatus(t)
      PROVE  meta'[sched'[s].run].status \in RunTerminal
  <2>1. CASE CheckHeartbeat(t)
    BY <1>3, <1>4, <2>1 DEF CheckHeartbeat
  <2>2. CASE AbortRecovered(t)
    BY <1>6, <2>2 DEF AbortRecovered, Handling, SchedPcs, RunTerminal
  <2>3. CASE Start(t)
    <3>1. \/ sched' = [sched EXCEPT ![t] = Idler("down")]
          \/ Goto(t, "popen")
      BY <2>3, TransitionStatus DEF Start, Handling, SchedPcs, MetaStatus, RunStatus
    <3> QED BY <1>3, <1>4, <3>1
  <2>4. CASE Popen(t)
    <3>1. \E n : sched' = [sched EXCEPT ![t] = [sched[t] EXCEPT !.pc = "wait", !.child = n]]
      BY <1>0, <2>4 DEF Popen
    <3>2. \A n : [sched[t] EXCEPT !.pc = "wait", !.child = n].pc = "wait"
      BY <1>0 DEF Worker
    <3> QED BY <1>2, <3>1, <3>2
  <2>5. CASE PopenFails(t) \/ Wait(t)
    BY <1>3, <2>5 DEF PopenFails, Wait
  <2>6. CASE FailStart(t)
    BY <1>6, <2>6 DEF FailStart, Handling, SchedPcs, RunTerminal
  <2>7. CASE ReadFinal(t)
    <3>1. /\ Goto(t, IF meta[sched[t].run].status \in RunTerminal THEN "ack" ELSE "finish")
          /\ UNCHANGED meta
      BY <2>7 DEF ReadFinal
    <3> QED BY <1>3, <3>1
  <2>8. CASE Finish(t)
    <3>1. sched[t].run \in Runs /\ sched[t].child \in 1..Len(procs[sched[t].run])
      BY <2>8 DEF Finish, Handling, SchedPcs, Holds, TypeInv
    <3>2. Child(t) \in Process
      BY <3>1, ElementOfSeq DEF Child, TypeInv, TypeOK
    <3>3. Child(t).verdict \in RunTerminal
      BY <3>2 DEF Process, RunTerminal
    <3> QED BY <1>6, <2>8, <3>3 DEF Finish, Handling, SchedPcs
  <2>9. CASE Ack(t)
    BY <1>4, <2>9 DEF Ack
  <2> QED BY <1>7, <2>1, <2>2, <2>3, <2>4, <2>5, <2>6, <2>7, <2>8, <2>9 DEF HandleEntry
<1>8. ASSUME NEW t \in Schedulers, Look(t) PROVE FALSE
  <2>1. CASE \E r, b : Take(t, r, b)
    BY <1>2, <2>1 DEF Take
  <2>2. CASE \E pc \in {"claim", "read", "poll"} : Goto(t, pc)
    BY <1>3, <2>2
  <2> QED BY <1>8, <2>1, <2>2 DEF Look, CountPending, Claim, Read
<1>9. ASSUME NEW t \in Schedulers, Crash(t) \/ Restart(t) PROVE FALSE
  BY <1>4, <1>9 DEF Crash, Restart
<1>10. ASSUME NEW r \in Runs, Submit(r) \/ HeartbeatExpires(r) \/ GrowIdle(r) PROVE FALSE
  BY <1>1, <1>10 DEF Submit, HeartbeatExpires, GrowIdle
<1>11. ASSUME NEW r \in Runs, NEW k \in DOMAIN procs[r],
              ProcStep(r, k) \/ Die(r, k) \/ Disconnect(r, k) \/ Reconnect(r, k)
       PROVE  FALSE
  BY <1>1, <1>11 DEF ProcStep, Boot, EmitRunning, EmitFinal, Finalize, Exit, Die, Disconnect,
                     Reconnect
<1> QED BY <1>1, <1>5, <1>7, <1>8, <1>9, <1>10, <1>11 DEF Next, vars

\* A scheduler in mid-handling stays with its entry.
LEMMA AckStays ==
    ASSUME TypeInv, [Next]_vars, NEW s \in Schedulers,
           sched[s].pc = "ack", sched'[s].pc = "ack"
    PROVE  sched'[s].run = sched[s].run
<1>0. sched \in [Schedulers -> Worker] /\ sched[s] \in Worker
  BY DEF TypeInv, TypeOK
<1>1. CASE UNCHANGED sched
  BY <1>1
<1>2. ASSUME NEW t \in Schedulers, Look(t) \/ HandleEntry(t) \/ Crash(t) \/ Restart(t)
      PROVE  sched'[s] = sched[s] \/ t = s
  BY <1>0, <1>2 DEF Look, HandleEntry, Crash, Restart, CountPending, Claim, Read, ReadStatus,
     CheckHeartbeat, AbortRecovered, Start, Popen, PopenFails, FailStart, Wait, ReadFinal,
     Finish, Ack, Transition, Goto, Take
<1>3. ~(Look(s) \/ Restart(s))
  BY DEF Look, CountPending, Claim, Read, Restart
<1>4. ~Crash(s)
  BY <1>0 DEF Crash, Idler
<1>5. ~HandleEntry(s)
  BY <1>0 DEF HandleEntry, ReadStatus, CheckHeartbeat, AbortRecovered, Start, Popen,
     PopenFails, FailStart, Wait, ReadFinal, Finish, Ack, Idler
<1>6. ASSUME NEW r \in Runs, Submit(r) \/ HeartbeatExpires(r) \/ GrowIdle(r)
      PROVE  UNCHANGED sched
  BY <1>6 DEF Submit, HeartbeatExpires, GrowIdle
<1>7. ASSUME NEW r \in Runs, NEW k \in DOMAIN procs[r],
             ProcStep(r, k) \/ Die(r, k) \/ Disconnect(r, k) \/ Reconnect(r, k)
      PROVE  UNCHANGED sched
  BY <1>7 DEF ProcStep, Boot, EmitRunning, EmitFinal, Finalize, Exit, Die, Disconnect, Reconnect
<1> QED BY <1>1, <1>2, <1>3, <1>4, <1>5, <1>6, <1>7 DEF Next, vars

LEMMA AckInductive ==
    ASSUME TypeInv, AckInv, [Next]_vars
    PROVE  AckInv'
<1>1. ASSUME NEW s \in Schedulers, sched'[s].pc = "ack" PROVE Over(sched[s].run)'
  <2>1. CASE sched[s].pc = "ack"
    <3>1. sched[s].run \in Runs /\ Over(sched[s].run)
      BY <2>1 DEF AckInv, TypeInv, Holds, Handling, SchedPcs
    <3>2. meta'[sched[s].run].status \in RunTerminal
      BY <3>1, TerminalStays DEF Over
    <3> QED BY <1>1, <2>1, <3>2, AckStays DEF Over
  <2>2. CASE sched[s].pc # "ack"
    BY <1>1, <2>2, AckReached DEF Over
  <2> QED BY <2>1, <2>2
<1>2. ASSUME NEW r \in Settled' PROVE meta'[r].status \in RunTerminal
  <2>1. r \in Runs
    <3>1. TypeInv'
      BY TypesInductive
    <3>2. PICK i \in 1..delivered' : r = queue'[i]
      BY DEF Settled
    <3>3. queue' \in Seq(Runs) /\ i \in 1..Len(queue')
      BY <3>1, <3>2 DEF TypeInv, TypeOK
    <3> QED BY <3>2, <3>3, ElementOfSeq
  <2>2. Over(r)
    BY SettledMoves DEF AckInv, AckedIsFinal, Over
  <2> QED BY <2>1, <2>2, TerminalStays DEF Over
<1> QED BY <1>1, <1>2 DEF AckInv, AckedIsFinal

\* AckedIsFinal: whatever crashes, stalls or outages happen, an entry leaves
\* the queue only when its run has a terminal status, and keeps one.
THEOREM SchedulerAcksOnlyFinalRuns == Spec => []AckedIsFinal
<1>1. Init => AckInv
  BY DEF Init, AckInv, AckedIsFinal, Settled, Idler
<1>2. Spec => []TypeInv
  BY TypesInitially, TypesInductive, PTL DEF Spec
<1>3. AckInv => AckedIsFinal
  BY DEF AckInv
<1> QED BY <1>1, <1>2, <1>3, AckInductive, PTL DEF Spec
=============================================================================
