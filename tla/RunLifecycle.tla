---------------------------- MODULE RunLifecycle ----------------------------
(***************************************************************************)
(* What queueing a run promises, whoever writes its status: a submitted    *)
(* run passes through its statuses in order, ends with a terminal one, and *)
(* leaves the queue only then.  A terminal status is final, with one       *)
(* exception: a run that recovery has given up as 'aborted' may still be   *)
(* concluded by the Analyzer, which was alive after all.                   *)
(***************************************************************************)
EXTENDS RunStatuses

CONSTANT Runs

VARIABLES status,   \* status of each run, "absent" before it is submitted
          settled   \* runs whose queue entry has been acknowledged

lifecycleVars == <<status, settled>>

Init == status = [r \in Runs |-> "absent"] /\ settled = {}

Set(r, new) == status' = [status EXCEPT ![r] = new] /\ UNCHANGED settled

Submit(r) == status[r] = "absent" /\ Set(r, "queued")

Start(r) == status[r] = "queued" /\ Set(r, "starting")

Proceed(r) == status[r] = "starting" /\ Set(r, "running")

Conclude(r) == /\ status[r] \in {"starting", "running"}
               /\ \E v \in RunTerminal : Set(r, v)

Correct(r) == status[r] = "aborted" /\ \E v \in {"succeeded", "failed"} : Set(r, v)

Settle(r) == /\ status[r] \in RunTerminal
             /\ settled' = settled \union {r}
             /\ UNCHANGED status

Next == \E r \in Runs :
    Submit(r) \/ Start(r) \/ Proceed(r) \/ Conclude(r) \/ Correct(r) \/ Settle(r)

Safe == Init /\ [][Next]_lifecycleVars

\* Every run that was submitted is eventually settled.
Promise == \A r \in Runs : status[r] = "queued" ~> r \in settled

Spec == Safe /\ Promise
=============================================================================
