---------------------------- MODULE RunStatuses ----------------------------
(***************************************************************************)
(* The status vocabulary of runs and tasks and the transition tables that  *)
(* guard every write to Redis.  The tables appear three times in the code: *)
(* in process_reporter.py (used by the Analyzer before it emits), inside   *)
(* the reporter's Lua scripts, and inside the scheduler's Lua script.      *)
(***************************************************************************)
EXTENDS Integers

\* "absent" stands for a run whose meta hash has no status field yet.
RunStatus == {"queued", "starting", "running", "succeeded", "failed", "aborted", "stale"}
MetaStatus == RunStatus \union {"absent"}
RunTerminal == {"succeeded", "failed", "aborted"}

TaskStatus == {"pending", "running", "succeeded", "failed", "skipped", "aborted"}
TaskTerminal == {"succeeded", "failed", "skipped", "aborted"}

TaskMoves == [s \in TaskStatus |->
    CASE s = "pending" -> {"running", "skipped", "aborted"}
      [] s = "running" -> TaskTerminal
      [] OTHER -> {}]

RunMoves == [s \in MetaStatus |->
    CASE s = "queued"   -> {"starting", "failed", "aborted"}
      [] s = "starting" -> {"running", "failed", "aborted", "stale"}
      [] s = "running"  -> RunTerminal \union {"stale"}
      [] s = "stale"    -> {"running", "failed", "aborted"}
      [] OTHER -> {}]

SchedulerMoves == [s \in MetaStatus |->
    CASE s = "queued" -> {"starting", "failed", "aborted"}
      [] s \in {"starting", "running", "stale"} -> RunTerminal
      [] OTHER -> {}]

\* A write that repeats the current status is accepted; a snapshot, written
\* when the reporter reconnects, may also skip intermediate statuses, but
\* neither may leave a terminal status.
TaskAllowed(old, new, snapshot) ==
    old = new \/ new \in TaskMoves[old] \/ (snapshot /\ old \notin TaskTerminal)

\* Mutant: a snapshot may leave a terminal status.
RunAllowed_SnapshotWins(old, new, snapshot) ==
    LET was == IF old = "absent" THEN "starting" ELSE old
    IN  was = new \/ new \in RunMoves[was] \/ snapshot

\* RUN_TRANSITION_LUA reads an absent status as 'starting'.
RunAllowed(old, new, snapshot) ==
    LET was == IF old = "absent" THEN "starting" ELSE old
    IN  was = new \/ new \in RunMoves[was] \/ (snapshot /\ was \notin RunTerminal)

\* The reply of RUN_TRANSITION_LUA to a snapshot data = [status, rev].
RunWriteReply(old, oldRev, data, snapshot) ==
    CASE data.rev <= oldRev -> "stale"
      [] ~RunAllowed(old, data.status, snapshot) -> "invalid"
      [] OTHER -> "accepted"

\* Mutant: the scheduler overwrites a terminal status.
SchedulerReply_Overwrites(old, new) ==
    CASE old = "absent" -> "missing"
      [] old \notin RunTerminal /\ old # new /\ new \notin SchedulerMoves[old] -> "invalid"
      [] OTHER -> "accepted"

\* The reply of the scheduler's script: "missing" and "invalid" raise in the
\* scheduler, "terminal" leaves the run as it is.
SchedulerReply(old, new) ==
    CASE old = "absent" -> "missing"
      [] old \in RunTerminal -> "terminal"
      [] old # new /\ new \notin SchedulerMoves[old] -> "invalid"
      [] OTHER -> "accepted"
=============================================================================
