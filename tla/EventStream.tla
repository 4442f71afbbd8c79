---------------------------- MODULE EventStream ----------------------------
(***************************************************************************)
(* The event stream of one run, beside the part of the run's keys that its *)
(* readers see.  Every script but FINALIZE appends one event.  An event is *)
(* named by its place in the whole history; Redis keeps a suffix of it.    *)
(* Of a task only the revision of its data matters, of the run only        *)
(* whether its status is terminal, which no script ever takes back.        *)
(***************************************************************************)
EXTENDS Integers, Sequences

CONSTANTS Tasks,
          MaxLen,      \* entries that trimming keeps at least
          MaxRevision, \* bound: the last revision of a task
          MaxEvents    \* bound: events of the run

ASSUME StreamAssumption ==
    MaxLen \in Nat \ {0} /\ MaxRevision \in Nat /\ MaxEvents \in Nat \ {0}

VARIABLES events,  \* all events ever added, the trimmed ones included
          first,   \* the oldest event still in the stream
          planned, \* the execution graph was stored
          data,    \* revision in task_data, -1 before INITIALIZE
          over     \* the run's status is terminal

streamVars == <<events, first, planned, data, over>>

Event == [type : {"run", "initialized"}] \union [type : {"task"}, task : Tasks, rev : Nat]
Revision == Nat \union {-1}

StreamTypeOK ==
    /\ events \in Seq(Event) /\ Len(events) <= MaxEvents
    /\ first \in 1..Len(events)
    /\ planned \in BOOLEAN
    /\ data \in [Tasks -> Revision]
    /\ over \in BOOLEAN

\* Mutant: the id that the next event will get.
LastEventId_Next == Len(events) + 1

\* The fields last_event_id and status of the meta hash, as readers get them.
LastEventId == Len(events)
RunNow == IF over THEN "over" ELSE "live"

\* SUBMIT_RUN_LUA.
StreamInit ==
    /\ events = <<[type |-> "run"]>>
    /\ first = 1
    /\ planned = FALSE
    /\ data = [t \in Tasks |-> -1]
    /\ over = FALSE

\* MAXLEN ~: Redis removes old entries when it likes, but keeps MaxLen.
Publish(event) ==
    /\ Len(events) < MaxEvents
    /\ events' = Append(events, event)
    /\ first' \in {from \in first..Len(events') : from = first \/ Len(events') - from + 1 >= MaxLen}

\* INITIALIZE_RUN_LUA stores the snapshots of the moment.
InitializeRun ==
    /\ ~planned
    /\ planned' = TRUE
    /\ data' \in [Tasks -> 0..MaxRevision]
    /\ Publish([type |-> "initialized"])
    /\ UNCHANGED over

\* TASK_TRANSITION_LUA; a reporter that was offline skips revisions.
TaskTransition(t) ==
    /\ planned
    /\ \E rev \in 0..MaxRevision :
        /\ rev > data[t]
        /\ data' = [data EXCEPT ![t] = rev]
        /\ Publish([type |-> "task", task |-> t, rev |-> rev])
    /\ UNCHANGED <<planned, over>>

\* RUN_TRANSITION_LUA and the scheduler's script.
RunTransition ==
    /\ over' \in {over, TRUE}
    /\ Publish([type |-> "run"])
    /\ UNCHANGED <<planned, data>>

\* FINALIZE_RUN_LUA adds no event.
FinalizeRun ==
    /\ planned /\ ~over
    /\ over' = TRUE
    /\ UNCHANGED <<events, first, planned, data>>

Write == InitializeRun \/ (\E t \in Tasks : TaskTransition(t)) \/ RunTransition \/ FinalizeRun
=============================================================================
