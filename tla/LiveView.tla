------------------------------ MODULE LiveView ------------------------------
(***************************************************************************)
(* The run page of the dashboard following one run through the API: a      *)
(* snapshot, then the event stream from the snapshot's cursor, with resets *)
(* and reconnection, beside a query that polls the run.  The page's store, *)
(* its two queries and its stream run in the browser; snapshot and stream  *)
(* are made of several Redis commands between which the run goes on.       *)
(***************************************************************************)
EXTENDS EventStream

CONSTANTS MaxMishaps, \* bound: failed queries, lost connections, clicks on refresh
          Overtaken   \* may entries be trimmed that an open stream has not read?

ASSUME ViewAssumption == MaxMishaps \in Nat /\ Overtaken \in BOOLEAN

VARIABLES view,     \* what the page shows
          snapshot, \* data of the snapshot query
          fetch,    \* the snapshot query under way
          failed,   \* the snapshot query gave up: the page shows its error
          runData,  \* data of the run query
          poll,     \* answer of a run query on its way
          refresh,  \* a run query is due (500 ms after an event, or at the start)
          stream,   \* the ProcessEventStream: its state, cursor, the server's cursor
          wire,     \* events sent to the page and not yet handled
          mishaps

pageVars  == <<view, snapshot, fetch, failed, runData, poll, refresh>>
viewVars  == <<pageVars, stream, wire, mishaps>>
vars == <<streamVars, viewVars>>

\* A run view: its heartbeat, counters and times are left out, so two equal views
\* may differ for the page, or not.
RunView == {"none", "live", "over"}

NoSnapshot == [cursor |-> 0, run |-> "none", graph |-> FALSE, tasks |-> [t \in Tasks |-> -1]]

\* Mutant: the cursor is read last.
SnapshotReads_CursorLast == <<"run", "graph", "tasks", "cursor">>

\* get_snapshot reads the cursor before what the cursor stands for.
SnapshotReads == <<"cursor", "run", "graph", "tasks">>

Arrived == 5
NoFetch == [next |-> 0, snap |-> NoSnapshot, retry |-> FALSE]
NewFetch(retry) == [next |-> 1, snap |-> NoSnapshot, retry |-> retry]

Stream(state, cursor) == [state |-> state, cursor |-> cursor, at |-> cursor]
NoStream == Stream("none", 0)
Closed   == Stream("closed", 0)

TypeOK ==
    /\ StreamTypeOK
    /\ LET Snapshot == [cursor : 0..Len(events), run : RunView, graph : BOOLEAN,
                        tasks : [Tasks -> Revision]]
       IN  /\ view \in [run : RunView, graph : BOOLEAN, tasks : [Tasks -> Revision],
                       polled : BOOLEAN]
           /\ snapshot \in Snapshot
           /\ fetch \in [next : 0..Arrived, snap : Snapshot, retry : BOOLEAN]
           /\ runData \in RunView
           /\ poll \in RunView
    /\ failed \in BOOLEAN
    /\ refresh \in BOOLEAN
    /\ stream \in [state : {"none", "connecting", "open", "reset", "closed"},
                   cursor : 0..Len(events), at : 0..Len(events)]
    /\ wire \subseteq 1..Len(events)
    /\ mishaps \in 0..MaxMishaps

\* The page is opened: both queries start.
Init ==
    /\ StreamInit
    /\ view = [run |-> "none", graph |-> FALSE, tasks |-> [t \in Tasks |-> -1], polled |-> FALSE]
    /\ snapshot = NoSnapshot
    /\ fetch = NewFetch(FALSE)
    /\ failed = FALSE
    /\ runData = "none"
    /\ poll = "none"
    /\ refresh = TRUE
    /\ stream = NoStream
    /\ wire = {}
    /\ mishaps = 0

\* The writers of the run; without Overtaken a connected client is never so far
\* behind that entries are trimmed before the server has read them for it.
RunGoesOn ==
    /\ Write
    /\ Overtaken \/ stream.state # "open" \/ first' <= stream.at + 1
    /\ UNCHANGED viewVars

-----------------------------------------------------------------------------
(* The snapshot query.                                                      *)

\* Mutant: joins the query under way.
Refetch_Joins == fetch' = IF fetch = NoFetch THEN NewFetch(FALSE) ELSE fetch

\* refetch() cancels a query under way and starts over.
Refetch == fetch' = NewFetch(FALSE)

WithRead(what, snap) ==
    CASE what = "cursor" -> [snap EXCEPT !.cursor = LastEventId]
      [] what = "run"    -> [snap EXCEPT !.run = RunNow]
      [] what = "graph"  -> [snap EXCEPT !.graph = planned]
      [] what = "tasks"  -> [snap EXCEPT !.tasks = data]

SnapshotRead ==
    /\ fetch.next \in 1..4
    /\ fetch' = [fetch EXCEPT !.next = @ + 1, !.snap = WithRead(SnapshotReads[fetch.next], @)]
    /\ UNCHANGED <<streamVars, view, snapshot, failed, runData, poll, refresh,
                   stream, wire, mishaps>>

\* replaceSnapshot, and the effects it triggers: the old stream is replaced by
\* one that starts at the new cursor; a terminal run closes it at once, unless
\* the store holds that same run object already.
ShowSnapshot(snap) ==
    /\ snapshot' = snap
    /\ view' = [run |-> snap.run, graph |-> snap.graph, tasks |-> snap.tasks, polled |-> FALSE]
    /\ \/ snap.run = "over" /\ stream' = Closed
       \/ /\ snap.run = "over" => view.run = "over" /\ ~view.polled
          /\ stream' = Stream("connecting", snap.cursor)
    /\ wire' = {}

\* A snapshot equal to the last one is no change for the page.
SnapshotArrives ==
    /\ fetch.next = Arrived
    /\ fetch' = NoFetch
    /\ failed' = FALSE
    /\ \/ ShowSnapshot(fetch.snap)
       \/ fetch.snap = snapshot /\ UNCHANGED <<view, snapshot, stream, wire>>
    /\ UNCHANGED <<streamVars, runData, poll, refresh, mishaps>>

\* One retry, then the page shows the error and waits for the next refetch.
SnapshotFails ==
    /\ fetch # NoFetch
    /\ mishaps < MaxMishaps
    /\ mishaps' = mishaps + 1
    /\ IF fetch.retry THEN fetch' = NoFetch /\ failed' = TRUE
       ELSE fetch' = NewFetch(TRUE) /\ UNCHANGED failed
    /\ UNCHANGED <<streamVars, view, snapshot, runData, poll, refresh, stream, wire>>

\* The button of the page.
ClickRefresh ==
    /\ snapshot # NoSnapshot /\ ~failed
    /\ mishaps < MaxMishaps
    /\ mishaps' = mishaps + 1
    /\ Refetch
    /\ UNCHANGED <<streamVars, view, snapshot, failed, runData, poll, refresh, stream, wire>>

-----------------------------------------------------------------------------
(* The query of the run.                                                    *)

\* Every 5 s while the run shown is live, and when an event made it due.
PollRead ==
    /\ \/ refresh /\ refresh' = FALSE
       \/ view.run = "live" /\ poll = "none" /\ UNCHANGED refresh
    /\ poll' = IF poll # "none" /\ runData = "none" THEN poll ELSE RunNow
    /\ UNCHANGED <<streamVars, view, snapshot, fetch, failed, runData, stream, wire, mishaps>>

\* updateRun, if the answer differs from the last one; a terminal run closes
\* the stream for good.
PollArrives ==
    /\ poll # "none"
    /\ poll' = "none"
    /\ runData' = poll
    /\ \/ /\ view' = [view EXCEPT !.run = poll, !.polled = TRUE]
          /\ IF poll = "over" /\ stream # NoStream THEN stream' = Closed /\ wire' = {}
             ELSE UNCHANGED <<stream, wire>>
       \/ poll = runData /\ UNCHANGED <<view, stream, wire>>
    /\ UNCHANGED <<streamVars, snapshot, fetch, failed, refresh, mishaps>>

PollFails ==
    /\ poll # "none"
    /\ mishaps < MaxMishaps
    /\ mishaps' = mishaps + 1
    /\ poll' = "none"
    /\ UNCHANGED <<streamVars, view, snapshot, fetch, failed, runData, refresh, stream, wire>>

-----------------------------------------------------------------------------
(* The event stream.                                                        *)

Expired(after) == after # 0 /\ after < first

\* The server checks the cursor once, when the client connects, and sends a
\* reset if it has expired.  The page then closes the stream and reloads the
\* snapshot, whose arrival opens another one.
Connect ==
    /\ stream.state = "connecting"
    /\ IF Expired(stream.cursor) THEN stream' = Stream("reset", 0) /\ Refetch
       ELSE stream' = Stream("open", stream.cursor) /\ UNCHANGED fetch
    /\ UNCHANGED <<streamVars, view, snapshot, failed, runData, poll, refresh, wire, mishaps>>

\* XREAD and the send of one event; a batch is several of them.
ServerSends ==
    /\ stream.state = "open"
    /\ LET after == IF stream.at + 1 < first THEN first ELSE stream.at + 1
       IN  /\ after <= Len(events)
           /\ stream' = [stream EXCEPT !.at = after]
           /\ wire' = wire \union {after}
    /\ UNCHANGED <<streamVars, pageVars, mishaps>>

\* Mutant: the event that announces the graph is an event like any other.
NeedsSnapshot_UnknownOnly(event) == event.type = "task" /\ view.tasks[event.task] = -1

\* An event of a task the page does not know, or the one that announces them.
NeedsSnapshot(event) ==
    \/ event.type = "initialized"
    \/ event.type = "task" /\ view.tasks[event.task] = -1

\* The task's data is merged into the view if it is newer than what is shown.
Merged(event) ==
    IF /\ event.type = "task"
       /\ view.tasks[event.task] # -1
       /\ event.rev > view.tasks[event.task]
    THEN [view EXCEPT !.tasks[event.task] = event.rev]
    ELSE view

\* applyEvent and onEvent.  The store's own copy of the cursor is left out: it is
\* read only when a snapshot has just set it.
Deliver ==
    /\ \E id \in wire :
        /\ \A other \in wire : id <= other
        /\ wire' = wire \ {id}
        /\ stream' = [stream EXCEPT !.cursor = id]
        /\ view' = Merged(events[id])
        /\ IF NeedsSnapshot(events[id]) THEN Refetch ELSE UNCHANGED fetch
    /\ refresh' = TRUE
    /\ UNCHANGED <<streamVars, snapshot, failed, runData, poll, mishaps>>

\* The server stops, Redis is away or the connection breaks: events on the wire
\* are lost, and the client connects again, from its cursor, after a delay.
Drop ==
    /\ stream.state = "open"
    /\ mishaps < MaxMishaps
    /\ mishaps' = mishaps + 1
    /\ stream' = Stream("connecting", stream.cursor)
    /\ wire' = {}
    /\ UNCHANGED <<streamVars, pageVars>>

-----------------------------------------------------------------------------
Next ==
    \/ RunGoesOn
    \/ SnapshotRead \/ SnapshotArrives \/ SnapshotFails \/ ClickRefresh
    \/ PollRead \/ PollArrives \/ PollFails
    \/ Connect \/ ServerSends \/ Deliver \/ Drop

Spec == Init /\ [][Next]_vars

\* Requests are answered and timers fire; nothing is assumed of the run.
FairSpec ==
    /\ Spec
    /\ WF_vars(SnapshotRead) /\ WF_vars(SnapshotArrives)
    /\ WF_vars(PollRead) /\ WF_vars(PollArrives)
    /\ WF_vars(Connect) /\ WF_vars(ServerSends) /\ WF_vars(Deliver)

-----------------------------------------------------------------------------
(* Properties.                                                              *)

\* The page is never behind its own cursor: whatever an event up to the cursor
\* of its stream reported is shown, unless a snapshot is on its way to show it
\* or the page shows that the snapshot failed.  A reconnection from that cursor
\* therefore misses nothing.
NoGap ==
    stream.state \in {"connecting", "open"} /\ fetch = NoFetch /\ ~failed =>
        \A id \in 1..stream.cursor :
            /\ events[id].type = "initialized" => view.graph
            /\ events[id].type = "task" => view.tasks[events[id].task] >= events[id].rev

\* A stream closed by a reset is never forgotten: a snapshot that will open a new
\* one is under way, or the page shows an error.  It takes a snapshot that
\* differs from the last one, or the page does not even look at it.
ResetReloads ==
    stream.state = "reset" =>
        \/ failed
        \/ fetch # NoFetch /\ (fetch.next = Arrived => fetch.snap # snapshot)

\* Once the run is quiet the page shows every task as it is in Redis, unless it
\* closed the stream because the run is over, or shows an error.
CatchesUp == <>[](view.tasks = data \/ stream.state = "closed" \/ failed)

\* The page that waits for the execution plan shows it in the end.
PlanAppears == (snapshot # NoSnapshot /\ planned) ~> (view.graph \/ failed)
=============================================================================
