-------------------------- MODULE LiveView_proofs --------------------------
(***************************************************************************)
(* Theorems about LiveView, for all tasks and bounds: types, a reset is    *)
(* never forgotten, and the page misses nothing as long as an open stream  *)
(* is not overtaken by trimming.                                           *)
(***************************************************************************)
EXTENDS LiveView, TLAPS

Following == stream.state \in {"connecting", "open"}

\* What the events up to a cursor reported.
CoversPlan(graph, cursor) ==
    \A id \in 1..cursor : events[id].type = "initialized" => graph
CoversTasks(tasks, cursor) ==
    \A id \in 1..cursor : events[id].type = "task" => tasks[events[id].task] >= events[id].rev

\* The keys hold what the events reported.
DataInv ==
    /\ CoversPlan(planned, Len(events)) /\ CoversTasks(data, Len(events))
    /\ ~planned => \A t \in Tasks : data[t] = -1

\* What a snapshot query has read so far stands for its cursor.
FetchInv ==
    /\ fetch.next >= 2 => fetch.snap.cursor >= 1
    /\ fetch.next >= 4 => CoversPlan(fetch.snap.graph, fetch.snap.cursor)
    /\ fetch.next = Arrived => CoversTasks(fetch.snap.tasks, fetch.snap.cursor)

\* The stream starts at the snapshot's cursor and moves on.
CursorInv ==
    /\ Following => 1 <= stream.cursor /\ snapshot.cursor <= stream.cursor
    /\ stream.state = "open" =>
           /\ stream.cursor <= stream.at
           /\ \A id \in wire : stream.cursor < id /\ id <= stream.at
    /\ stream.state # "open" => wire = {}

\* The page is about to load a snapshot that differs from the last one.
Reloading ==
    /\ snapshot.cursor < Len(events)
    /\ fetch.next >= 2 => snapshot.cursor < fetch.snap.cursor
    /\ failed \/ fetch.next # 0

PageInv ==
    /\ TypeOK
    /\ DataInv
    /\ FetchInv
    /\ CursorInv
    /\ stream.state = "reset" => Reloading

\* Nothing is lost between the page and the server's cursor.
GapInv ==
    /\ stream.state = "open" =>
           /\ first <= stream.at + 1
           /\ wire = (stream.cursor + 1)..stream.at
    /\ Following =>
           \/ Reloading
           \/ CoversPlan(view.graph, stream.cursor) /\ CoversTasks(view.tasks, stream.cursor)


-----------------------------------------------------------------------------
(* Types.                                                                   *)

SnapshotTypes(n) == [cursor : 0..n, run : RunView, graph : BOOLEAN, tasks : [Tasks -> Revision]]
FetchTypes(n) == [next : 0..Arrived, snap : SnapshotTypes(n), retry : BOOLEAN]
StreamTypes(n) ==
    [state : {"none", "connecting", "open", "reset", "closed"}, cursor : 0..n, at : 0..n]

\* A query that starts is well-typed.
LEMMA FetchesTyped ==
    ASSUME NEW n \in Nat, NEW retry \in BOOLEAN
    PROVE  NoSnapshot \in SnapshotTypes(n) /\ NoFetch \in FetchTypes(n) /\ NewFetch(retry) \in FetchTypes(n)
<1>1. NoSnapshot \in SnapshotTypes(n)
  BY DEF NoSnapshot, SnapshotTypes, RunView, Revision
<1>2. QED
  BY <1>1 DEF NoFetch, NewFetch, FetchTypes, Arrived

\* A stream that starts is well-typed.
LEMMA StreamsTyped ==
    ASSUME NEW n \in Nat, NEW cursor \in 0..n,
           NEW state \in {"none", "connecting", "open", "reset", "closed"}
    PROVE  Stream(state, cursor) \in StreamTypes(n)
  BY DEF Stream, StreamTypes

\* TypeOK in terms of the sets above.
LEMMA TypesUnfold ==
    TypeOK <=>
        /\ StreamTypeOK
        /\ view \in [run : RunView, graph : BOOLEAN, tasks : [Tasks -> Revision], polled : BOOLEAN]
        /\ snapshot \in SnapshotTypes(Len(events))
        /\ fetch \in FetchTypes(Len(events))
        /\ runData \in RunView
        /\ poll \in RunView
        /\ failed \in BOOLEAN
        /\ refresh \in BOOLEAN
        /\ stream \in StreamTypes(Len(events))
        /\ wire \subseteq 1..Len(events)
        /\ mishaps \in 0..MaxMishaps
  BY DEF TypeOK, SnapshotTypes, FetchTypes, StreamTypes

\* A new event leaves the others where they are.
LEMMA Published ==
    ASSUME StreamTypeOK, NEW event \in Event, Publish(event)
    PROVE  /\ events' \in Seq(Event)
           /\ Len(events') = Len(events) + 1 /\ Len(events') <= MaxEvents
           /\ first' \in 1..Len(events')
           /\ first <= first'
           /\ \A id \in 1..Len(events) : events'[id] = events[id]
           /\ events'[Len(events) + 1] = event
  BY StreamAssumption DEF StreamTypeOK, Publish

\* What any of the writers does to the stream and to the data.
LEMMA Written ==
    ASSUME StreamTypeOK, DataInv, Write
    PROVE  /\ StreamTypeOK'
           /\ Len(events) <= Len(events')
           /\ first <= first'
           /\ \A id \in 1..Len(events) : events'[id] = events[id]
           /\ DataInv'
<1>1. CASE InitializeRun
  <2> DEFINE e == [type |-> "initialized"]
  <2>1. e \in Event
    BY DEF Event
  <2>2. /\ ~planned /\ Publish(e)
        /\ planned' = TRUE /\ data' \in [Tasks -> 0..MaxRevision] /\ over' = over
    BY <1>1 DEF InitializeRun
  <2> HIDE DEF e
  <2>3. StreamTypeOK'
    BY <2>1, <2>2, Published, StreamAssumption DEF StreamTypeOK, Revision
  <2>4. \A id \in 1..Len(events) : events[id].type # "task"
    <3> SUFFICES ASSUME NEW id \in 1..Len(events), events[id].type = "task" PROVE FALSE
      OBVIOUS
    <3>1. events[id].task \in Tasks /\ events[id].rev \in Nat
      BY DEF StreamTypeOK, Event
    <3> QED
      BY <2>2, <3>1 DEF DataInv, CoversTasks
  <2>5. \A id \in 1..Len(events') : events'[id].type # "task"
    BY <2>1, <2>2, <2>4, Published DEF e, StreamTypeOK
  <2>6. DataInv'
    BY <2>2, <2>5 DEF DataInv, CoversPlan, CoversTasks
  <2> QED
    BY <2>1, <2>2, <2>3, <2>6, Published DEF StreamTypeOK
<1>2. ASSUME NEW t \in Tasks, TaskTransition(t) PROVE StreamTypeOK' /\ Len(events) <= Len(events')
           /\ first <= first' /\ (\A id \in 1..Len(events) : events'[id] = events[id]) /\ DataInv'
  <2>1. PICK rev \in 0..MaxRevision :
          /\ planned /\ rev > data[t] /\ data' = [data EXCEPT ![t] = rev]
          /\ Publish([type |-> "task", task |-> t, rev |-> rev])
          /\ planned' = planned /\ over' = over
    BY <1>2 DEF TaskTransition
  <2> DEFINE e == [type |-> "task", task |-> t, rev |-> rev]
  <2>2. e \in Event
    BY StreamAssumption DEF Event
  <2>3. Publish(e) /\ e.type = "task" /\ e.task = t /\ e.rev = rev
    BY <2>1
  <2> HIDE DEF e
  <2>4. StreamTypeOK'
    BY <2>1, <2>2, <2>3, Published, StreamAssumption DEF StreamTypeOK, Revision
  <2>5. CoversPlan(planned, Len(events))'
    BY <2>1 DEF CoversPlan
  <2>6. CoversTasks(data, Len(events))'
    <3> SUFFICES ASSUME NEW id \in 1..Len(events'), events'[id].type = "task"
                 PROVE  data'[events'[id].task] >= events'[id].rev
      BY DEF CoversTasks
    <3>1. CASE id = Len(events) + 1
      BY <2>1, <2>2, <2>3, <3>1, Published DEF StreamTypeOK
    <3>2. CASE id \in 1..Len(events)
      <4>1. events[id].task \in Tasks /\ events[id].rev \in Nat /\ events'[id] = events[id]
        BY <2>2, <2>3, <3>2, Published DEF StreamTypeOK, Event
      <4>2. data[events[id].task] >= events[id].rev
        BY <3>2, <4>1 DEF DataInv, CoversTasks
      <4> QED
        BY <2>1, <4>1, <4>2, StreamAssumption DEF StreamTypeOK, Revision
    <3> QED
      BY <2>2, <2>3, <3>1, <3>2, Published DEF StreamTypeOK
  <2>7. DataInv'
    BY <2>1, <2>5, <2>6 DEF DataInv
  <2>8. /\ Len(events) <= Len(events') /\ first <= first'
        /\ \A id \in 1..Len(events) : events'[id] = events[id]
    BY <2>2, <2>3, Published DEF StreamTypeOK
  <2> QED
    BY <2>4, <2>7, <2>8
<1>3. CASE RunTransition
  <2> DEFINE e == [type |-> "run"]
  <2>1. e \in Event /\ e.type = "run"
    BY DEF Event
  <2>2. Publish(e) /\ over' \in {over, TRUE} /\ planned' = planned /\ data' = data
    BY <1>3 DEF RunTransition
  <2> HIDE DEF e
  <2>3. StreamTypeOK'
    BY <2>1, <2>2, Published DEF StreamTypeOK
  <2>4. \A id \in 1..Len(events') : \/ id \in 1..Len(events) /\ events'[id] = events[id]
                                   \/ events'[id].type = "run"
    BY <2>1, <2>2, Published DEF StreamTypeOK
  <2>5. DataInv'
    BY <2>2, <2>4 DEF DataInv, CoversPlan, CoversTasks
  <2> QED
    BY <2>1, <2>2, <2>3, <2>5, Published DEF StreamTypeOK
<1>4. CASE FinalizeRun
  BY <1>4 DEF FinalizeRun, StreamTypeOK, DataInv, CoversPlan, CoversTasks
<1> QED
  BY <1>1, <1>2, <1>3, <1>4 DEF Write

\* The initial state.
LEMMA PageStarts == Init => PageInv /\ GapInv
<1> SUFFICES ASSUME Init PROVE PageInv /\ GapInv
  OBVIOUS
<1>1. events \in Seq(Event) /\ Len(events) = 1 /\ events[1] = [type |-> "run"]
  BY DEF Init, StreamInit, Event
<1>2. StreamTypeOK
  <2>1. data \in [Tasks -> Revision]
    BY DEF Init, StreamInit, Revision
  <2>2. first = 1 /\ planned = FALSE /\ over = FALSE
    BY DEF Init, StreamInit
  <2>3. Len(events) <= MaxEvents /\ 1 \in 1..Len(events)
    BY <1>1, StreamAssumption
  <2>4. events \in Seq(Event)
    BY <1>1
  <2> QED
    BY <2>1, <2>2, <2>3, <2>4 DEF StreamTypeOK
<1>3. /\ NoSnapshot \in SnapshotTypes(Len(events)) /\ NewFetch(FALSE) \in FetchTypes(Len(events))
      /\ NoStream \in StreamTypes(Len(events))
  <2>1. Len(events) \in Nat /\ 0 \in 0..Len(events)
    BY <1>1
  <2>2. NoSnapshot \in SnapshotTypes(Len(events)) /\ NewFetch(FALSE) \in FetchTypes(Len(events))
    BY <2>1, FetchesTyped
  <2>3. NoStream \in StreamTypes(Len(events))
    BY <2>1, StreamsTyped DEF NoStream
  <2> QED
    BY <2>2, <2>3
<1>4. TypeOK
  <2>1. view \in [run : RunView, graph : BOOLEAN, tasks : [Tasks -> Revision], polled : BOOLEAN]
    BY DEF Init, RunView, Revision
  <2>2. wire \subseteq 1..Len(events) /\ mishaps \in 0..MaxMishaps
    BY ViewAssumption DEF Init
  <2>3. runData \in RunView /\ poll \in RunView /\ failed \in BOOLEAN /\ refresh \in BOOLEAN
    BY DEF Init, RunView
  <2>4. snapshot = NoSnapshot /\ fetch = NewFetch(FALSE) /\ stream = NoStream
    BY DEF Init
  <2> QED
    BY <1>2, <1>3, <2>1, <2>2, <2>3, <2>4, TypesUnfold
<1>5. DataInv
  BY <1>1 DEF Init, StreamInit, DataInv, CoversPlan, CoversTasks
<1>6. fetch.next = 1 /\ stream.state = "none" /\ wire = {}
  BY DEF Init, NewFetch, NoStream, Stream
<1>7. QED
  BY <1>4, <1>5, <1>6 DEF PageInv, GapInv, FetchInv, CursorInv, Following, Arrived

\* The run goes on: what was read and shown still stands for its cursor.
LEMMA RunKeepsPage ==
    ASSUME PageInv, RunGoesOn
    PROVE  PageInv' /\ (Overtaken = FALSE /\ GapInv => GapInv')
<1>1. /\ StreamTypeOK' /\ DataInv'
      /\ Len(events) <= Len(events') /\ first <= first'
      /\ \A id \in 1..Len(events) : events'[id] = events[id]
  BY Written DEF RunGoesOn, PageInv, TypeOK
<1>2. Len(events) \in Nat /\ Len(events') \in Nat
  BY <1>1 DEF StreamTypeOK, PageInv, TypeOK
<1>3. UNCHANGED viewVars
  BY DEF RunGoesOn
<1>4. /\ snapshot \in SnapshotTypes(Len(events)) /\ fetch \in FetchTypes(Len(events))
      /\ stream \in StreamTypes(Len(events)) /\ wire \subseteq 1..Len(events)
  BY TypesUnfold DEF PageInv
<1>5. /\ snapshot' \in SnapshotTypes(Len(events')) /\ fetch' \in FetchTypes(Len(events'))
      /\ stream' \in StreamTypes(Len(events')) /\ wire' \subseteq 1..Len(events')
  <2>1. 0..Len(events) \subseteq 0..Len(events') /\ 1..Len(events) \subseteq 1..Len(events')
    BY <1>1, <1>2
  <2>2. SnapshotTypes(Len(events)) \subseteq SnapshotTypes(Len(events'))
    BY <2>1 DEF SnapshotTypes
  <2>3. FetchTypes(Len(events)) \subseteq FetchTypes(Len(events'))
    BY <2>2 DEF FetchTypes
  <2>4. StreamTypes(Len(events)) \subseteq StreamTypes(Len(events'))
    BY <2>1 DEF StreamTypes
  <2> QED
    BY <1>3, <1>4, <2>1, <2>2, <2>3, <2>4 DEF viewVars, pageVars
<1>6. TypeOK'
  BY <1>1, <1>3, <1>5, TypesUnfold DEF PageInv, viewVars, pageVars, TypeOK, SnapshotTypes,
     FetchTypes, StreamTypes
<1>7. ASSUME NEW graph, NEW cursor \in 0..Len(events), CoversPlan(graph, cursor)
      PROVE  \A id \in 1..cursor : events'[id].type = "initialized" => graph
  BY <1>1, <1>2, <1>7 DEF CoversPlan
<1>8. ASSUME NEW shown, NEW cursor \in 0..Len(events), CoversTasks(shown, cursor)
      PROVE  \A id \in 1..cursor : events'[id].type = "task" => shown[events'[id].task] >= events'[id].rev
  BY <1>1, <1>2, <1>8 DEF CoversTasks
<1>9. fetch.snap.cursor \in 0..Len(events) /\ stream.cursor \in 0..Len(events) /\ snapshot.cursor \in 0..Len(events)
      /\ stream.at \in 0..Len(events)
  BY <1>4 DEF FetchTypes, SnapshotTypes, StreamTypes
<1>10. FetchInv'
  BY <1>3, <1>7, <1>8, <1>9 DEF PageInv, FetchInv, viewVars, pageVars, CoversPlan, CoversTasks
<1>11. CursorInv' /\ (Reloading => Reloading') /\ (stream.state = "reset" => Reloading)
  BY <1>1, <1>2, <1>3, <1>9 DEF PageInv, CursorInv, Following, Reloading, viewVars, pageVars
<1>12. PageInv'
  BY <1>1, <1>3, <1>6, <1>10, <1>11 DEF PageInv, viewVars
<1>13. ASSUME Overtaken = FALSE, GapInv PROVE GapInv'
  <2>1. stream.state = "open" => first' <= stream.at + 1
    BY <1>13 DEF RunGoesOn
  <2>2. Following => Reloading' \/ (CoversPlan(view.graph, stream.cursor) /\ CoversTasks(view.tasks, stream.cursor))'
    BY <1>3, <1>7, <1>8, <1>9, <1>11, <1>13 DEF GapInv, CoversPlan, CoversTasks, viewVars, pageVars
  <2> QED
    BY <1>3, <1>13, <2>1, <2>2 DEF GapInv, Following, viewVars, pageVars
<1> QED
  BY <1>12, <1>13

-----------------------------------------------------------------------------
(* The page's own steps: the run stands still.                              *)

\* A query that starts forgets what was read, so that the invariants of what it
\* has read hold.
LEMMA RefetchKeeps ==
    ASSUME NEW retry \in BOOLEAN, fetch' = NewFetch(retry), TypeOK, UNCHANGED streamVars
    PROVE  fetch' \in FetchTypes(Len(events')) /\ fetch'.next = 1 /\ FetchInv'
<1>1. Len(events') \in Nat
  BY DEF TypeOK, StreamTypeOK, streamVars
<1>2. fetch' \in FetchTypes(Len(events')) /\ fetch'.next = 1
  BY <1>1, FetchesTyped DEF NewFetch
<1> QED
  BY <1>2 DEF FetchInv, Arrived

\* Reading the next part of a snapshot.
LEMMA ReadKeepsPage ==
    ASSUME PageInv, SnapshotRead
    PROVE  PageInv' /\ (GapInv => GapInv')
<1> DEFINE n == Len(events)
<1>1. /\ UNCHANGED <<streamVars, view, snapshot, failed, runData, poll, refresh, stream, wire, mishaps>>
      /\ fetch.next \in 1..4
      /\ fetch' = [fetch EXCEPT !.next = fetch.next + 1,
                                !.snap = WithRead(SnapshotReads[fetch.next], fetch.snap)]
  BY DEF SnapshotRead
<1>2. n \in Nat /\ n >= 1 /\ StreamTypeOK /\ data \in [Tasks -> Revision] /\ planned \in BOOLEAN
  BY DEF PageInv, TypeOK, StreamTypeOK
<1>3. fetch \in FetchTypes(n) /\ snapshot \in SnapshotTypes(n)
  BY TypesUnfold DEF PageInv
<1>4. fetch.snap \in SnapshotTypes(n)
  BY <1>3 DEF FetchTypes
<1> DEFINE snap == WithRead(SnapshotReads[fetch.next], fetch.snap)
<1>5. /\ fetch.next = 1 => snap = [fetch.snap EXCEPT !.cursor = n]
      /\ fetch.next = 2 => snap = [fetch.snap EXCEPT !.run = RunNow]
      /\ fetch.next = 3 => snap = [fetch.snap EXCEPT !.graph = planned]
      /\ fetch.next = 4 => snap = [fetch.snap EXCEPT !.tasks = data]
  BY DEF WithRead, SnapshotReads, LastEventId
<1>6. snap \in SnapshotTypes(n)
  <2>1. RunNow \in RunView
    BY DEF RunNow, RunView
  <2> QED
    BY <1>1, <1>2, <1>4, <1>5, <2>1 DEF SnapshotTypes
<1>7. fetch'.next = fetch.next + 1 /\ fetch'.snap = snap /\ fetch' \in FetchTypes(n)
  <2>1. fetch' = [fetch EXCEPT !.next = fetch.next + 1, !.snap = snap]
    BY <1>1
  <2>2. fetch.next + 1 \in 0..Arrived
    BY <1>1 DEF Arrived
  <2> HIDE DEF snap
  <2> QED
    BY <1>3, <1>6, <2>1, <2>2 DEF FetchTypes
<1> HIDE DEF snap
<1>8. TypeOK'
  BY <1>1, <1>7, TypesUnfold DEF PageInv, TypeOK, streamVars, StreamTypeOK, SnapshotTypes, FetchTypes,
     StreamTypes
<1>9. FetchInv'
  <2>1. CASE fetch.next = 1
    BY <1>1, <1>2, <1>4, <1>5, <1>7, <2>1 DEF FetchInv, SnapshotTypes, Arrived
  <2>2. CASE fetch.next = 2
    BY <1>1, <1>2, <1>4, <1>5, <1>7, <2>2 DEF PageInv, FetchInv, SnapshotTypes, Arrived
  <2>3. CASE fetch.next = 3
    <3>1. snap.cursor = fetch.snap.cursor /\ snap.graph = planned /\ snap.cursor \in 0..n
      BY <1>4, <1>5, <2>3 DEF SnapshotTypes
    <3>2. CoversPlan(snap.graph, snap.cursor)
      BY <1>2, <3>1 DEF PageInv, DataInv, CoversPlan
    <3>3. CoversPlan(fetch.snap.graph, fetch.snap.cursor)'
      BY <1>1, <1>7, <3>2 DEF CoversPlan, streamVars
    <3> QED
      BY <1>7, <2>3, <3>1, <3>3 DEF PageInv, FetchInv, Arrived
  <2>4. CASE fetch.next = 4
    <3>1. snap.cursor = fetch.snap.cursor /\ snap.graph = fetch.snap.graph /\ snap.tasks = data
          /\ snap.cursor \in 0..n
      BY <1>4, <1>5, <2>4 DEF SnapshotTypes
    <3>2. CoversPlan(snap.graph, snap.cursor)
      BY <2>4, <3>1 DEF PageInv, FetchInv
    <3>3. CoversTasks(snap.tasks, snap.cursor)
      BY <1>2, <3>1 DEF PageInv, DataInv, CoversTasks
    <3>4. CoversPlan(fetch.snap.graph, fetch.snap.cursor)' /\ CoversTasks(fetch.snap.tasks, fetch.snap.cursor)'
      BY <1>1, <1>7, <3>2, <3>3 DEF CoversPlan, CoversTasks, streamVars
    <3> QED
      BY <1>7, <2>4, <3>1, <3>4 DEF PageInv, FetchInv, Arrived
  <2> QED
    BY <1>1, <2>1, <2>2, <2>3, <2>4
<1>10. Reloading => Reloading'
  <2>1. CASE fetch.next = 1
    BY <1>1, <1>4, <1>5, <1>7, <2>1 DEF Reloading, streamVars, SnapshotTypes
  <2>2. CASE fetch.next \in 2..4
    <3>1. snap.cursor = fetch.snap.cursor
      BY <1>4, <1>5, <2>2 DEF SnapshotTypes
    <3> QED
      BY <1>1, <1>7, <2>2, <3>1 DEF Reloading, streamVars
  <2> QED
    BY <1>1, <2>1, <2>2
<1>11. DataInv' /\ CursorInv'
  BY <1>1 DEF PageInv, DataInv, CursorInv, CoversPlan, CoversTasks, Following, streamVars
<1>12. PageInv'
  BY <1>1, <1>8, <1>9, <1>10, <1>11 DEF PageInv
<1>13. GapInv => GapInv'
  BY <1>1, <1>10 DEF GapInv, CoversPlan, CoversTasks, Following, streamVars
<1> QED
  BY <1>12, <1>13

\* The arrival of a snapshot.  One that equals the last cannot answer a reset, nor
\* end a wait for what the page does not show.
LEMMA ArrivalKeepsPage ==
    ASSUME PageInv, SnapshotArrives
    PROVE  PageInv' /\ (GapInv => GapInv')
<1> DEFINE n == Len(events)
           snap == fetch.snap
<1>1. /\ UNCHANGED <<streamVars, runData, poll, refresh, mishaps>>
      /\ fetch.next = Arrived /\ fetch' = NoFetch /\ failed' = FALSE
  BY DEF SnapshotArrives
<1>2. n \in Nat /\ n >= 1 /\ StreamTypeOK'
  BY <1>1 DEF PageInv, TypeOK, StreamTypeOK, streamVars
<1>3. snap \in SnapshotTypes(n) /\ snapshot \in SnapshotTypes(n) /\ stream \in StreamTypes(n)
  BY TypesUnfold DEF PageInv, FetchTypes
<1>4. fetch' \in FetchTypes(Len(events')) /\ fetch'.next = 0 /\ FetchInv'
  <2>1. fetch' \in FetchTypes(Len(events')) /\ fetch'.next = 0
    BY <1>1, <1>2, FetchesTyped DEF NoFetch, streamVars
  <2> QED
    BY <2>1 DEF FetchInv, Arrived
<1>5. /\ snap.cursor \in 1..n /\ CoversPlan(snap.graph, snap.cursor) /\ CoversTasks(snap.tasks, snap.cursor)
      /\ Reloading => snapshot.cursor < snap.cursor
  BY <1>1, <1>3 DEF PageInv, FetchInv, Reloading, Arrived, SnapshotTypes
<1>6. DataInv'
  BY <1>1 DEF PageInv, DataInv, CoversPlan, CoversTasks, streamVars
<1>7. CASE ShowSnapshot(snap)
  <2>1. /\ snapshot' = snap /\ wire' = {}
        /\ view' = [run |-> snap.run, graph |-> snap.graph, tasks |-> snap.tasks, polled |-> FALSE]
        /\ stream' = Closed \/ stream' = Stream("connecting", snap.cursor)
    BY <1>7 DEF ShowSnapshot
  <2>2. stream' \in StreamTypes(n)
    BY <1>2, <1>5, <2>1, StreamsTyped DEF Closed
  <2>3. TypeOK'
    <3>1. view' \in [run : RunView, graph : BOOLEAN, tasks : [Tasks -> Revision], polled : BOOLEAN]
      BY <1>3, <2>1 DEF SnapshotTypes
    <3> QED
      BY <1>1, <1>2, <1>3, <1>4, <2>1, <2>2, <3>1, TypesUnfold
      DEF PageInv, TypeOK, streamVars, SnapshotTypes, FetchTypes, StreamTypes
  <2>4. \/ stream'.state = "closed"
        \/ stream'.state = "connecting" /\ stream'.cursor = snap.cursor
    BY <2>1 DEF Closed, Stream
  <2>5. CursorInv'
    BY <1>3, <1>5, <2>1, <2>4 DEF CursorInv, Following, SnapshotTypes
  <2>6. view'.graph = snap.graph /\ view'.tasks = snap.tasks
    BY <2>1
  <2>7. Following' => (CoversPlan(view.graph, stream.cursor) /\ CoversTasks(view.tasks, stream.cursor))'
    BY <1>1, <1>5, <2>4, <2>6 DEF Following, CoversPlan, CoversTasks, streamVars
  <2> QED
    BY <1>4, <1>6, <2>3, <2>4, <2>5, <2>7 DEF PageInv, GapInv
<1>8. CASE snap = snapshot /\ UNCHANGED <<view, snapshot, stream, wire>>
  <2>1. ~Reloading
    BY <1>3, <1>5, <1>8 DEF SnapshotTypes
  <2>2. TypeOK'
    BY <1>1, <1>2, <1>3, <1>4, <1>8, TypesUnfold
    DEF PageInv, TypeOK, streamVars, SnapshotTypes, FetchTypes, StreamTypes
  <2>3. CursorInv' /\ stream'.state # "reset"
    BY <1>8, <2>1 DEF PageInv, CursorInv, Following
  <2>4. GapInv => GapInv'
    BY <1>1, <1>8, <2>1 DEF GapInv, Following, CoversPlan, CoversTasks, streamVars
  <2> QED
    BY <1>4, <1>6, <2>2, <2>3, <2>4 DEF PageInv
<1> QED
  BY <1>7, <1>8 DEF SnapshotArrives

\* A snapshot query that fails or is started over, and the query of the run.
LEMMA QueriesKeepPage ==
    ASSUME PageInv, SnapshotFails \/ ClickRefresh \/ PollRead \/ PollFails
    PROVE  PageInv' /\ (GapInv => GapInv')
<1>1. UNCHANGED <<streamVars, view, snapshot, runData, stream, wire>>
  BY DEF SnapshotFails, ClickRefresh, PollRead, PollFails
<1>2. \/ fetch' = fetch /\ failed' = failed
      \/ \E retry \in BOOLEAN : fetch' = NewFetch(retry)
         /\ failed' = failed
      \/ fetch' = NoFetch /\ failed' = TRUE
  BY DEF SnapshotFails, ClickRefresh, PollRead, PollFails, Refetch
<1>3. poll' \in RunView /\ refresh' \in BOOLEAN /\ mishaps' \in 0..MaxMishaps /\ failed' \in BOOLEAN
  <2>1. poll \in RunView /\ refresh \in BOOLEAN /\ mishaps \in 0..MaxMishaps /\ failed \in BOOLEAN
    BY DEF PageInv, TypeOK
  <2>2. mishaps' = mishaps \/ (mishaps < MaxMishaps /\ mishaps' = mishaps + 1)
    BY DEF SnapshotFails, ClickRefresh, PollRead, PollFails
  <2>3. mishaps' \in 0..MaxMishaps
    BY <2>1, <2>2, ViewAssumption
  <2>4. poll' \in RunView
    BY <2>1 DEF SnapshotFails, ClickRefresh, PollRead, PollFails, RunNow, RunView
  <2>5. refresh' \in BOOLEAN /\ failed' \in BOOLEAN
    BY <1>2, <2>1 DEF SnapshotFails, ClickRefresh, PollRead, PollFails
  <2> QED
    BY <2>3, <2>4, <2>5
<1>4. Len(events) \in Nat /\ Len(events') = Len(events)
  BY <1>1 DEF PageInv, TypeOK, StreamTypeOK, streamVars
<1>5. fetch' \in FetchTypes(Len(events')) /\ FetchInv' /\ (Reloading => Reloading')
  <2>1. CASE fetch' = fetch /\ failed' = failed
    BY <1>1, <2>1, TypesUnfold DEF PageInv, FetchInv, Reloading, CoversPlan, CoversTasks, streamVars, FetchTypes, SnapshotTypes
  <2>2. ASSUME NEW retry \in BOOLEAN, fetch' = NewFetch(retry) PROVE
          fetch' \in FetchTypes(Len(events')) /\ FetchInv' /\ (Reloading => Reloading')
    <3>1. fetch' \in FetchTypes(Len(events')) /\ FetchInv' /\ fetch'.next = 1
      BY <1>1, <2>2, RefetchKeeps DEF PageInv
    <3> QED
      BY <1>1, <1>4, <3>1 DEF Reloading
  <2>3. CASE fetch' = NoFetch /\ failed' = TRUE
    <3>1. fetch' \in FetchTypes(Len(events')) /\ fetch'.next = 0
      BY <1>4, <2>3, FetchesTyped DEF NoFetch
    <3> QED
      BY <1>1, <1>4, <2>3, <3>1 DEF FetchInv, Reloading, Arrived
  <2> QED
    BY <1>2, <2>1, <2>2, <2>3
<1>6. TypeOK'
  BY <1>1, <1>3, <1>4, <1>5, TypesUnfold
  DEF PageInv, TypeOK, StreamTypeOK, streamVars, SnapshotTypes, FetchTypes, StreamTypes
<1>7. DataInv' /\ CursorInv'
  BY <1>1 DEF PageInv, DataInv, CursorInv, CoversPlan, CoversTasks, Following, streamVars
<1>8. PageInv'
  BY <1>1, <1>5, <1>6, <1>7 DEF PageInv
<1>9. GapInv => GapInv'
  BY <1>1, <1>5 DEF GapInv, Following, CoversPlan, CoversTasks, streamVars
<1> QED
  BY <1>8, <1>9

\* The answer of the run query closes the stream or leaves it alone.
LEMMA PollKeepsPage ==
    ASSUME PageInv, PollArrives
    PROVE  PageInv' /\ (GapInv => GapInv')
<1>1. /\ UNCHANGED <<streamVars, snapshot, fetch, failed, refresh, mishaps>>
      /\ poll' \in RunView /\ runData' \in RunView
      /\ view' = view \/ view' = [view EXCEPT !.run = poll, !.polled = TRUE]
      /\ \/ stream' = stream /\ wire' = wire
         \/ stream' = Closed /\ wire' = {}
  BY DEF PollArrives, PageInv, TypeOK, RunView
<1>2. Len(events) \in Nat /\ Len(events') = Len(events)
  BY <1>1 DEF PageInv, TypeOK, StreamTypeOK, streamVars
<1>3. /\ poll \in RunView /\ stream \in StreamTypes(Len(events))
      /\ view \in [run : RunView, graph : BOOLEAN, tasks : [Tasks -> Revision], polled : BOOLEAN]
  BY TypesUnfold DEF PageInv
<1>4. /\ view' \in [run : RunView, graph : BOOLEAN, tasks : [Tasks -> Revision], polled : BOOLEAN]
      /\ view'.graph = view.graph /\ view'.tasks = view.tasks
  BY <1>1, <1>3
<1>5. stream' \in StreamTypes(Len(events'))
  BY <1>1, <1>2, <1>3, StreamsTyped DEF Closed
<1>6. stream' = stream \/ stream'.state = "closed"
  BY <1>1 DEF Closed, Stream
<1>7. TypeOK'
  BY <1>1, <1>2, <1>4, <1>5, TypesUnfold
  DEF PageInv, TypeOK, StreamTypeOK, streamVars, SnapshotTypes, FetchTypes, StreamTypes
<1>8. DataInv' /\ FetchInv' /\ (Reloading => Reloading')
  BY <1>1 DEF PageInv, DataInv, FetchInv, CoversPlan, CoversTasks, Reloading, streamVars
<1>9. CursorInv' /\ (stream'.state = "reset" => Reloading)
  BY <1>1, <1>6 DEF PageInv, CursorInv, Following, Closed, Stream
<1>10. PageInv'
  BY <1>7, <1>8, <1>9 DEF PageInv
<1>11. GapInv => GapInv'
  BY <1>1, <1>4, <1>6, <1>8 DEF GapInv, Following, CoversPlan, CoversTasks, streamVars, Closed, Stream
<1> QED
  BY <1>10, <1>11

\* Connecting: a cursor that has expired leads to a reload, any other to a stream
\* without a gap.
LEMMA ConnectKeepsPage ==
    ASSUME PageInv, Connect
    PROVE  PageInv' /\ (GapInv => GapInv')
<1> DEFINE n == Len(events)
<1>1. /\ UNCHANGED <<streamVars, view, snapshot, failed, runData, poll, refresh, wire, mishaps>>
      /\ stream.state = "connecting"
  BY DEF Connect
<1>2. n \in Nat /\ Len(events') = n /\ first \in 1..n
  BY <1>1 DEF PageInv, TypeOK, StreamTypeOK, streamVars
<1>3. /\ stream.cursor \in 1..n /\ snapshot.cursor \in 0..n /\ snapshot.cursor <= stream.cursor
      /\ fetch \in FetchTypes(n)
  BY <1>1, TypesUnfold DEF PageInv, CursorInv, Following, StreamTypes, SnapshotTypes
<1>4. CASE Expired(stream.cursor) /\ stream' = Stream("reset", 0) /\ Refetch
  <2>1. fetch' \in FetchTypes(n) /\ fetch'.next = 1 /\ FetchInv'
    BY <1>1, <1>2, <1>4, RefetchKeeps DEF Refetch, PageInv
  <2>2. stream' \in StreamTypes(n) /\ stream'.state = "reset"
    BY <1>2, <1>4 DEF Stream, StreamTypes
  <2>3. TypeOK'
    BY <1>1, <1>2, <2>1, <2>2, TypesUnfold
    DEF PageInv, TypeOK, StreamTypeOK, streamVars, SnapshotTypes, FetchTypes, StreamTypes
  <2>4. Reloading'
    BY <1>1, <1>2, <1>3, <1>4, <2>1 DEF Reloading, Expired, streamVars
  <2> QED
    BY <1>1, <2>1, <2>2, <2>3, <2>4
    DEF PageInv, DataInv, CursorInv, GapInv, Following, CoversPlan, CoversTasks, streamVars
<1>5. CASE ~Expired(stream.cursor) /\ stream' = Stream("open", stream.cursor) /\ UNCHANGED fetch
  <2>1. stream' \in StreamTypes(n) /\ stream' = [state |-> "open", cursor |-> stream.cursor, at |-> stream.cursor]
    BY <1>2, <1>3, <1>5 DEF Stream, StreamTypes
  <2>2. TypeOK'
    BY <1>1, <1>2, <1>3, <1>5, <2>1, TypesUnfold
    DEF PageInv, TypeOK, StreamTypeOK, streamVars, SnapshotTypes, FetchTypes, StreamTypes
  <2>3. wire' = {} /\ (stream.cursor + 1)..stream.cursor = {}
    BY <1>1, <1>3 DEF PageInv, CursorInv
  <2>4. DataInv' /\ FetchInv' /\ (Reloading => Reloading')
    BY <1>1, <1>5 DEF PageInv, DataInv, FetchInv, CoversPlan, CoversTasks, Reloading, streamVars
  <2>5. CursorInv'
    BY <1>1, <1>3, <2>1, <2>3 DEF CursorInv, Following
  <2>6. PageInv'
    BY <2>1, <2>2, <2>4, <2>5 DEF PageInv
  <2>7. first <= stream.cursor + 1
    BY <1>2, <1>3, <1>5 DEF Expired
  <2>8. GapInv => GapInv'
    <3>1. (stream.state = "open" => first <= stream.at + 1 /\ wire = (stream.cursor + 1)..stream.at)'
      BY <1>1, <2>1, <2>3, <2>7 DEF streamVars
    <3> QED
      BY <1>1, <2>1, <2>4, <3>1 DEF GapInv, Following, CoversPlan, CoversTasks, streamVars
  <2> QED
    BY <2>6, <2>8
<1> QED
  BY <1>4, <1>5 DEF Connect

\* The server sends the event after its cursor.
LEMMA SendKeepsPage ==
    ASSUME PageInv, ServerSends
    PROVE  PageInv' /\ (GapInv => GapInv')
<1> DEFINE n == Len(events)
           after == IF stream.at + 1 < first THEN first ELSE stream.at + 1
<1>1. /\ UNCHANGED <<streamVars, pageVars, mishaps>>
      /\ stream.state = "open" /\ after <= n
      /\ stream' = [stream EXCEPT !.at = after]
      /\ wire' = wire \union {after}
  BY DEF ServerSends
<1>2. n \in Nat /\ Len(events') = n /\ first \in 1..n
  BY <1>1 DEF PageInv, TypeOK, StreamTypeOK, streamVars
<1>3. stream \in StreamTypes(n) /\ wire \subseteq 1..n
  BY TypesUnfold DEF PageInv
<1>4. after \in 1..n /\ after > stream.at
  BY <1>1, <1>2, <1>3 DEF StreamTypes
<1> HIDE DEF after
<1>5. /\ stream' \in StreamTypes(n) /\ wire' \subseteq 1..n
      /\ stream'.state = "open" /\ stream'.cursor = stream.cursor /\ stream'.at = after
  BY <1>1, <1>3, <1>4 DEF StreamTypes
<1>6. TypeOK'
  BY <1>1, <1>2, <1>5, TypesUnfold
  DEF PageInv, TypeOK, StreamTypeOK, streamVars, pageVars, SnapshotTypes, FetchTypes, StreamTypes
<1>7. DataInv' /\ FetchInv' /\ (Reloading => Reloading')
  BY <1>1 DEF PageInv, DataInv, FetchInv, CoversPlan, CoversTasks, Reloading, streamVars, pageVars
<1>8. stream.cursor <= stream.at
  BY <1>1 DEF PageInv, CursorInv
<1>9. CursorInv'
  BY <1>1, <1>3, <1>4, <1>5, <1>8 DEF PageInv, CursorInv, Following, pageVars, StreamTypes
<1>10. PageInv'
  BY <1>5, <1>6, <1>7, <1>9 DEF PageInv
<1>11. ASSUME GapInv PROVE GapInv'
  <2>1. after = stream.at + 1 /\ wire = (stream.cursor + 1)..stream.at
    BY <1>1, <1>2, <1>3, <1>11 DEF GapInv, after, StreamTypes
  <2>2. wire' = (stream.cursor + 1)..after
    BY <1>1, <1>3, <1>8, <2>1 DEF StreamTypes
  <2>3. first' <= stream'.at + 1
    BY <1>1, <1>2, <1>3, <1>5, <1>11, <2>1 DEF GapInv, streamVars, StreamTypes
  <2> QED
    BY <1>1, <1>5, <1>7, <1>11, <2>2, <2>3 DEF GapInv, Following, CoversPlan, CoversTasks, streamVars, pageVars
<1> QED
  BY <1>10, <1>11

\* A connection that breaks leaves the page where its cursor is.
LEMMA DropKeepsPage ==
    ASSUME PageInv, Drop
    PROVE  PageInv' /\ (GapInv => GapInv')
<1> DEFINE n == Len(events)
<1>1. /\ UNCHANGED <<streamVars, pageVars>>
      /\ stream.state = "open" /\ wire' = {}
      /\ mishaps < MaxMishaps /\ mishaps' = mishaps + 1
      /\ stream' = [state |-> "connecting", cursor |-> stream.cursor, at |-> stream.cursor]
  BY DEF Drop, Stream
<1>2. n \in Nat /\ Len(events') = n
  BY <1>1 DEF PageInv, TypeOK, StreamTypeOK, streamVars
<1>3. stream' \in StreamTypes(n) /\ mishaps' \in 0..MaxMishaps
  BY <1>1, ViewAssumption, TypesUnfold DEF PageInv, StreamTypes
<1>4. TypeOK'
  BY <1>1, <1>2, <1>3, TypesUnfold
  DEF PageInv, TypeOK, StreamTypeOK, streamVars, pageVars, SnapshotTypes, FetchTypes, StreamTypes
<1>5. DataInv' /\ FetchInv' /\ (Reloading => Reloading')
  BY <1>1 DEF PageInv, DataInv, FetchInv, CoversPlan, CoversTasks, Reloading, streamVars, pageVars
<1>6. CursorInv'
  BY <1>1 DEF PageInv, CursorInv, Following, pageVars
<1>7. GapInv => GapInv'
  BY <1>1, <1>5 DEF GapInv, Following, CoversPlan, CoversTasks, streamVars, pageVars
<1> QED
  BY <1>1, <1>4, <1>5, <1>6, <1>7 DEF PageInv

\* The page handles an event: it shows it, or loads a snapshot that will.
LEMMA DeliverKeepsPage ==
    ASSUME PageInv, Deliver
    PROVE  PageInv' /\ (GapInv => GapInv')
<1> DEFINE n == Len(events)
<1>1. PICK id \in wire :
        /\ \A other \in wire : id <= other
        /\ wire' = wire \ {id}
        /\ stream' = [stream EXCEPT !.cursor = id]
        /\ view' = Merged(events[id])
        /\ IF NeedsSnapshot(events[id]) THEN Refetch ELSE UNCHANGED fetch
  BY DEF Deliver
<1>2. refresh' = TRUE /\ UNCHANGED <<streamVars, snapshot, failed, runData, poll, mishaps>>
  BY DEF Deliver
<1> DEFINE event == events[id]
<1>3. n \in Nat /\ Len(events') = n /\ events \in Seq(Event)
  BY <1>2 DEF PageInv, TypeOK, StreamTypeOK, streamVars
<1>4. /\ stream \in StreamTypes(n) /\ wire \subseteq 1..n /\ fetch \in FetchTypes(n)
      /\ snapshot \in SnapshotTypes(n)
      /\ view \in [run : RunView, graph : BOOLEAN, tasks : [Tasks -> Revision], polled : BOOLEAN]
  BY TypesUnfold DEF PageInv
<1>5. stream.state = "open" /\ stream.cursor < id /\ id \in 1..n
  BY <1>4 DEF PageInv, CursorInv
<1>6. event \in Event
  BY <1>3, <1>5
<1>7. event.type = "task" => event.task \in Tasks /\ event.rev \in Nat
  BY <1>6 DEF Event
<1> HIDE DEF event
<1>8. /\ view' \in [run : RunView, graph : BOOLEAN, tasks : [Tasks -> Revision], polled : BOOLEAN]
      /\ view'.graph = view.graph
      /\ \A t \in Tasks : view'.tasks[t] >= view.tasks[t]
      /\ event.type = "task" /\ ~NeedsSnapshot(event) => view'.tasks[event.task] >= event.rev
  <2>1. view' = Merged(event)
    BY <1>1 DEF event
  <2>2. \A t \in Tasks : view.tasks[t] \in Revision
    BY <1>4
  <2>3. CASE event.type = "task" /\ view.tasks[event.task] # -1 /\ event.rev > view.tasks[event.task]
    <3>1. view' = [view EXCEPT !.tasks = [view.tasks EXCEPT ![event.task] = event.rev]]
      BY <2>1, <2>3 DEF Merged
    <3>2. view'.graph = view.graph /\ view'.tasks = [view.tasks EXCEPT ![event.task] = event.rev]
      BY <1>4, <3>1
    <3>3. [view.tasks EXCEPT ![event.task] = event.rev] \in [Tasks -> Revision]
      BY <1>4, <1>7, <2>3 DEF Revision
    <3>4. view' \in [run : RunView, graph : BOOLEAN, tasks : [Tasks -> Revision], polled : BOOLEAN]
      BY <1>4, <3>1, <3>3
    <3> QED
      BY <1>4, <1>7, <2>2, <2>3, <3>2, <3>4 DEF Revision
  <2>4. CASE ~(event.type = "task" /\ view.tasks[event.task] # -1 /\ event.rev > view.tasks[event.task])
    <3>1. view' = view
      BY <2>1, <2>4 DEF Merged
    <3> QED
      BY <1>4, <1>7, <2>2, <2>4, <3>1 DEF NeedsSnapshot, Revision
  <2> QED
    BY <2>3, <2>4
<1>9. /\ stream' \in StreamTypes(n) /\ wire' \subseteq 1..n
      /\ stream'.state = "open" /\ stream'.cursor = id /\ stream'.at = stream.at
  BY <1>1, <1>4, <1>5 DEF StreamTypes
<1>10. /\ fetch' \in FetchTypes(n) /\ FetchInv' /\ (Reloading => Reloading')
       /\ NeedsSnapshot(event) => Reloading'
  <2>1. CASE NeedsSnapshot(event)
    <3>1. fetch' \in FetchTypes(n) /\ FetchInv' /\ fetch'.next = 1
      BY <1>1, <1>2, <1>3, <2>1, RefetchKeeps DEF Refetch, PageInv, event
    <3>2. snapshot.cursor < n
      BY <1>4, <1>5 DEF PageInv, CursorInv, Following, SnapshotTypes, StreamTypes
    <3> QED
      BY <1>2, <1>3, <3>1, <3>2 DEF Reloading
  <2>2. CASE ~NeedsSnapshot(event)
    BY <1>1, <1>2, <1>4, <2>2 DEF PageInv, FetchInv, CoversPlan, CoversTasks, Reloading, streamVars, event
  <2> QED
    BY <2>1, <2>2
<1>11. TypeOK'
  BY <1>2, <1>3, <1>8, <1>9, <1>10, TypesUnfold
  DEF PageInv, TypeOK, StreamTypeOK, streamVars, SnapshotTypes, FetchTypes, StreamTypes
<1>12. DataInv'
  BY <1>2 DEF PageInv, DataInv, CoversPlan, CoversTasks, streamVars
<1>13. CursorInv'
  <2>1. snapshot.cursor <= stream.cursor /\ \A i \in wire : i <= stream.at
    BY <1>5 DEF PageInv, CursorInv, Following
  <2>2. snapshot.cursor \in Nat /\ stream.cursor \in Nat
    BY <1>3, <1>4 DEF SnapshotTypes, StreamTypes
  <2>3. 1 <= stream'.cursor /\ snapshot'.cursor <= stream'.cursor
    BY <1>2, <1>5, <1>9, <2>1, <2>2
  <2>4. \A i \in wire' : i \in wire /\ id < i
    BY <1>1, <1>4
  <2> QED
    BY <1>5, <1>9, <2>1, <2>3, <2>4 DEF CursorInv, Following
<1>14. PageInv'
  BY <1>9, <1>10, <1>11, <1>12, <1>13 DEF PageInv
<1>15. ASSUME GapInv PROVE GapInv'
  <2>1. first <= stream.at + 1 /\ wire = (stream.cursor + 1)..stream.at
    BY <1>5, <1>15 DEF GapInv
  <2>2. id = stream.cursor + 1 /\ wire' = (id + 1)..stream.at
    <3>1. stream.cursor + 1 \in wire
      BY <1>4, <1>5, <2>1 DEF StreamTypes
    <3> QED
      BY <1>1, <1>4, <1>5, <2>1, <3>1 DEF StreamTypes
  <2>3. CASE Reloading \/ NeedsSnapshot(event)
    BY <1>2, <1>9, <1>10, <2>1, <2>2, <2>3 DEF GapInv, Following, streamVars
  <2>4. CASE ~Reloading /\ ~NeedsSnapshot(event)
    <3>1. CoversPlan(view.graph, stream.cursor) /\ CoversTasks(view.tasks, stream.cursor)
      BY <1>5, <1>15, <2>4 DEF GapInv, Following
    <3>2. CoversPlan(view'.graph, id)
      <4>1. event.type # "initialized"
        BY <2>4 DEF NeedsSnapshot
      <4> QED
        BY <1>4, <1>8, <2>2, <3>1, <4>1 DEF CoversPlan, StreamTypes, event
    <3>3. CoversTasks(view'.tasks, id)
      <4> SUFFICES ASSUME NEW i \in 1..id, events[i].type = "task"
                   PROVE  view'.tasks[events[i].task] >= events[i].rev
        BY DEF CoversTasks
      <4>1. CASE i = id
        BY <1>8, <2>4, <4>1 DEF event
      <4>2. CASE i \in 1..stream.cursor
        <5>1. view.tasks[events[i].task] >= events[i].rev
          BY <3>1, <4>2 DEF CoversTasks
        <5>2. i \in 1..n
          BY <1>5
        <5>3. events[i].task \in Tasks /\ events[i].rev \in Nat
          BY <1>3, <5>2 DEF Event
        <5> QED
          BY <1>4, <1>8, <5>1, <5>3 DEF Revision
      <4> QED
        BY <1>4, <1>5, <2>2, <4>1, <4>2 DEF StreamTypes
    <3>4. (CoversPlan(view.graph, stream.cursor) /\ CoversTasks(view.tasks, stream.cursor))'
      BY <1>2, <1>9, <3>2, <3>3 DEF CoversPlan, CoversTasks, streamVars
    <3> QED
      BY <1>2, <1>9, <2>1, <2>2, <3>4 DEF GapInv, streamVars
  <2> QED
    BY <2>3, <2>4
<1> QED
  BY <1>14, <1>15

-----------------------------------------------------------------------------
(* Every step, and the theorems.                                            *)

\* Every step of the page and of its run keeps what was true of them.
LEMMA PageNext ==
    ASSUME PageInv, [Next]_vars
    PROVE  PageInv' /\ (Overtaken = FALSE /\ GapInv => GapInv')
<1>1. CASE RunGoesOn
  BY <1>1, RunKeepsPage
<1>2. CASE SnapshotRead
  BY <1>2, ReadKeepsPage
<1>3. CASE SnapshotArrives
  BY <1>3, ArrivalKeepsPage
<1>4. CASE SnapshotFails \/ ClickRefresh \/ PollRead \/ PollFails
  BY <1>4, QueriesKeepPage
<1>5. CASE PollArrives
  BY <1>5, PollKeepsPage
<1>6. CASE Connect
  BY <1>6, ConnectKeepsPage
<1>7. CASE ServerSends
  BY <1>7, SendKeepsPage
<1>8. CASE Deliver
  BY <1>8, DeliverKeepsPage
<1>9. CASE Drop
  BY <1>9, DropKeepsPage
<1>10. CASE UNCHANGED vars
  <2>1. UNCHANGED streamVars /\ UNCHANGED pageVars /\ UNCHANGED <<stream, wire, mishaps>>
    BY <1>10 DEF vars, viewVars
  <2>2. TypeOK'
    BY <2>1 DEF PageInv, TypeOK, StreamTypeOK, streamVars, pageVars
  <2>3. DataInv' /\ FetchInv' /\ CursorInv' /\ (Reloading => Reloading')
    BY <2>1 DEF PageInv, DataInv, FetchInv, CursorInv, Following, CoversPlan, CoversTasks,
       Reloading, streamVars, pageVars
  <2> QED
    BY <2>1, <2>2, <2>3 DEF PageInv, GapInv, Following, CoversPlan, CoversTasks, streamVars, pageVars
<1> QED
  BY <1>1, <1>2, <1>3, <1>4, <1>5, <1>6, <1>7, <1>8, <1>9, <1>10 DEF Next

\* Whatever the tasks and the bounds, the stream, the page, its queries and the
\* events on the wire have their types.
THEOREM LiveViewTypes == Spec => []TypeOK
<1>1. Init => PageInv
  BY PageStarts
<1>2. PageInv /\ [Next]_vars => PageInv'
  BY PageNext
<1>3. PageInv => TypeOK
  BY DEF PageInv
<1> QED
  BY <1>1, <1>2, <1>3, PTL DEF Spec

\* A stream closed by the server's reset is never forgotten: a snapshot that will
\* open a new one is under way, or the page shows an error.
THEOREM ResetIsReloaded == Spec => []ResetReloads
<1>1. Init => PageInv
  BY PageStarts
<1>2. PageInv /\ [Next]_vars => PageInv'
  BY PageNext
<1>3. PageInv => ResetReloads
  <2> SUFFICES ASSUME PageInv, stream.state = "reset", ~failed
               PROVE  fetch # NoFetch /\ (fetch.next = Arrived => fetch.snap # snapshot)
    BY DEF ResetReloads
  <2>1. fetch.next # 0 /\ (fetch.next >= 2 => snapshot.cursor < fetch.snap.cursor)
    BY DEF PageInv, Reloading
  <2>2. snapshot.cursor \in Int
    BY TypesUnfold DEF PageInv, SnapshotTypes
  <2> QED
    BY <2>1, <2>2 DEF NoFetch, Arrived
<1> QED
  BY <1>1, <1>2, <1>3, PTL DEF Spec

\* The page is never behind its own cursor, as long as no open stream is overtaken
\* by trimming: snapshot, stream, reset and reconnection lose nothing together.
THEOREM PageHasNoGap ==
    ASSUME Overtaken = FALSE
    PROVE  Spec => []NoGap
<1>1. Init => PageInv /\ GapInv
  BY PageStarts
<1>2. (PageInv /\ GapInv) /\ [Next]_vars => (PageInv /\ GapInv)'
  BY PageNext
<1>3. PageInv /\ GapInv => NoGap
  BY DEF GapInv, NoGap, Following, Reloading, NoFetch, CoversPlan, CoversTasks
<1> QED
  BY <1>1, <1>2, <1>3, PTL DEF Spec
=============================================================================
