------------------------- MODULE UserFiles_proofs -------------------------
(***************************************************************************)
(* Theorems about UserFiles, for any number of files, requests, uploads,   *)
(* builds and kills: types, a file that nobody writes is whole while       *)
(* nothing was killed, and a job that ends well has updated every file     *)
(* that is still as the job found it.                                      *)
(***************************************************************************)
EXTENDS UserFiles, TLAPS

Writes == {"original", "current", "meta", "manage", "unlink"}

\* Which call goes through which steps.
Control(p) ==
    /\ work[p].step # "idle" => work[p].id \in Ids
    /\ work[p].step = "enter" => work[p].op \in {"replace", "touch", "delete", "expire", "record"}
    /\ work[p].step = "original" => work[p].op \in {"create", "replace"}
    /\ work[p].step = "current" => work[p].op \in {"create", "replace", "record"}
    /\ work[p].step = "meta" => work[p].op \in {"create", "replace", "touch", "record"}
    /\ work[p].step \in Writes => work[p].id \in folder
    /\ work[p].step = "unmanage" => work[p].id \notin folder
    /\ work[p].op \in {"create", "replace"} => work[p].text.upload # 0
    /\ work[p].op = "record" => p = Job
    /\ p = Job /\ work[p].step # "idle" => job.build # 0

\* A job that was begun has a build.
JobInv == job.phase # "idle" => job.build # 0

StoreTypes ==
    /\ folder \subseteq drawn /\ manage \subseteq drawn /\ links \subseteq drawn /\ drawn \subseteq Ids
    /\ original \in [Ids -> 0..MaxUploads]
    /\ current \in [Ids -> Text]
    /\ meta \in [Ids -> Meta]
    /\ \A id \in Ids \ folder : original[id] = 0 /\ current[id] = NoText /\ meta[id] = NoMeta

Call == [op : Ops, id : Ids \union {"none"}, step : Steps, text : Text, seen : Meta]
JobType == [phase : Phases, build : 0..MaxBuilds, left : SUBSET Ids, at : Ids \union {"none"},
            plans : [Ids -> Text], known : [Ids -> 0..MaxUploads]]

\* One process at a time is at a step that needs the lock.
Exclusive ==
    /\ lock \in Processes \union {Nobody}
    /\ \A p \in Processes : work[p].step \in WriteSteps <=> lock = p

Bounds == uploads \in 0..MaxUploads /\ crashes \in 0..MaxCrashes

TypeInv ==
    /\ StoreTypes /\ Exclusive /\ Bounds /\ JobInv
    /\ work \in [Processes -> Call]
    /\ job \in JobType
    /\ \A p \in Processes : Control(p)

-----------------------------------------------------------------------------
(* Records.                                                                 *)

LEMMA NoTextType == NoText \in Text
BY FilesAssumption DEF NoText, Text

LEMMA NoMetaType == NoMeta \in Meta
BY FilesAssumption DEF NoMeta, Meta

LEMMA IdleType == Idle \in Call /\ Idle.step = "idle" /\ Idle.op = "none"
<1>1. "none" \in Ops /\ "idle" \in Steps
    BY DEF Ops, Steps
<1>2. \A text \in Text, seen \in Meta :
         [op |-> "none", id |-> "none", step |-> "idle", text |-> text, seen |-> seen] \in Call
    BY <1>1 DEF Call
<1>3. Idle \in Call
    BY <1>2, NoTextType, NoMetaType DEF Idle
<1> QED BY <1>3 DEF Idle

\* A call that begins is a call.
LEMMA BeginType ==
    ASSUME TypeInv, NEW p \in Processes, NEW op \in Ops, NEW id \in Ids, NEW s \in Steps,
           NEW text \in Text, Begin(p, op, id, s, text)
    PROVE  /\ work' \in [Processes -> Call]
           /\ work'[p].op = op /\ work'[p].id = id /\ work'[p].step = s /\ work'[p].text = text
           /\ \A q \in Processes : q # p => work'[q] = work[q]
<1>1. [op |-> op, id |-> id, step |-> s, text |-> text, seen |-> NoMeta] \in Call
    BY NoMetaType DEF Call
<1> QED BY <1>1 DEF Begin, TypeInv

LEMMA GotoType ==
    ASSUME TypeInv, NEW p \in Processes, NEW s \in Steps, Goto(p, s)
    PROVE  /\ work' \in [Processes -> Call]
           /\ work'[p] = [work[p] EXCEPT !.step = s]
           /\ \A q \in Processes : q # p => work'[q] = work[q]
BY DEF Goto, TypeInv, Call

LEMMA ReturnType ==
    ASSUME TypeInv, NEW p \in Processes, Return(p)
    PROVE  /\ work' \in [Processes -> Call]
           /\ work'[p] = Idle
           /\ \A q \in Processes : q # p => work'[q] = work[q]
           /\ lock' \in Processes \union {Nobody}
           /\ \A q \in Processes : work'[q].step \in WriteSteps <=> lock' = q
<1>1. "idle" \notin WriteSteps
    BY DEF WriteSteps
<1> QED BY <1>1, IdleType, FilesAssumption DEF Return, TypeInv, Exclusive, Processes

LEMMA StoppedType ==
    ASSUME TypeInv, NEW phase \in Phases
    PROVE  /\ Stopped(phase) \in JobType
           /\ Stopped(phase).build = job.build /\ Stopped(phase).phase = phase
BY NoTextType DEF Stopped, TypeInv, JobType, NoPlans


-----------------------------------------------------------------------------
(* Types.                                                                   *)

\* A step of one process: what the others are at stays allowed.
LEMMA ControlOthers ==
    ASSUME TypeInv, NEW p \in Processes, \A q \in Processes : q # p => work'[q] = work[q],
           Control(p)',
           job'.build # 0 \/ job'.build = job.build,
           folder' = folder \/ lock \in {p, Nobody}
    PROVE  \A q \in Processes : Control(q)'
<1> SUFFICES ASSUME NEW q \in Processes, q # p PROVE Control(q)'
    OBVIOUS
<1>1. work'[q] = work[q] /\ Control(q)
    BY DEF TypeInv
<1>2. work[q].step \in WriteSteps => folder' = folder
    BY FilesAssumption DEF TypeInv, Exclusive
<1>3. work[q].step \in Writes \union {"unmanage"} => work[q].step \in WriteSteps
    BY DEF Writes, WriteSteps
<1> QED BY <1>1, <1>2, <1>3 DEF Control

\* A call begins that does not have the lock yet.
LEMMA BeginTypes ==
    ASSUME TypeInv, NEW p \in Processes, NEW id \in Ids, NEW text \in Text,
           NEW op \in {"replace", "touch", "delete", "expire", "plan", "record"},
           NEW s \in {"enter", "readText"}, s = "readText" <=> op = "plan",
           work[p] = Idle, Begin(p, op, id, s, text),
           op = "replace" => text.upload # 0,
           op = "record" => p = Job,
           p = Job => job.build # 0,
           job' \in JobType, job'.build = job.build, job.phase # "idle" \/ job' = job,
           uploads' \in 0..MaxUploads,
           UNCHANGED <<store, lock, drawn, links, crashes>>
    PROVE  TypeInv'
<1>1. op \in Ops /\ s \in Steps /\ s \notin WriteSteps /\ "idle" \notin WriteSteps
    BY DEF Ops, Steps, WriteSteps
<1>2. /\ work' \in [Processes -> Call]
      /\ work'[p].op = op /\ work'[p].id = id /\ work'[p].step = s /\ work'[p].text = text
      /\ \A q \in Processes : q # p => work'[q] = work[q]
    BY <1>1, BeginType
<1>3. Control(p)'
    BY <1>2 DEF Control, Writes
<1>4. \A q \in Processes : Control(q)'
    BY <1>2, <1>3, ControlOthers DEF store
<1>5. Exclusive'
    BY <1>1, <1>2, IdleType DEF TypeInv, Exclusive
<1>6. StoreTypes' /\ Bounds'
    BY DEF TypeInv, StoreTypes, Bounds, store
<1>7. JobInv'
    BY DEF TypeInv, JobInv
<1> QED BY <1>2, <1>4, <1>5, <1>6, <1>7 DEF TypeInv

LEMMA EnterTypes ==
    ASSUME TypeInv, NEW p \in Processes, Enter(p)
    PROVE  TypeInv'
<1>1. work[p].step = "enter" /\ lock = Nobody /\ UNCHANGED <<store, users, crashes>>
    BY DEF Enter
<1>2. StoreTypes' /\ Bounds'
    BY <1>1 DEF TypeInv, StoreTypes, Bounds, store, users
<1>3. CASE Missing(p)
    <2>1. Return(p) /\ job' = IF p = Job THEN [Stopped("failed") EXCEPT !.at = work[p].id] ELSE job
        BY <1>3 DEF Enter, Raise
    <2>2. /\ work' \in [Processes -> Call]
          /\ work'[p] = Idle
          /\ \A q \in Processes : q # p => work'[q] = work[q]
          /\ Exclusive'
        BY <2>1, ReturnType DEF Exclusive
    <2>3. job' \in JobType /\ job'.build = job.build /\ JobInv'
        <3>1. Stopped("failed") \in JobType /\ Stopped("failed").build = job.build
            BY StoppedType DEF Phases
        <3>2. work[p].id \in Ids
            BY <1>1 DEF TypeInv, Control
        <3>3. CASE p # Job
            BY <2>1, <3>3 DEF TypeInv, JobInv
        <3>4. CASE p = Job
            <4>1. job'.phase = "failed" /\ job' \in JobType /\ job'.build = job.build
                BY <2>1, <3>1, <3>2, <3>4 DEF JobType, Stopped
            <4>2. job.build # 0
                BY <1>1, <3>4 DEF TypeInv, JobInv, Control
            <4> QED BY <4>1, <4>2 DEF JobInv
        <3> QED BY <3>3, <3>4
    <2>4. \A q \in Processes : Control(q)'
        <3>1. Control(p)'
            BY <2>2, IdleType DEF Control, Writes
        <3> QED BY <3>1, <1>1, <2>2, <2>3, ControlOthers DEF store
    <2> QED BY <1>2, <2>2, <2>3, <2>4 DEF TypeInv
<1>4. CASE ~Missing(p)
    <2>1. /\ lock' = p /\ UNCHANGED job
          /\ work' = [work EXCEPT ![p].step = FirstWrite(p), ![p].seen = meta[work[p].id]]
        BY <1>4 DEF Enter, Locks
    <2>2. work[p].id \in Ids /\ work[p] \in Call /\ meta[work[p].id] \in Meta
        BY <1>1 DEF TypeInv, Control, StoreTypes
    <2>3. FirstWrite(p) \in {"original", "current", "meta", "unlink"}
        BY DEF FirstWrite
    <2>4. FirstWrite(p) \in Steps /\ FirstWrite(p) \in WriteSteps
        BY <2>3 DEF Steps, WriteSteps
    <2>5. /\ work' \in [Processes -> Call]
          /\ work'[p].step = FirstWrite(p) /\ work'[p].id = work[p].id /\ work'[p].op = work[p].op
          /\ work'[p].text = work[p].text
          /\ \A q \in Processes : q # p => work'[q] = work[q]
        BY <2>1, <2>2, <2>4 DEF Call, TypeInv
    <2>6. work[p].id \in folder
        BY <1>1, <1>4, <2>2 DEF Missing, TypeInv, StoreTypes, Control
    <2>7. Control(p)'
        BY <1>1, <2>1, <2>3, <2>5, <2>6, <2>2 DEF Control, FirstWrite, store, TypeInv, Writes
    <2>8. Exclusive'
        BY <1>1, <2>1, <2>4, <2>5, FilesAssumption DEF TypeInv, Exclusive
    <2>9. \A q \in Processes : Control(q)'
        BY <2>1, <2>5, <2>7, <1>1, ControlOthers DEF store
    <2> QED BY <1>2, <2>1, <2>5, <2>8, <2>9 DEF TypeInv, JobInv
<1> QED BY <1>3, <1>4

\* The holder of the lock goes on, or returns.
LEMMA HolderTypes ==
    ASSUME TypeInv, NEW p \in Processes, work[p].step \in WriteSteps,
           UNCHANGED <<job, uploads, crashes>>, StoreTypes',
           \/ /\ UNCHANGED lock
              /\ work' \in [Processes -> Call]
              /\ work'[p].step \in WriteSteps
              /\ \A q \in Processes : q # p => work'[q] = work[q]
              /\ Control(p)'
           \/ Return(p)
    PROVE  TypeInv'
<1>1. lock = p
    BY DEF TypeInv, Exclusive
<1>2. Bounds' /\ JobInv'
    BY DEF TypeInv, JobInv, Bounds
<1>3. CASE Return(p)
    <2>1. /\ work' \in [Processes -> Call]
          /\ work'[p] = Idle
          /\ \A q \in Processes : q # p => work'[q] = work[q]
          /\ Exclusive'
        BY <1>3, ReturnType DEF Exclusive
    <2>2. Control(p)'
        BY <2>1, IdleType DEF Control, Writes
    <2>3. \A q \in Processes : Control(q)'
        BY <1>1, <2>1, <2>2, ControlOthers
    <2> QED BY <1>2, <2>1, <2>3 DEF TypeInv
<1>4. CASE ~Return(p)
    <2>1. \A q \in Processes : Control(q)'
        BY <1>1, <1>4, ControlOthers
    <2>2. Exclusive'
        BY <1>1, <1>4 DEF TypeInv, Exclusive
    <2> QED BY <1>2, <1>4, <2>1, <2>2 DEF TypeInv
<1> QED BY <1>3, <1>4

LEMMA WriteOriginalTypes ==
    ASSUME TypeInv, NEW p \in Processes, WriteOriginal(p)
    PROVE  TypeInv'
<1>1. /\ work[p].step = "original" /\ work[p].id \in folder /\ work[p].id \in Ids /\ work[p] \in Call
      /\ work[p].op \in {"create", "replace"}
    BY DEF WriteOriginal, TypeInv, Control, Writes
<1>2. "current" \in Steps /\ "current" \in WriteSteps /\ "original" \in WriteSteps
    BY DEF Steps, WriteSteps
<1>3. /\ work' \in [Processes -> Call]
      /\ work'[p] = [work[p] EXCEPT !.step = "current"]
      /\ \A q \in Processes : q # p => work'[q] = work[q]
    BY <1>2, GotoType DEF WriteOriginal
<1>4. /\ work'[p].step = "current" /\ work'[p].op = work[p].op /\ work'[p].id = work[p].id
      /\ work'[p].text = work[p].text
    BY <1>1, <1>3 DEF Call
<1>5. Control(p)'
    BY <1>1, <1>4 DEF WriteOriginal, Control, Writes, TypeInv
<1>6. StoreTypes'
    <2>1. work[p].text.upload \in 0..MaxUploads
        BY <1>1 DEF Call, Text
    <2> QED BY <1>1, <2>1 DEF WriteOriginal, TypeInv, StoreTypes, users
<1> QED BY <1>1, <1>2, <1>3, <1>4, <1>5, <1>6, HolderTypes DEF WriteOriginal, users

LEMMA WriteCurrentTypes ==
    ASSUME TypeInv, NEW p \in Processes, WriteCurrent(p)
    PROVE  TypeInv'
<1>1. /\ work[p].step = "current" /\ work[p].id \in folder /\ work[p].id \in Ids /\ work[p] \in Call
      /\ work[p].op \in {"create", "replace", "record"}
    BY DEF WriteCurrent, TypeInv, Control, Writes
<1>2. "meta" \in Steps /\ "meta" \in WriteSteps /\ "current" \in WriteSteps
    BY DEF Steps, WriteSteps
<1>3. /\ work' \in [Processes -> Call]
      /\ work'[p].step = "meta" /\ work'[p].op = work[p].op /\ work'[p].id = work[p].id
      /\ work'[p].text = work[p].text
      /\ \A q \in Processes : q # p => work'[q] = work[q]
    BY <1>1, <1>2 DEF WriteCurrent, TypeInv, Call, Meta
<1>5. Control(p)'
    BY <1>1, <1>3 DEF WriteCurrent, Control, Writes, TypeInv
<1>6. StoreTypes'
    <2>1. work[p].text \in Text
        BY <1>1 DEF Call
    <2> QED BY <1>1, <2>1 DEF WriteCurrent, TypeInv, StoreTypes, users
<1> QED BY <1>1, <1>2, <1>3, <1>5, <1>6, HolderTypes DEF WriteCurrent, users

\* What a call saves is a meta.json.
LEMMA SavedType ==
    ASSUME TypeInv, NEW p \in Processes, work[p].step = "meta"
    PROVE  Saved(p) \in Meta
<1>1. work[p].seen \in Meta /\ work[p].text.upload \in 0..MaxUploads /\ job.build \in 0..MaxBuilds
    BY DEF TypeInv, Call, JobType, Text
<1>2. CASE work[p].op \in {"create", "replace"}
    <2>1. Planned(work[p].id) \in BOOLEAN
        BY DEF Planned
    <2> QED BY <1>1, <1>2, <2>1, NoMetaType DEF Saved, Meta
<1>3. CASE work[p].op = "record"
    <2>1. job.build \in 1..MaxBuilds
        BY <1>1, <1>3, FilesAssumption DEF TypeInv, Control
    <2> QED BY <1>1, <1>3, <2>1 DEF Saved, Meta
<1>4. CASE work[p].op \notin {"create", "replace", "record"}
    BY <1>1, <1>4 DEF Saved, Meta
<1> QED BY <1>2, <1>3, <1>4

LEMMA SaveMetaTypes ==
    ASSUME TypeInv, NEW p \in Processes, SaveMeta(p)
    PROVE  TypeInv'
<1>1. work[p].step = "meta" /\ work[p].id \in folder /\ work[p].id \in Ids /\ work[p] \in Call
    BY DEF SaveMeta, TypeInv, Control, Writes
<1>2. "manage" \in Steps /\ "manage" \in WriteSteps /\ "meta" \in WriteSteps
    BY DEF Steps, WriteSteps
<1>3. StoreTypes'
    BY <1>1, SavedType DEF SaveMeta, TypeInv, StoreTypes, users
<1>4. CASE work[p].op = "create"
    <2>1. Goto(p, "manage") /\ UNCHANGED lock
        BY <1>4 DEF SaveMeta
    <2>2. /\ work' \in [Processes -> Call]
          /\ work'[p] = [work[p] EXCEPT !.step = "manage"]
          /\ \A q \in Processes : q # p => work'[q] = work[q]
        BY <1>2, <2>1, GotoType
    <2>3. /\ work'[p].step = "manage" /\ work'[p].op = work[p].op /\ work'[p].id = work[p].id
          /\ work'[p].text = work[p].text
        BY <1>1, <2>2 DEF Call
    <2>4. Control(p)'
        BY <1>1, <1>4, <2>3 DEF SaveMeta, Control, Writes, TypeInv
    <2> QED BY <1>1, <1>2, <1>3, <2>1, <2>2, <2>3, <2>4, HolderTypes DEF SaveMeta, users
<1>5. CASE work[p].op # "create"
    BY <1>1, <1>2, <1>3, <1>5, HolderTypes DEF SaveMeta, users
<1> QED BY <1>4, <1>5

LEMMA WriteManageTypes ==
    ASSUME TypeInv, NEW p \in Processes, WriteManage(p)
    PROVE  TypeInv'
<1>1. work[p].step = "manage" /\ work[p].id \in folder
    BY DEF WriteManage, TypeInv, Control, Writes
<1>2. "manage" \in WriteSteps
    BY DEF WriteSteps
<1>3. StoreTypes'
    BY <1>1 DEF WriteManage, TypeInv, StoreTypes
<1> QED BY <1>1, <1>2, <1>3, HolderTypes DEF WriteManage

LEMMA UnmanageTypes ==
    ASSUME TypeInv, NEW p \in Processes, Unmanage(p)
    PROVE  TypeInv'
<1>1. work[p].step = "unmanage" /\ "unmanage" \in WriteSteps
    BY DEF Unmanage, WriteSteps
<1>3. StoreTypes'
    BY DEF Unmanage, TypeInv, StoreTypes, users
<1> QED BY <1>1, <1>3, HolderTypes DEF Unmanage, users

LEMMA UnlinkTypes ==
    ASSUME TypeInv, NEW p \in Processes, Unlink(p)
    PROVE  TypeInv'
<1> DEFINE id == work[p].id
<1>1. work[p].step = "unlink" /\ id \in folder /\ id \in Ids /\ work[p] \in Call
    BY DEF Unlink, TypeInv, Control, Writes
<1>2. "unmanage" \in Steps /\ "unmanage" \in WriteSteps /\ "unlink" \in WriteSteps
    BY DEF Steps, WriteSteps
<1>3. UNCHANGED <<manage, lock, job, users, crashes>>
    BY DEF Unlink
<1>4. CASE UNCHANGED <<folder, work>>
    <2>1. StoreTypes'
        <3>1. original' \in [Ids -> 0..MaxUploads] /\ current' \in [Ids -> Text] /\ meta' \in [Ids -> Meta]
            BY <1>1, <1>4, NoTextType, NoMetaType, FilesAssumption DEF Unlink, TypeInv, StoreTypes
        <3>2. \A x \in Ids \ folder : original'[x] = original[x] /\ current'[x] = current[x] /\ meta'[x] = meta[x]
            BY <1>1, <1>4 DEF Unlink, TypeInv, StoreTypes
        <3> QED BY <1>3, <1>4, <3>1, <3>2 DEF TypeInv, StoreTypes, users
    <2>2. Control(p)'
        BY <1>3, <1>4 DEF TypeInv, Control
    <2> QED BY <1>1, <1>2, <1>3, <1>4, <2>1, <2>2, HolderTypes DEF users, TypeInv
<1>5. CASE ~UNCHANGED <<folder, work>>
    <2>1. /\ original[id] = 0 /\ current[id] = NoText /\ meta[id] = NoMeta
          /\ folder' = folder \ {id} /\ Goto(p, "unmanage") /\ UNCHANGED <<original, current, meta>>
        BY <1>5 DEF Unlink
    <2>2. /\ work' \in [Processes -> Call]
          /\ work'[p] = [work[p] EXCEPT !.step = "unmanage"]
          /\ \A q \in Processes : q # p => work'[q] = work[q]
        BY <1>2, <2>1, GotoType
    <2>3. /\ work'[p].step = "unmanage" /\ work'[p].op = work[p].op /\ work'[p].id = work[p].id
          /\ work'[p].text = work[p].text
        BY <1>1, <2>2 DEF Call
    <2>4. Control(p)'
        BY <1>1, <1>3, <2>1, <2>3 DEF Control, Writes, TypeInv
    <2>5. StoreTypes'
        BY <1>1, <1>3, <2>1 DEF TypeInv, StoreTypes, users
    <2> QED BY <1>1, <1>2, <1>3, <2>2, <2>3, <2>4, <2>5, HolderTypes DEF users
<1> QED BY <1>4, <1>5

LEMMA StepTypes ==
    ASSUME TypeInv, NEW p \in Processes, Step(p)
    PROVE  TypeInv'
BY EnterTypes, WriteOriginalTypes, WriteCurrentTypes, SaveMetaTypes, WriteManageTypes, UnlinkTypes,
   UnmanageTypes DEF Step

LEMMA CreateTypes ==
    ASSUME TypeInv, NEW r \in Requests, Create(r)
    PROVE  TypeInv'
<1>1. r \in Processes /\ r # Job /\ lock = Nobody /\ lock' = r /\ uploads' = uploads + 1 /\ uploads < MaxUploads
    BY FilesAssumption DEF Create, Locks, Processes
<1>2. PICK id \in Ids \ drawn :
         /\ folder' = folder \union {id}
         /\ drawn' = drawn \union {id}
         /\ Begin(r, "create", id, "original", [upload |-> uploads + 1, build |-> 0])
    BY DEF Create
<1>3. "original" \in WriteSteps /\ "original" \in Steps /\ "create" \in Ops
    BY DEF WriteSteps, Steps, Ops
<1>4. uploads' \in 0..MaxUploads /\ uploads' # 0 /\ [upload |-> uploads + 1, build |-> 0] \in Text
    BY <1>1, FilesAssumption DEF TypeInv, Bounds, Text
<1>5. /\ work' \in [Processes -> Call]
      /\ work'[r].op = "create" /\ work'[r].id = id /\ work'[r].step = "original"
      /\ work'[r].text = [upload |-> uploads + 1, build |-> 0]
      /\ \A q \in Processes : q # r => work'[q] = work[q]
    BY <1>1, <1>2, <1>3, <1>4, BeginType
<1>6. UNCHANGED <<original, current, meta, manage, job, links, crashes>>
    BY DEF Create
<1>7. StoreTypes'
    BY <1>2, <1>6 DEF TypeInv, StoreTypes
<1>8. Exclusive'
    BY <1>1, <1>3, <1>5, FilesAssumption DEF TypeInv, Exclusive
<1>9. Control(r)'
    BY <1>1, <1>2, <1>4, <1>5 DEF Control, Writes
<1>10. \A q \in Processes : Control(q)'
    BY <1>1, <1>5, <1>6, <1>9, ControlOthers
<1>11. Bounds' /\ JobInv' /\ job' \in JobType
    BY <1>4, <1>6 DEF TypeInv, Bounds, JobInv
<1> QED BY <1>5, <1>7, <1>8, <1>10, <1>11 DEF TypeInv

LEMMA RequestTypes ==
    ASSUME TypeInv, NEW r \in Requests, Replace(r) \/ Manage(r) \/ Fetch(r)
    PROVE  TypeInv'
<1>1. r \in Processes /\ r # Job /\ job \in JobType /\ uploads \in 0..MaxUploads /\ links \subseteq Ids
    BY FilesAssumption DEF Processes, TypeInv, Bounds, StoreTypes
<1>2. CASE Replace(r)
    <2>1. /\ uploads + 1 \in 0..MaxUploads /\ uploads + 1 # 0
          /\ [upload |-> uploads + 1, build |-> 0] \in Text
        BY <1>1, <1>2, FilesAssumption DEF Replace, Text
    <2>2. PICK id \in Ids : Begin(r, "replace", id, "enter", [upload |-> uploads + 1, build |-> 0])
        BY <1>2 DEF Replace
    <2> QED BY <1>1, <1>2, <2>1, <2>2, BeginTypes DEF Replace
<1>3. CASE Manage(r)
    <2>1. PICK id \in Ids, op \in {"touch", "delete"} : Begin(r, op, id, "enter", NoText)
        BY <1>3 DEF Manage
    <2> QED BY <1>1, <1>3, <2>1, NoTextType, BeginTypes DEF Manage, users
<1>4. CASE Fetch(r)
    <2>1. PICK id \in Ids : Begin(r, "touch", id, "enter", NoText)
        BY <1>1, <1>4 DEF Fetch
    <2> QED BY <1>1, <1>4, <2>1, NoTextType, BeginTypes DEF Fetch, users
<1> QED BY <1>2, <1>3, <1>4

\* The job changes what it knows, and no file.
LEMMA JobTypes ==
    ASSUME TypeInv, job' \in JobType, job'.build # 0, UNCHANGED <<store, lock, work, users, crashes>>
    PROVE  TypeInv'
<1>1. StoreTypes' /\ Exclusive' /\ Bounds' /\ JobInv'
    BY DEF TypeInv, StoreTypes, Exclusive, Bounds, JobInv, store, users
<1>2. \A p \in Processes : Control(p)'
    BY DEF TypeInv, Control, store
<1> QED BY <1>1, <1>2 DEF TypeInv

LEMMA StartJobTypes ==
    ASSUME TypeInv, StartJob
    PROVE  TypeInv'
<1>1. PICK build \in {job.build, job.build + 1} :
         /\ build \in 1..MaxBuilds
         /\ job' = [job EXCEPT !.phase = "expiring", !.left = folder, !.at = "none", !.build = build,
                               !.known = [id \in Ids |-> meta[id].upload]]
    BY DEF StartJob
<1>2. build \in 0..MaxBuilds /\ build # 0
    BY <1>1, FilesAssumption DEF TypeInv, JobType, JobInv
<1>3. folder \in SUBSET Ids /\ [id \in Ids |-> meta[id].upload] \in [Ids -> 0..MaxUploads]
    BY DEF TypeInv, StoreTypes, Meta
<1>4. job' \in JobType /\ job'.build = build
    BY <1>1, <1>2, <1>3 DEF TypeInv, JobType, Phases
<1> QED BY <1>2, <1>4, JobTypes DEF StartJob

\* The job begins a call for one file, or passes it over.
LEMMA JobCallTypes ==
    ASSUME TypeInv, job.phase # "idle", work[Job] = Idle, job' \in JobType, job'.build = job.build,
           NEW id \in Ids, NEW text \in Text, NEW op \in {"expire", "plan", "record"},
           NEW s \in {"enter", "readText"}, s = "readText" <=> op = "plan",
           Begin(Job, op, id, s, text) \/ UNCHANGED work,
           UNCHANGED <<store, lock, users, crashes>>
    PROVE  TypeInv'
<1>1. Job \in Processes /\ job.build # 0 /\ uploads \in 0..MaxUploads
    BY DEF Processes, TypeInv, JobInv, Bounds
<1>2. CASE UNCHANGED work
    BY <1>1, <1>2, JobTypes
<1>3. CASE Begin(Job, op, id, s, text)
    BY <1>1, <1>3, BeginTypes DEF users
<1> QED BY <1>2, <1>3

LEMMA JobStepTypes ==
    ASSUME TypeInv, Expire \/ NoBuild \/ ListFiles \/ Plan \/ Hunted \/ Record \/ EndJob
    PROVE  TypeInv'
<1>1. folder \in SUBSET Ids /\ job \in JobType /\ \A id \in Ids : job.plans[id] \in Text
    BY DEF TypeInv, StoreTypes, JobType
<1>2. CASE Expire
    <2>1. PICK id \in job.left :
             /\ job' = [job EXCEPT !.left = @ \ {id}]
             /\ Begin(Job, "expire", id, "enter", NoText) \/ UNCHANGED work
        BY <1>2 DEF Expire
    <2>2. id \in Ids /\ job' \in JobType /\ job'.build = job.build
        BY <1>1, <2>1 DEF JobType
    <2> QED BY <1>2, <2>1, <2>2, NoTextType, JobCallTypes DEF Expire
<1>3. CASE NoBuild \/ EndJob
    <2>1. /\ job' = Stopped("refused") \/ job' = Stopped("done")
          /\ UNCHANGED <<store, lock, work, users, crashes>>
          /\ job.build # 0
        BY <1>3 DEF NoBuild, EndJob, TypeInv, JobInv
    <2>2. job' \in JobType /\ job'.build = job.build
        BY <2>1, StoppedType DEF Phases
    <2> QED BY <2>1, <2>2, JobTypes
<1>4. CASE ListFiles \/ Hunted
    <2>1. /\ \E phase \in {"planning", "recording"}, left \in SUBSET Ids :
                job' = [job EXCEPT !.phase = phase, !.left = left]
          /\ job.build # 0
          /\ UNCHANGED <<store, lock, work, users, crashes>>
        BY <1>1, <1>4 DEF ListFiles, Hunted, TypeInv, JobInv
    <2>2. job' \in JobType /\ job'.build = job.build
        BY <1>1, <2>1 DEF JobType, Phases
    <2> QED BY <2>1, <2>2, JobTypes
<1>5. CASE Plan
    <2>1. PICK id \in job.left :
             /\ job' = [job EXCEPT !.left = @ \ {id}]
             /\ Begin(Job, "plan", id, "readText", NoText) \/ UNCHANGED work
        BY <1>5 DEF Plan
    <2>2. id \in Ids /\ job' \in JobType /\ job'.build = job.build
        BY <1>1, <2>1 DEF JobType
    <2> QED BY <1>5, <2>1, <2>2, NoTextType, JobCallTypes DEF Plan
<1>6. CASE Record
    <2>1. PICK id \in job.left :
             /\ job' = [job EXCEPT !.left = @ \ {id}, !.plans[id] = NoText]
             /\ Begin(Job, "record", id, "enter", job.plans[id])
        BY <1>6 DEF Record
    <2>2. id \in Ids /\ job' \in JobType /\ job'.build = job.build
        BY <1>1, <2>1, NoTextType DEF JobType
    <2> QED BY <1>1, <1>6, <2>1, <2>2, JobCallTypes DEF Record
<1> QED BY <1>2, <1>3, <1>4, <1>5, <1>6

LEMMA ReadTextTypes ==
    ASSUME TypeInv, ReadText
    PROVE  TypeInv'
<1> DEFINE id == work[Job].id
<1>1. /\ Job \in Processes /\ work[Job].step = "readText" /\ "readText" \notin WriteSteps
      /\ "idle" \notin WriteSteps
    BY DEF ReadText, Processes, WriteSteps
<1>2. id \in Ids /\ job.build # 0 /\ job.build \in 0..MaxBuilds /\ job \in JobType /\ current[id] \in Text
    BY <1>1 DEF TypeInv, Control, StoreTypes, JobType
<1>3. [current[id] EXCEPT !.build = job.build] \in Text
    BY <1>2 DEF Text
<1>4. job' \in JobType /\ job'.build = job.build /\ (job'.phase = job.phase)
    <2>1. PICK text \in Text : job' = IF current[id] = NoText THEN job ELSE [job EXCEPT !.plans[id] = text]
        BY <1>2, <1>3 DEF ReadText
    <2> QED BY <1>2, <2>1 DEF JobType
<1>5. work' = [work EXCEPT ![Job] = Idle] /\ UNCHANGED <<store, lock, users, crashes>>
    BY DEF ReadText
<1>6. /\ work' \in [Processes -> Call] /\ work'[Job] = Idle
      /\ \A q \in Processes : q # Job => work'[q] = work[q]
    BY <1>1, <1>5, IdleType DEF TypeInv
<1>7. Exclusive'
    BY <1>1, <1>5, <1>6, IdleType DEF TypeInv, Exclusive
<1>8. Control(Job)'
    BY <1>6, IdleType DEF Control, Writes
<1>9. \A q \in Processes : Control(q)'
    BY <1>1, <1>4, <1>5, <1>6, <1>8, ControlOthers DEF store
<1>10. StoreTypes' /\ Bounds' /\ JobInv'
    BY <1>4, <1>5 DEF TypeInv, StoreTypes, Bounds, JobInv, store, users
<1> QED BY <1>4, <1>6, <1>7, <1>9, <1>10 DEF TypeInv

LEMMA KillTypes ==
    ASSUME TypeInv, KillJob \/ KillService \/ Forgotten
    PROVE  TypeInv'
<1>1. CASE KillJob
    <2>1. Job \in Processes /\ Return(Job) /\ job' = Stopped("killed") /\ UNCHANGED <<store, users>>
        BY <1>1 DEF KillJob, Processes
    <2>2. /\ work' \in [Processes -> Call] /\ work'[Job] = Idle
          /\ \A q \in Processes : q # Job => work'[q] = work[q]
          /\ Exclusive'
        BY <2>1, ReturnType DEF Exclusive
    <2>3. job' \in JobType /\ job'.build = job.build /\ job.build # 0
        BY <1>1, <2>1, StoppedType DEF Phases, KillJob, Running, TypeInv, JobInv
    <2>4. Control(Job)'
        BY <2>2, IdleType DEF Control, Writes
    <2>5. \A q \in Processes : Control(q)'
        BY <2>1, <2>2, <2>3, <2>4, ControlOthers DEF store
    <2>6. StoreTypes' /\ Bounds' /\ JobInv'
        BY <1>1, <2>1, <2>3, FilesAssumption DEF KillJob, TypeInv, StoreTypes, Bounds, JobInv, store, users
    <2> QED BY <2>2, <2>3, <2>5, <2>6 DEF TypeInv
<1>2. CASE KillService
    <2>1. /\ work' = [p \in Processes |-> IF p = Job THEN work[p] ELSE Idle]
          /\ lock' = IF lock = Job THEN Job ELSE Nobody
          /\ UNCHANGED <<store, job, users>>
        BY <1>2 DEF KillService
    <2>2. work' \in [Processes -> Call] /\ "idle" \notin WriteSteps
        BY <2>1, IdleType DEF TypeInv, WriteSteps
    <2>3. Exclusive'
        BY <2>1, <2>2, IdleType, FilesAssumption DEF TypeInv, Exclusive, Processes
    <2>4. \A q \in Processes : Control(q)'
        BY <2>1, IdleType DEF TypeInv, Control, Writes, store
    <2>5. StoreTypes' /\ Bounds' /\ JobInv'
        BY <1>2, <2>1, FilesAssumption DEF KillService, TypeInv, StoreTypes, Bounds, JobInv, store, users
    <2> QED BY <2>1, <2>2, <2>3, <2>4, <2>5 DEF TypeInv
<1>3. CASE Forgotten
    <2>1. PICK id \in Ids : meta[id] # NoMeta /\ meta' = [meta EXCEPT ![id].old = TRUE]
        BY <1>3 DEF Forgotten
    <2>2. meta' \in [Ids -> Meta] /\ id \in folder
        BY <2>1 DEF TypeInv, StoreTypes, Meta
    <2>3. StoreTypes'
        BY <1>3, <2>1, <2>2 DEF Forgotten, TypeInv, StoreTypes, users
    <2>4. Exclusive' /\ Bounds' /\ JobInv' /\ UNCHANGED <<work, job, folder>>
        BY <1>3 DEF Forgotten, TypeInv, Exclusive, Bounds, JobInv, users
    <2>5. \A q \in Processes : Control(q)'
        BY <2>4 DEF TypeInv, Control
    <2> QED BY <2>3, <2>4, <2>5 DEF TypeInv
<1> QED BY <1>1, <1>2, <1>3

LEMMA NextTypes == TypeInv /\ [Next]_vars => TypeInv'
<1> SUFFICES ASSUME TypeInv, [Next]_vars PROVE TypeInv'
    OBVIOUS
<1>1. CASE UNCHANGED vars
    <2>1. StoreTypes' /\ Exclusive' /\ Bounds' /\ JobInv' /\ UNCHANGED <<work, job, folder>>
        BY <1>1 DEF vars, store, users, TypeInv, StoreTypes, Exclusive, Bounds, JobInv
    <2>2. \A q \in Processes : Control(q)'
        BY <2>1 DEF TypeInv, Control
    <2> QED BY <2>1, <2>2 DEF TypeInv
<1> QED BY <1>1, StepTypes, CreateTypes, RequestTypes, StartJobTypes, JobStepTypes, ReadTextTypes,
           KillTypes DEF Next

LEMMA InitTypes == Init => TypeInv
<1> SUFFICES ASSUME Init PROVE TypeInv
    OBVIOUS
<1>1. StoreTypes /\ Bounds
    BY NoTextType, NoMetaType, FilesAssumption DEF Init, StoreTypes, Bounds
<1>2. job \in JobType /\ JobInv
    <2>1. [id \in Ids |-> 0] \in [Ids -> 0..MaxUploads] /\ NoPlans \in [Ids -> Text]
        BY NoTextType, FilesAssumption DEF NoPlans
    <2> QED BY <2>1, FilesAssumption DEF Init, JobType, JobInv, Phases
<1>3. work \in [Processes -> Call] /\ \A p \in Processes : work[p] = Idle
    BY IdleType DEF Init
<1>4. Exclusive
    BY <1>3, IdleType, FilesAssumption DEF Init, Exclusive, WriteSteps
<1>5. \A p \in Processes : Control(p)
    BY <1>3, IdleType DEF Control, Writes
<1> QED BY <1>1, <1>2, <1>3, <1>4, <1>5 DEF TypeInv

LEMMA TypeInvariance == Spec => []TypeInv
BY InitTypes, NextTypes, PTL DEF Spec

\* The store, the calls and the job keep their types, and whoever writes,
\* and nobody else, has the lock.
THEOREM FilesTypes == Spec => []TypeOK
<1>1. TypeInv => TypeOK
    BY DEF TypeInv, TypeOK, StoreTypes, Exclusive, Bounds, Call, JobType
<1> QED BY <1>1, TypeInvariance, PTL

-----------------------------------------------------------------------------
(* A file that nobody writes is whole.                                      *)

Whole(id) ==
    /\ id \in folder =>
          /\ original[id] # 0 /\ meta[id].upload = original[id] /\ id \in manage
          /\ current[id].upload = original[id] \/ meta[id].updates # {}
    /\ id \notin folder => id \notin manage

Uploading(p) == work[p].op \in {"create", "replace"}

\* How far the writes of p are.
Holding(p) ==
    LET id == work[p].id
        s  == work[p].step
    IN  /\ s \in {"original", "current", "meta"} /\ work[p].op # "create" => id \in manage
        /\ s \in {"current", "meta"} /\ Uploading(p) => original[id] = work[p].text.upload
        /\ s = "meta" /\ Uploading(p) => current[id].upload = original[id]
        /\ s \in {"current", "meta"} /\ ~Uploading(p) =>
              original[id] # 0 /\ work[p].seen.upload = original[id]
        /\ s = "meta" /\ work[p].op = "touch" =>
              current[id].upload = original[id] \/ work[p].seen.updates # {}
        /\ s = "manage" =>
              original[id] # 0 /\ meta[id].upload = original[id] /\ current[id].upload = original[id]

Wholes ==
    /\ \A id \in Ids : Unlocked(id) => Whole(id)
    /\ lock # Nobody => Holding(lock)

\* A step that leaves the store and the holder of the lock alone.
LEMMA QuietWhole ==
    ASSUME TypeInv, Wholes, UNCHANGED <<store, lock>>,
           lock # Nobody => work'[lock] = work[lock]
    PROVE  Wholes'
<1>1. \A id \in Ids : Whole(id) => Whole(id)'
    BY DEF Whole, store
<1>2. \A id \in Ids : Unlocked(id)' => Unlocked(id)
    BY DEF Unlocked
<1>3. lock # Nobody => Holding(lock)'
    BY DEF Wholes, Holding, Uploading, store
<1> QED BY <1>1, <1>2, <1>3 DEF Wholes

\* A call that begins is not the holder's.
LEMMA BeginWhole ==
    ASSUME TypeInv, Wholes, NEW p \in Processes, work[p] = Idle \/ work[p].step \notin WriteSteps,
           UNCHANGED <<store, lock>>, \A q \in Processes : q # p => work'[q] = work[q]
    PROVE  Wholes'
<1>1. p # lock
    BY IdleType DEF TypeInv, Exclusive, WriteSteps
<1> QED BY <1>1, QuietWhole DEF TypeInv, Exclusive

\* A step of the holder, on the file it works on.
LEMMA HolderWhole ==
    ASSUME TypeInv, Wholes, NEW p \in Processes, lock = p, NEW id \in Ids, id = work[p].id,
           \A x \in Ids : x # id =>
              /\ original'[x] = original[x] /\ current'[x] = current[x] /\ meta'[x] = meta[x]
              /\ x \in folder' <=> x \in folder
              /\ x \in manage' <=> x \in manage,
           \/ lock' = p /\ work'[p].id = id /\ Holding(p)'
           \/ lock' = Nobody /\ Whole(id)'
    PROVE  Wholes'
<1>1. \A x \in Ids : x # id => Whole(x)'
    BY FilesAssumption DEF Wholes, Unlocked, Whole
<1>2. \A x \in Ids : Unlocked(x)' => Whole(x)'
    BY <1>1, FilesAssumption DEF Unlocked
<1> QED BY <1>2 DEF Wholes

LEMMA EnterWhole ==
    ASSUME TypeInv, Wholes, NEW p \in Processes, Enter(p)
    PROVE  Wholes'
<1> DEFINE id == work[p].id
<1>1. work[p].step = "enter" /\ lock = Nobody /\ UNCHANGED store /\ "enter" \notin WriteSteps
    BY DEF Enter, WriteSteps
<1>2. CASE Missing(p)
    <2>1. Return(p)
        BY <1>2 DEF Enter, Raise
    <2>2. lock' = Nobody /\ \A q \in Processes : q # p => work'[q] = work[q]
        BY <1>1, <2>1, FilesAssumption DEF Return, TypeInv
    <2> QED BY <1>1, <2>2, BeginWhole
<1>3. CASE ~Missing(p)
    <2>1. /\ lock' = p
          /\ work' = [work EXCEPT ![p].step = FirstWrite(p), ![p].seen = meta[id]]
        BY <1>3 DEF Enter, Locks
    <2>2. id \in Ids /\ work[p] \in Call
        BY <1>1 DEF TypeInv, Control
    <2>3. FirstWrite(p) \in {"original", "current", "meta", "unlink"}
        BY DEF FirstWrite
    <2>4. /\ work'[p].step = FirstWrite(p) /\ work'[p].id = id /\ work'[p].op = work[p].op
          /\ work'[p].text = work[p].text /\ work'[p].seen = meta[id]
        BY <2>1, <2>2 DEF Call, TypeInv
    <2>5. \A x \in Ids : Whole(x) /\ Whole(x)'
        BY <1>1 DEF Wholes, Unlocked, Whole, store
    <2>6. id \in folder
        BY <1>1, <1>3, <2>2 DEF Missing, TypeInv, StoreTypes, Control
    <2>7. work[p].op \in {"replace", "touch", "delete", "expire", "record"}
        BY <1>1 DEF TypeInv, Control
    <2>8. FirstWrite(p) = "original" => work[p].op = "replace"
        BY DEF FirstWrite
    <2>9. FirstWrite(p) \in {"current", "meta"} => work[p].op \in {"touch", "record"}
        BY <2>7 DEF FirstWrite
    <2>10. Holding(p)'
        BY <1>1, <2>2, <2>3, <2>4, <2>5, <2>6, <2>8, <2>9 DEF Holding, Uploading, Whole, store
    <2> QED BY <2>1, <2>5, <2>10 DEF Wholes
<1> QED BY <1>2, <1>3

\* What the holder of the lock is at.
LEMMA HolderIs ==
    ASSUME TypeInv, Wholes, NEW p \in Processes, work[p].step \in WriteSteps
    PROVE  lock = p /\ lock # Nobody /\ Holding(p) /\ work[p].id \in Ids /\ work[p] \in Call
BY FilesAssumption DEF TypeInv, Exclusive, Wholes, Control, WriteSteps

LEMMA WritesWhole ==
    ASSUME TypeInv, Wholes, NEW p \in Processes, WriteOriginal(p) \/ WriteCurrent(p)
    PROVE  Wholes'
<1> PICK id : id = work[p].id
    OBVIOUS
<1>1. work[p].step \in {"original", "current"} /\ work[p].step \in WriteSteps
    BY DEF WriteOriginal, WriteCurrent, WriteSteps
<1>2. lock = p /\ lock' = p /\ Holding(p) /\ id \in Ids /\ work[p] \in Call
    BY <1>1, HolderIs DEF WriteOriginal, WriteCurrent
<1>3. original \in [Ids -> 0..MaxUploads] /\ current \in [Ids -> Text] /\ work \in [Processes -> Call]
    BY DEF TypeInv, StoreTypes
<1>4. CASE WriteOriginal(p)
    <2>1. work'[p].step = "current" /\ work'[p].op = work[p].op /\ work'[p].id = id
          /\ work'[p].text = work[p].text /\ work'[p].seen = work[p].seen
        BY <1>2, <1>3, <1>4 DEF WriteOriginal, Goto, Call
    <2>2. original' = [original EXCEPT ![id] = work[p].text.upload] /\ UNCHANGED <<folder, current, meta, manage>>
        BY <1>4 DEF WriteOriginal
    <2>3. Uploading(p) /\ work[p].step = "original"
        BY <1>4 DEF WriteOriginal, Uploading, TypeInv, Control
    <2>4. Holding(p)'
        BY <1>2, <1>3, <2>1, <2>2, <2>3 DEF Holding, Uploading
    <2> QED BY <1>2, <1>3, <2>1, <2>2, <2>4, HolderWhole
<1>5. CASE WriteCurrent(p)
    <2>1. work'[p].step = "meta" /\ work'[p].op = work[p].op /\ work'[p].id = id
          /\ work'[p].text = work[p].text /\ work'[p].seen.upload = work[p].seen.upload
        BY <1>2, <1>3, <1>5 DEF WriteCurrent, Call, Meta
    <2>2. current' = [current EXCEPT ![id] = work[p].text] /\ UNCHANGED <<folder, original, meta, manage>>
        BY <1>5 DEF WriteCurrent
    <2>3. work[p].op \in {"create", "replace", "record"} /\ work[p].step = "current"
        BY <1>5 DEF WriteCurrent, TypeInv, Control
    <2>4. Holding(p)'
        BY <1>2, <1>3, <2>1, <2>2, <2>3 DEF Holding, Uploading
    <2> QED BY <1>2, <1>3, <2>1, <2>2, <2>4, HolderWhole
<1> QED BY <1>4, <1>5

LEMMA SaveMetaWhole ==
    ASSUME TypeInv, Wholes, NEW p \in Processes, SaveMeta(p)
    PROVE  Wholes'
<1> PICK id : id = work[p].id
    OBVIOUS
<1>1. work[p].step = "meta" /\ work[p].step \in WriteSteps
    BY DEF SaveMeta, WriteSteps
<1>2. lock = p /\ Holding(p) /\ id \in Ids /\ id \in folder /\ work[p] \in Call
    BY <1>1, HolderIs DEF TypeInv, Control, Writes
<1>3. meta \in [Ids -> Meta] /\ work[p].seen \in Meta /\ work[p].text \in Text /\ work \in [Processes -> Call]
    BY <1>2 DEF TypeInv, StoreTypes, Call
<1>4. meta' = [meta EXCEPT ![id] = Saved(p)] /\ UNCHANGED <<folder, original, current, manage>>
    BY DEF SaveMeta
<1>5. /\ Saved(p).upload = original[id] /\ original[id] # 0
      /\ current[id].upload = original[id] \/ Saved(p).updates # {}
    <2>1. CASE Uploading(p)
        <3>1. Saved(p).upload = work[p].text.upload
            BY <2>1, <1>3 DEF Saved, Uploading, NoMeta, Text
        <3>2. work[p].text.upload # 0
            BY <2>1 DEF Uploading, TypeInv, Control
        <3> QED BY <1>1, <1>2, <2>1, <3>1, <3>2 DEF Holding
    <2>2. CASE work[p].op = "record"
        BY <1>1, <1>2, <1>3, <2>2 DEF Saved, Holding, Uploading, Meta
    <2>3. CASE work[p].op = "touch"
        BY <1>1, <1>2, <1>3, <2>3 DEF Saved, Holding, Uploading, Meta
    <2> QED BY <1>1, <2>1, <2>2, <2>3 DEF TypeInv, Control, Uploading
<1>6. CASE work[p].op = "create"
    <2>1. Goto(p, "manage") /\ lock' = p
        BY <1>2, <1>6 DEF SaveMeta
    <2>2. work'[p].step = "manage" /\ work'[p].id = id
        BY <1>2, <1>3, <2>1 DEF Goto, Call
    <2>3. current[id].upload = original[id]
        BY <1>1, <1>2, <1>6 DEF Holding, Uploading
    <2>4. Holding(p)'
        BY <1>2, <1>3, <1>4, <1>5, <2>2, <2>3 DEF Holding
    <2> QED BY <1>2, <1>3, <1>4, <2>1, <2>2, <2>4, HolderWhole
<1>7. CASE work[p].op # "create"
    <2>1. lock' = Nobody
        BY <1>2, <1>7 DEF SaveMeta, Return
    <2>2. id \in manage
        BY <1>1, <1>2, <1>7 DEF Holding
    <2>3. Whole(id)'
        BY <1>2, <1>3, <1>4, <1>5, <2>2 DEF Whole
    <2> QED BY <1>2, <1>3, <1>4, <2>1, <2>3, HolderWhole
<1> QED BY <1>6, <1>7

LEMMA ManageWhole ==
    ASSUME TypeInv, Wholes, NEW p \in Processes, WriteManage(p) \/ Unmanage(p)
    PROVE  Wholes'
<1> PICK id : id = work[p].id
    OBVIOUS
<1>1. work[p].step \in {"manage", "unmanage"} /\ work[p].step \in WriteSteps
    BY DEF WriteManage, Unmanage, WriteSteps
<1>2. lock = p /\ Holding(p) /\ id \in Ids
    BY <1>1, HolderIs
<1>3. lock' = Nobody /\ UNCHANGED <<folder, original, current, meta>>
    BY <1>2 DEF WriteManage, Unmanage, Return
<1>4. manage' \ {id} = manage \ {id}
    BY DEF WriteManage, Unmanage
<1>5. Whole(id)'
    <2>1. CASE WriteManage(p)
        BY <1>2, <1>3, <2>1 DEF WriteManage, Holding, Whole, TypeInv, Control, Writes
    <2>2. CASE Unmanage(p)
        BY <1>2, <1>3, <2>2 DEF Unmanage, Whole, TypeInv, Control
    <2> QED BY <2>1, <2>2
<1> QED BY <1>2, <1>3, <1>4, <1>5, HolderWhole

LEMMA UnlinkWhole ==
    ASSUME TypeInv, Wholes, NEW p \in Processes, Unlink(p)
    PROVE  Wholes'
<1> PICK id : id = work[p].id
    OBVIOUS
<1>1. work[p].step = "unlink" /\ work[p].step \in WriteSteps
    BY DEF Unlink, WriteSteps
<1>2. lock = p /\ lock' = p /\ id \in Ids /\ work[p] \in Call /\ UNCHANGED manage
    BY <1>1, HolderIs DEF Unlink
<1>3. work'[p].id = id /\ work'[p].step \in {"unlink", "unmanage"}
    BY <1>1, <1>2 DEF Unlink, Goto, TypeInv, Call
<1>4. \A x \in Ids : x # id =>
              /\ original'[x] = original[x] /\ current'[x] = current[x] /\ meta'[x] = meta[x]
              /\ x \in folder' <=> x \in folder
    BY <1>2 DEF Unlink, TypeInv, StoreTypes
<1>5. Holding(p)'
    BY <1>3 DEF Holding
<1> QED BY <1>2, <1>3, <1>4, <1>5, HolderWhole

LEMMA CreateWhole ==
    ASSUME TypeInv, Wholes, NEW r \in Requests, Create(r)
    PROVE  Wholes'
<1>1. r \in Processes /\ lock = Nobody /\ lock' = r
    BY DEF Create, Locks, Processes
<1>2. PICK id \in Ids \ drawn :
         /\ folder' = folder \union {id}
         /\ work' = [work EXCEPT ![r] = [op |-> "create", id |-> id, step |-> "original",
                                         text |-> [upload |-> uploads + 1, build |-> 0], seen |-> NoMeta]]
    BY DEF Create, Begin
<1>3. work'[r].id = id /\ work'[r].step = "original" /\ work'[r].op = "create"
    BY <1>1, <1>2 DEF TypeInv
<1>4. UNCHANGED <<original, current, meta, manage>>
    BY DEF Create
<1>5. \A x \in Ids : x # id => Whole(x)'
    BY <1>1, <1>2, <1>4 DEF Wholes, Unlocked, Whole
<1>6. Holding(r)'
    BY <1>3 DEF Holding
<1> QED BY <1>1, <1>3, <1>5, <1>6, FilesAssumption DEF Wholes, Unlocked

LEMMA RestWhole ==
    ASSUME TypeInv, Wholes, UNCHANGED crashes,
           \/ \E r \in Requests : Replace(r) \/ Manage(r) \/ Fetch(r)
           \/ StartJob \/ Expire \/ NoBuild \/ ListFiles \/ Plan \/ ReadText \/ Hunted \/ Record \/ EndJob
           \/ UNCHANGED vars
    PROVE  Wholes'
<1>1. CASE \E r \in Requests : Replace(r) \/ Manage(r) \/ Fetch(r)
    <2>1. PICK r \in Requests : Replace(r) \/ Manage(r) \/ Fetch(r)
        BY <1>1
    <2>2. /\ r \in Processes /\ work[r] = Idle /\ UNCHANGED <<store, lock>>
          /\ \A q \in Processes : q # r => work'[q] = work[q]
        BY <2>1 DEF Processes, Replace, Manage, Fetch, Begin, TypeInv
    <2> QED BY <2>2, BeginWhole
<1>2. CASE StartJob \/ NoBuild \/ ListFiles \/ Hunted \/ EndJob \/ UNCHANGED vars
    <2>1. UNCHANGED <<store, lock, work>>
        BY <1>2 DEF StartJob, NoBuild, ListFiles, Hunted, EndJob, vars
    <2> QED BY <2>1, QuietWhole
<1>3. CASE Expire \/ Plan \/ ReadText \/ Record
    <2>1. /\ work[Job] = Idle \/ work[Job].step = "readText"
          /\ UNCHANGED <<store, lock>>
          /\ \A q \in Processes : q # Job => work'[q] = work[q]
        BY <1>3 DEF Processes, Expire, Plan, ReadText, Record, Begin, TypeInv
    <2>2. "readText" \notin WriteSteps
        BY DEF WriteSteps
    <2> QED BY <2>1, <2>2, BeginWhole DEF Processes
<1> QED BY <1>1, <1>2, <1>3

LEMMA ForgottenWhole ==
    ASSUME TypeInv, Wholes, Forgotten
    PROVE  Wholes'
<1>1. PICK id \in Ids : meta' = [meta EXCEPT ![id].old = TRUE]
    BY DEF Forgotten
<1>2. UNCHANGED <<folder, original, current, manage, lock, work>> /\ \A p \in Processes : work[p] = Idle
    BY DEF Forgotten
<1>3. lock = Nobody
    BY <1>2, IdleType DEF TypeInv, Exclusive, WriteSteps
<1>4. \A x \in Ids : meta'[x].upload = meta[x].upload /\ meta'[x].updates = meta[x].updates
    BY <1>1 DEF TypeInv, StoreTypes, Meta
<1> QED BY <1>2, <1>3, <1>4 DEF Wholes, Unlocked, Whole

\* Unless a program is killed.
LEMMA NextWhole ==
    ASSUME TypeInv, crashes = 0 => Wholes, [Next]_vars
    PROVE  crashes' = 0 => Wholes'
<1>1. CASE KillJob \/ KillService
    BY <1>1, FilesAssumption DEF KillJob, KillService, TypeInv, Bounds
<1>2. CASE ~(KillJob \/ KillService)
    <2>1. UNCHANGED crashes
        BY <1>2 DEF Next, Step, Enter, WriteOriginal, WriteCurrent, SaveMeta, WriteManage, Unlink, Unmanage,
            Create, Replace, Manage, Fetch, StartJob, Expire, NoBuild, ListFiles, Plan, ReadText, Hunted,
            Record, EndJob, Forgotten, vars
    <2> SUFFICES ASSUME Wholes PROVE Wholes'
        BY <2>1
    <2>2. CASE \E p \in Processes : Step(p)
        BY <2>2, EnterWhole, WritesWhole, SaveMetaWhole, ManageWhole, UnlinkWhole DEF Step
    <2>3. CASE \E r \in Requests : Create(r)
        BY <2>3, CreateWhole
    <2>4. CASE Forgotten
        BY <2>4, ForgottenWhole
    <2> QED BY <1>2, <2>1, <2>2, <2>3, <2>4, RestWhole DEF Next
<1> QED BY <1>1, <1>2

-----------------------------------------------------------------------------
(* A job that ends has updated every file that stayed as it was.            *)

\* A call whose upload is not in the history yet.
Sending(p) ==
    work[p].op \in {"create", "replace"} /\ work[p].step \in {"enter", "original", "current", "meta"}

\* An upload that is on its way is nobody else's and in no history.
Fresh ==
    /\ \A p \in Processes : Sending(p) =>
          /\ work[p].text.upload \in 1..uploads
          /\ \A id \in Ids : meta[id].upload # work[p].text.upload /\ job.known[id] # work[p].text.upload
    /\ \A p, q \in Processes : Sending(p) /\ Sending(q) /\ work[p].text.upload = work[q].text.upload => p = q
    /\ \A id \in Ids : meta[id].upload \in 0..uploads /\ job.known[id] \in 0..uploads

\* The holder of the lock still knows what meta.json says.
Seen(p) ==
    work[p].step \in {"original", "current", "meta"} =>
        /\ work[p].seen.upload = meta[work[p].id].upload
        /\ work[p].seen.updates = meta[work[p].id].updates
        /\ work[p].seen.raced = meta[work[p].id].raced

\* What the job is at, phase by phase.
JobSteps ==
    /\ work[Job].step # "idle" =>
          \/ job.phase = "expiring" /\ work[Job].op = "expire" /\ work[Job].step # "readText"
          \/ job.phase = "planning" /\ work[Job].op = "plan" /\ work[Job].step = "readText"
          \/ job.phase = "recording" /\ work[Job].op = "record" /\ work[Job].step \in {"enter", "current", "meta"}
    /\ \A r \in Requests : work[r].op \notin {"plan", "expire"} /\ work[r].step # "readText"

AsItWas(id) ==
    job.known[id] # 0 /\ meta[id].upload = job.known[id] /\ current[id].upload = job.known[id]

At(id, op) == work[Job].op = op /\ work[Job].step # "idle" /\ work[Job].id = id

\* A file that is as it was has its update, or the job still comes to it.
Reached(id) ==
    \/ job.build \in meta[id].updates
    \/ job.phase = "planning" /\ (id \in job.left \/ At(id, "plan") \/ job.plans[id] # NoText)
    \/ job.phase = "recording" /\ (id \in job.left \/ At(id, "record"))
    \/ job.phase \notin {"planning", "recording", "done"}

UpdateInv ==
    /\ Fresh /\ JobSteps
    /\ \A p \in Processes : Seen(p)
    /\ \A id \in Ids : AsItWas(id) => Reached(id)

\* The job only knows files that were created.
Listed ==
    /\ job.left \subseteq drawn
    /\ \A id \in Ids : job.plans[id] # NoText => id \in drawn
    /\ work[Job].step # "idle" => work[Job].id \in drawn
    /\ job.phase = "failed" => job.at \in drawn

\* A text is somebody's upload.
Texts ==
    /\ \A id \in Ids : (current[id].upload = 0 => current[id] = NoText)
                       /\ (job.plans[id].upload = 0 => job.plans[id] = NoText)
    /\ \A p \in Processes : work[p].op = "record" => work[p].text.upload # 0
    /\ job.phase = "recording" => \A id \in job.left : job.plans[id] # NoText

\* The text of a file is missing only while its first one is written, or
\* while the file is deleted.
Served ==
    \A id \in folder :
        \/ current[id] # NoText
        \/ ~Unlocked(id) /\ work[lock].step \in {"original", "current", "unlink"}

FailInv == Served /\ (job.phase = "failed" => job.at \notin folder)

-----------------------------------------------------------------------------
(* What a step of a call changes.                                           *)

LEMMA IdleIs == Idle.op = "none" /\ Idle.step = "idle" /\ Idle.id = "none"
BY DEF Idle

\* The call of p goes on as the same call, or ends; only Enter can fail the job.
LEMMA StepIs ==
    ASSUME TypeInv, NEW p \in Processes, Step(p)
    PROVE  /\ \A q \in Processes : q # p => work'[q] = work[q]
           /\ UNCHANGED <<uploads, drawn, crashes>>
           /\ work[p].step \in WriteSteps \union {"enter"}
           /\ work'[p].step \in WriteSteps \union {"idle"}
           /\ \/ work'[p] = Idle
              \/ work'[p].op = work[p].op /\ work'[p].id = work[p].id /\ work'[p].text = work[p].text
           /\ Sending(p)' => Sending(p)
           /\ \/ job' = job
              \/ /\ p = Job /\ work[p].step = "enter" /\ Missing(p) /\ work'[p] = Idle /\ lock = Nobody
                 /\ job' = [Stopped("failed") EXCEPT !.at = work[p].id]
                 /\ UNCHANGED store
<1> USE IdleIs
<1>1. work \in [Processes -> Call] /\ work[p] \in Call
    BY DEF TypeInv
<1>2. CASE Enter(p) /\ Missing(p)
    BY <1>1, <1>2 DEF Enter, Raise, Return, Sending, store, users
<1>3. CASE Enter(p) /\ ~Missing(p)
    <2>1. FirstWrite(p) \in {"original", "current", "meta", "unlink"}
        BY DEF FirstWrite
    <2>2. work' = [work EXCEPT ![p].step = FirstWrite(p), ![p].seen = meta[work[p].id]]
        BY <1>3 DEF Enter
    <2>3. /\ work'[p].op = work[p].op /\ work'[p].id = work[p].id /\ work'[p].text = work[p].text
          /\ work'[p].step = FirstWrite(p)
          /\ \A q \in Processes : q # p => work'[q] = work[q]
        BY <1>1, <2>2 DEF Call
    <2> QED BY <1>3, <2>1, <2>3 DEF Enter, Sending, WriteSteps, users
<1>4. CASE WriteOriginal(p) \/ WriteCurrent(p)
    <2>1. /\ work'[p].op = work[p].op /\ work'[p].id = work[p].id /\ work'[p].text = work[p].text
          /\ work'[p].step \in {"current", "meta"}
          /\ \A q \in Processes : q # p => work'[q] = work[q]
        BY <1>1, <1>4 DEF WriteOriginal, WriteCurrent, Goto, Call
    <2> QED BY <1>4, <2>1 DEF WriteOriginal, WriteCurrent, Sending, WriteSteps, users
<1>5. CASE SaveMeta(p)
    <2>1. \/ work'[p] = Idle
          \/ /\ work'[p].op = work[p].op /\ work'[p].id = work[p].id /\ work'[p].text = work[p].text
             /\ work'[p].step = "manage"
        BY <1>1, <1>5 DEF SaveMeta, Goto, Return, Call
    <2>2. \A q \in Processes : q # p => work'[q] = work[q]
        BY <1>1, <1>5 DEF SaveMeta, Goto, Return
    <2> QED BY <1>5, <2>1, <2>2 DEF SaveMeta, Sending, WriteSteps, users
<1>6. CASE WriteManage(p) \/ Unmanage(p)
    BY <1>1, <1>6 DEF WriteManage, Unmanage, Return, Sending, WriteSteps, users
<1>7. CASE Unlink(p)
    <2>1. /\ work'[p].op = work[p].op /\ work'[p].id = work[p].id /\ work'[p].text = work[p].text
          /\ work'[p].step \in {"unlink", "unmanage"}
          /\ \A q \in Processes : q # p => work'[q] = work[q]
        BY <1>1, <1>7 DEF Unlink, Goto, Call
    <2> QED BY <1>7, <2>1 DEF Unlink, Sending, WriteSteps, users
<1> QED BY <1>2, <1>3, <1>4, <1>5, <1>6, <1>7 DEF Step

\* What a call knows of meta.json it read when it got the lock.
LEMMA SeenIs ==
    ASSUME TypeInv, NEW p \in Processes, Step(p), work'[p].step \in {"original", "current", "meta"}
    PROVE  /\ UNCHANGED meta /\ work'[p].id = work[p].id
           /\ \/ work'[p].seen = meta[work[p].id]
              \/ /\ work[p].step \in {"original", "current", "meta"}
                 /\ work'[p].seen.upload = work[p].seen.upload
                 /\ work'[p].seen.updates = work[p].seen.updates
                 /\ work'[p].seen.raced = work[p].seen.raced
<1> USE IdleIs
<1>1. work \in [Processes -> Call] /\ work[p] \in Call
    BY DEF TypeInv
<1>2. CASE Enter(p) /\ Missing(p)
    BY <1>1, <1>2 DEF Enter, Raise, Return
<1>3. CASE Enter(p) /\ ~Missing(p)
    <2>1. work' = [work EXCEPT ![p].step = FirstWrite(p), ![p].seen = meta[work[p].id]]
        BY <1>3 DEF Enter
    <2> QED BY <1>1, <1>3, <2>1 DEF Enter, Call, store
<1>4. CASE WriteOriginal(p)
    BY <1>1, <1>4 DEF WriteOriginal, Goto, Call
<1>5. CASE WriteCurrent(p)
    BY <1>1, <1>5 DEF WriteCurrent, Call, Meta
<1>6. CASE SaveMeta(p) \/ WriteManage(p) \/ Unmanage(p) \/ Unlink(p)
    BY <1>1, <1>6 DEF SaveMeta, WriteManage, Unmanage, Unlink, Return, Goto, Call
<1> QED BY <1>2, <1>3, <1>4, <1>5, <1>6 DEF Step

\* Only the holder of the lock writes to a file, to the one it works on.
LEMMA WritesAre ==
    ASSUME TypeInv, NEW p \in Processes, Step(p)
    PROVE  /\ \/ UNCHANGED meta
              \/ work[p].step = "meta" /\ meta' = [meta EXCEPT ![work[p].id] = Saved(p)]
              \/ work[p].step = "unlink" /\ meta' = [meta EXCEPT ![work[p].id] = NoMeta]
           /\ \/ UNCHANGED current
              \/ work[p].step = "current" /\ current' = [current EXCEPT ![work[p].id] = work[p].text]
              \/ work[p].step = "unlink" /\ current' = [current EXCEPT ![work[p].id] = NoText]
           /\ \/ UNCHANGED folder
              \/ work[p].step = "unlink" /\ folder' = folder \ {work[p].id}
           /\ work[p].id \in Ids
           /\ work[p].step \in WriteSteps => lock = p
<1>1. work[p].step \in WriteSteps \union {"enter"} /\ work[p].step # "idle"
    BY StepIs DEF WriteSteps
<1>2. work[p].id \in Ids /\ (work[p].step \in WriteSteps => lock = p)
    BY <1>1 DEF TypeInv, Control, Exclusive
<1>3. CASE Unlink(p)
    BY <1>2, <1>3 DEF Unlink
<1>4. CASE Enter(p)
    BY <1>2, <1>4 DEF Enter, store
<1>5. CASE WriteOriginal(p) \/ WriteCurrent(p) \/ SaveMeta(p) \/ WriteManage(p) \/ Unmanage(p)
    BY <1>2, <1>5 DEF WriteOriginal, WriteCurrent, SaveMeta, WriteManage, Unmanage
<1> QED BY <1>3, <1>4, <1>5 DEF Step

\* What is saved is the call's own upload, or what was there and more.
LEMMA SavedIs ==
    ASSUME TypeInv, NEW p \in Processes, Seen(p), work[p].step = "meta"
    PROVE  /\ Sending(p) => Saved(p).upload = work[p].text.upload /\ Saved(p).raced = Planned(work[p].id)
           /\ ~Sending(p) =>
                 /\ Saved(p).upload = meta[work[p].id].upload
                 /\ Saved(p).raced = meta[work[p].id].raced
                 /\ meta[work[p].id].updates \subseteq Saved(p).updates
                 /\ work[p].op = "record" => job.build \in Saved(p).updates
<1>1. work[p].seen \in Meta /\ work[p].text.upload \in 0..MaxUploads /\ NoMeta \in Meta
    BY NoMetaType DEF TypeInv, Call, Text
<1>2. CASE work[p].op \in {"create", "replace"}
    BY <1>1, <1>2 DEF Saved, Sending, NoMeta
<1>3. CASE work[p].op = "record"
    BY <1>1, <1>3 DEF Saved, Sending, Seen, Meta
<1>4. CASE work[p].op \notin {"create", "replace", "record"}
    BY <1>1, <1>4 DEF Saved, Sending, Seen, Meta
<1> QED BY <1>2, <1>3, <1>4

-----------------------------------------------------------------------------
(* Uploads are told apart.                                                  *)

\* No call has a new upload, and no history an upload that is on its way.
LEMMA FreshKept ==
    ASSUME TypeInv, Fresh, UNCHANGED uploads,
           \A p \in Processes : Sending(p)' => Sending(p) /\ work'[p].text = work[p].text,
           \A id \in Ids : meta'[id].upload \in {0, meta[id].upload},
           \A id \in Ids : job'.known[id] \in {job.known[id], meta[id].upload}
    PROVE  Fresh'
<1>1. \A p \in Processes : Sending(p) => work[p].text.upload \in 1..uploads
    BY DEF Fresh
<1>2. \A p \in Processes : Sending(p)' =>
          /\ work'[p].text.upload \in 1..uploads
          /\ \A id \in Ids : meta'[id].upload # work'[p].text.upload /\ job'.known[id] # work'[p].text.upload
    <2> SUFFICES ASSUME NEW p \in Processes, Sending(p)', NEW id \in Ids
                 PROVE  /\ work'[p].text.upload \in 1..uploads
                        /\ meta'[id].upload # work'[p].text.upload /\ job'.known[id] # work'[p].text.upload
        BY <1>1
    <2>1. Sending(p) /\ work'[p].text = work[p].text /\ work[p].text.upload \in 1..uploads
        BY <1>1
    <2>2. meta[id].upload # work[p].text.upload /\ job.known[id] # work[p].text.upload
        BY <2>1 DEF Fresh
    <2> QED BY <2>1, <2>2
<1>3. \A p, q \in Processes : Sending(p)' /\ Sending(q)' /\ work'[p].text.upload = work'[q].text.upload => p = q
    BY DEF Fresh
<1>4. \A id \in Ids : meta'[id].upload \in 0..uploads /\ job'.known[id] \in 0..uploads
    BY DEF Fresh, TypeInv, Bounds
<1> QED BY <1>2, <1>3, <1>4 DEF Fresh

\* An upload gets into the history that its call is about.
LEMMA SentFresh ==
    ASSUME TypeInv, Fresh, NEW p \in Processes, Sending(p), ~Sending(p)', NEW id \in Ids,
           UNCHANGED uploads, job'.known = job.known,
           \A q \in Processes : q # p => work'[q] = work[q],
           \A x \in Ids : x # id => meta'[x] = meta[x],
           meta'[id].upload = work[p].text.upload
    PROVE  Fresh'
<1>1. \A q \in Processes : Sending(q)' => q # p /\ Sending(q) /\ work'[q] = work[q]
    BY DEF Sending
<1>2. \A q \in Processes : Sending(q)' => work[q].text.upload # work[p].text.upload
    BY <1>1 DEF Fresh
<1>3. \A q \in Processes : Sending(q)' =>
          /\ work'[q].text.upload \in 1..uploads'
          /\ \A x \in Ids : meta'[x].upload # work'[q].text.upload /\ job'.known[x] # work'[q].text.upload
    BY <1>1, <1>2 DEF Fresh
<1>4. \A q, r \in Processes : Sending(q)' /\ Sending(r)' /\ work'[q].text.upload = work'[r].text.upload => q = r
    BY <1>1 DEF Fresh
<1>5. \A x \in Ids : meta'[x].upload \in 0..uploads' /\ job'.known[x] \in 0..uploads'
    BY DEF Fresh, TypeInv, Bounds
<1> QED BY <1>3, <1>4, <1>5 DEF Fresh

\* A call with the next upload begins.
LEMMA NextUpload ==
    ASSUME TypeInv, Fresh, NEW p \in Processes, ~Sending(p),
           uploads' = uploads + 1, work'[p].text.upload = uploads + 1,
           \A q \in Processes : q # p => work'[q] = work[q],
           UNCHANGED <<meta, job>>
    PROVE  Fresh'
<1>1. uploads \in Nat
    BY FilesAssumption DEF TypeInv, Bounds
<1>2. \A q \in Processes : Sending(q)' /\ q # p =>
          /\ work'[q].text.upload \in 1..uploads
          /\ \A x \in Ids : meta[x].upload # work'[q].text.upload /\ job.known[x] # work'[q].text.upload
    BY DEF Fresh, Sending
<1>3. \A x \in Ids : meta[x].upload \in 0..uploads /\ job.known[x] \in 0..uploads
    BY DEF Fresh
<1>4. \A q \in Processes : Sending(q)' =>
          /\ work'[q].text.upload \in 1..uploads'
          /\ \A x \in Ids : meta'[x].upload # work'[q].text.upload /\ job'.known[x] # work'[q].text.upload
    BY <1>1, <1>2, <1>3
<1>5. \A q, r \in Processes : Sending(q)' /\ Sending(r)' /\ work'[q].text.upload = work'[r].text.upload => q = r
    <2>1. \A q \in Processes : Sending(q)' /\ q # p => Sending(q) /\ work'[q].text.upload = work[q].text.upload
        BY DEF Sending
    <2>2. \A q \in Processes : Sending(q)' /\ q # p => work'[q].text.upload # work'[p].text.upload
        BY <1>1, <1>2
    <2> QED BY <2>1, <2>2 DEF Fresh
<1>6. \A x \in Ids : meta'[x].upload \in 0..uploads' /\ job'.known[x] \in 0..uploads'
    BY <1>1, <1>3
<1> QED BY <1>4, <1>5, <1>6 DEF Fresh

\* An action of the programs that is no step of a call leaves the files alone.
LEMMA OthersAre ==
    ASSUME TypeInv,
           \/ \E r \in Requests : Manage(r) \/ Fetch(r)
           \/ StartJob \/ Expire \/ NoBuild \/ ListFiles \/ Plan \/ ReadText \/ Hunted \/ Record \/ EndJob
           \/ KillJob \/ KillService \/ UNCHANGED vars
    PROVE  /\ UNCHANGED <<store, uploads>>
           /\ \A p \in Processes : \/ work'[p] = work[p]
                                   \/ work'[p] = Idle
                                   \/ /\ work[p] = Idle
                                      /\ work'[p].step \in {"enter", "readText"}
                                      /\ work'[p].op \in {"touch", "delete", "expire", "plan", "record"}
           /\ job'.known = job.known \/ StartJob
<1>1. CASE \E r \in Requests : Manage(r) \/ Fetch(r)
    BY <1>1 DEF Manage, Fetch, Begin, TypeInv, users, Processes
<1>2. CASE StartJob \/ UNCHANGED vars
    BY <1>2 DEF StartJob, vars, users
<1>3. CASE NoBuild \/ ListFiles \/ Hunted \/ EndJob
    BY <1>3 DEF NoBuild, ListFiles, Hunted, EndJob, Stopped, TypeInv, JobType, users
<1>4. CASE Expire \/ Plan \/ ReadText \/ Record
    <2>1. job'.known = job.known
        BY <1>4 DEF Expire, Plan, ReadText, Record, TypeInv, JobType
    <2>2. UNCHANGED <<store, uploads>>
        BY <1>4 DEF Expire, Plan, ReadText, Record, users
    <2>3. work \in [Processes -> Call] /\ Job \in Processes
        BY DEF TypeInv, Processes
    <2>4. CASE Expire \/ Plan
        BY <1>4, <2>1, <2>2, <2>3, <2>4 DEF Expire, Plan, Begin
    <2>5. CASE ReadText
        BY <1>4, <2>1, <2>2, <2>3, <2>5 DEF ReadText
    <2>6. CASE Record
        <3>1. PICK id \in job.left : Begin(Job, "record", id, "enter", job.plans[id])
            BY <2>6 DEF Record
        <3>2. work[Job] = Idle
            BY <2>6 DEF Record
        <3>3. work'[Job].step = "enter" /\ work'[Job].op = "record" /\ \A p \in Processes : p # Job => work'[p] = work[p]
            BY <2>3, <3>1 DEF Begin
        <3> QED BY <2>1, <2>2, <3>2, <3>3
    <2> QED BY <1>4, <2>4, <2>5, <2>6
<1>5. CASE KillJob \/ KillService
    BY <1>5 DEF KillJob, KillService, Return, Stopped, TypeInv, JobType, users, Processes
<1> QED BY <1>1, <1>2, <1>3, <1>4, <1>5

LEMMA NextFresh ==
    ASSUME TypeInv, Fresh, \A p \in Processes : Seen(p), [Next]_vars
    PROVE  Fresh'
<1>1. CASE \E p \in Processes : Step(p)
    <2>1. PICK p \in Processes : Step(p)
        BY <1>1
    <2>2. /\ \A q \in Processes : q # p => work'[q] = work[q]
          /\ UNCHANGED uploads /\ job'.known = job.known
          /\ \A q \in Processes : Sending(q)' => Sending(q) /\ work'[q].text = work[q].text
        <3>1. job'.known = job.known
            BY <2>1, StepIs DEF Stopped, TypeInv, JobType
        <3>2. work'[p] = Idle => ~Sending(p)'
            BY IdleIs DEF Sending
        <3> QED BY <2>1, <3>1, <3>2, StepIs DEF Sending
    <2>3. meta \in [Ids -> Meta] /\ NoMeta.upload = 0 /\ work[p].id \in Ids
        BY <2>1, WritesAre DEF TypeInv, StoreTypes, NoMeta
    <2>4. CASE work[p].step # "meta" \/ ~Sending(p)
        <3>1. \A id \in Ids : meta'[id].upload \in {0, meta[id].upload}
            BY <2>1, <2>3, <2>4, WritesAre, SavedIs
        <3> QED BY <2>2, <3>1, FreshKept
    <2>5. CASE work[p].step = "meta" /\ Sending(p)
        <3>1. SaveMeta(p)
            BY <2>1, <2>5 DEF Step, Enter, WriteOriginal, WriteCurrent, WriteManage, Unlink, Unmanage
        <3>2. ~Sending(p)'
            BY <2>5, <3>1, IdleIs DEF SaveMeta, Goto, Return, Sending, TypeInv, Call
        <3>3. meta' = [meta EXCEPT ![work[p].id] = Saved(p)] /\ Saved(p).upload = work[p].text.upload
            BY <2>5, <3>1, SavedIs DEF SaveMeta
        <3> QED BY <2>2, <2>3, <2>5, <3>2, <3>3, SentFresh
    <2> QED BY <2>4, <2>5
<1>2. CASE \E r \in Requests : Create(r) \/ Replace(r)
    <2>1. PICK r \in Requests : Create(r) \/ Replace(r)
        BY <1>2
    <2>2. /\ r \in Processes /\ work[r] = Idle /\ uploads' = uploads + 1 /\ UNCHANGED <<meta, job>>
          /\ work'[r].text = [upload |-> uploads + 1, build |-> 0]
          /\ \A q \in Processes : q # r => work'[q] = work[q]
        BY <2>1 DEF Create, Replace, Begin, Processes, TypeInv, store
    <2> QED BY <2>2, IdleIs, NextUpload DEF Sending
<1>3. CASE Forgotten
    <2>1. \A id \in Ids : meta'[id].upload = meta[id].upload
        BY <1>3 DEF Forgotten, TypeInv, StoreTypes, Meta
    <2> QED BY <1>3, <2>1, FreshKept DEF Forgotten, Sending, users
<1>4. CASE \/ \E r \in Requests : Manage(r) \/ Fetch(r)
           \/ StartJob \/ Expire \/ NoBuild \/ ListFiles \/ Plan \/ ReadText \/ Hunted \/ Record \/ EndJob
           \/ KillJob \/ KillService \/ UNCHANGED vars
    <2>1. UNCHANGED <<store, uploads>>
        BY <1>4, OthersAre
    <2>2. \A p \in Processes : Sending(p)' => Sending(p) /\ work'[p].text = work[p].text
        BY <1>4, OthersAre, IdleIs DEF Sending
    <2>3. \A id \in Ids : job'.known[id] \in {job.known[id], meta[id].upload}
        <3>1. CASE StartJob
            <4>1. job'.known = [id \in Ids |-> meta[id].upload]
                BY <3>1 DEF StartJob, TypeInv, JobType
            <4> QED BY <4>1
        <3> QED BY <1>4, <3>1, OthersAre
    <2> QED BY <2>1, <2>2, <2>3, FreshKept DEF store
<1> QED BY <1>1, <1>2, <1>3, <1>4 DEF Next

\* Nobody else writes meta.json while a call has the lock.
LEMMA NextSeen ==
    ASSUME TypeInv, \A p \in Processes : Seen(p), [Next]_vars
    PROVE  \A p \in Processes : Seen(p)'
<1> DEFINE Reads == {"original", "current", "meta"}
<1>1. Reads \subseteq WriteSteps /\ "idle" \notin Reads /\ "enter" \notin Reads /\ "readText" \notin Reads
    BY DEF WriteSteps
<1>2. CASE \E p \in Processes : Step(p)
    <2>1. PICK p \in Processes : Step(p)
        BY <1>2
    <2>2. Seen(p)'
        BY <2>1, SeenIs DEF Seen
    <2>3. ASSUME NEW q \in Processes, q # p PROVE Seen(q)'
        <3>1. work'[q] = work[q]
            BY <2>1, <2>3, StepIs
        <3>2. CASE work[q].step \in Reads
            <4>1. lock = q
                BY <1>1, <3>2 DEF TypeInv, Exclusive
            <4>2. work[p].step \notin WriteSteps
                BY <2>3, <4>1 DEF TypeInv, Exclusive
            <4>3. UNCHANGED meta
                BY <2>1, <4>2, WritesAre DEF WriteSteps
            <4> QED BY <3>1, <4>3 DEF Seen
        <3> QED BY <3>1, <3>2 DEF Seen
    <2> QED BY <2>2, <2>3
<1>3. CASE \E r \in Requests : Create(r)
    <2>1. PICK r \in Requests : Create(r)
        BY <1>3
    <2>2. PICK id \in Ids \ drawn : Begin(r, "create", id, "original", [upload |-> uploads + 1, build |-> 0])
        BY <2>1 DEF Create
    <2>3. r \in Processes /\ lock = Nobody /\ UNCHANGED meta
        BY <2>1 DEF Create, Processes
    <2>4. work'[r].seen = NoMeta /\ work'[r].id = id /\ \A q \in Processes : q # r => work'[q] = work[q]
        BY <2>2, <2>3 DEF Begin, TypeInv
    <2>5. meta[id] = NoMeta
        BY DEF TypeInv, StoreTypes
    <2>6. \A q \in Processes : work[q].step \notin Reads
        BY <1>1, <2>3, FilesAssumption DEF TypeInv, Exclusive
    <2>7. Seen(r)'
        BY <2>3, <2>4, <2>5 DEF Seen
    <2>8. \A q \in Processes : q # r => Seen(q)'
        BY <2>4, <2>6 DEF Seen
    <2> QED BY <2>7, <2>8
<1>4. CASE \E r \in Requests : Replace(r)
    <2>1. PICK r \in Requests : Replace(r)
        BY <1>4
    <2>2. r \in Processes /\ work'[r].step = "enter" /\ UNCHANGED meta /\ \A q \in Processes : q # r => work'[q] = work[q]
        BY <2>1 DEF Replace, Begin, Processes, TypeInv, store
    <2> QED BY <1>1, <2>2 DEF Seen
<1>5. CASE Forgotten
    <2>1. \A q \in Processes : work'[q].step \notin Reads
        BY <1>1, <1>5, IdleIs DEF Forgotten
    <2> QED BY <2>1 DEF Seen
<1>6. CASE \/ \E r \in Requests : Manage(r) \/ Fetch(r)
           \/ StartJob \/ Expire \/ NoBuild \/ ListFiles \/ Plan \/ ReadText \/ Hunted \/ Record \/ EndJob
           \/ KillJob \/ KillService \/ UNCHANGED vars
    <2>1. UNCHANGED meta
        BY <1>6, OthersAre DEF store
    <2>2. \A q \in Processes : work'[q] = work[q] \/ work'[q].step \notin Reads
        BY <1>1, <1>6, OthersAre, IdleIs
    <2> QED BY <2>1, <2>2 DEF Seen
<1> QED BY <1>2, <1>3, <1>4, <1>5, <1>6 DEF Next

LEMMA NextJobSteps ==
    ASSUME TypeInv, JobSteps, [Next]_vars
    PROVE  JobSteps'
<1> USE IdleIs
<1>1. work \in [Processes -> Call] /\ job \in JobType /\ Job \in Processes /\ Job \notin Requests
    BY FilesAssumption DEF TypeInv, Processes
<1>2. "readText" \notin WriteSteps \union {"enter", "idle"} /\ "idle" \notin WriteSteps
    BY DEF WriteSteps
<1>3. CASE \E p \in Processes : Step(p)
    <2>1. PICK p \in Processes : Step(p)
        BY <1>3
    <2>2. \A r \in Requests : work'[r].op \notin {"plan", "expire"} /\ work'[r].step # "readText"
        BY <1>2, <2>1, StepIs DEF JobSteps, Processes
    <2>3. CASE p # Job
        BY <1>1, <2>1, <2>2, <2>3, StepIs DEF JobSteps
    <2>4. CASE p = Job /\ work[Job].op = "record"
        <3>1. /\ job.phase = "recording" /\ work[Job].step \in {"enter", "current", "meta"}
            BY <1>2, <2>1, <2>4, StepIs DEF JobSteps
        <3>2. Enter(Job) /\ ~Missing(Job) => work'[Job].step \in {"current", "meta"} /\ UNCHANGED job
            BY <1>1, <2>4 DEF Enter, FirstWrite, Call
        <3>3. WriteCurrent(Job) => work'[Job].step = "meta" /\ UNCHANGED job
            BY <1>1, <2>4 DEF WriteCurrent, Call
        <3>4. (Enter(Job) /\ Missing(Job)) \/ SaveMeta(Job) => work'[Job] = Idle
            BY <1>1, <2>4 DEF Enter, Raise, SaveMeta, Return
        <3>5. Enter(Job) \/ WriteCurrent(Job) \/ SaveMeta(Job)
            BY <2>1, <2>4, <3>1 DEF Step, WriteOriginal, WriteManage, Unlink, Unmanage
        <3>6. work'[Job].step # "idle" =>
                  /\ work'[Job].op = "record" /\ work'[Job].step \in {"enter", "current", "meta"}
                  /\ UNCHANGED job
            BY <2>1, <2>4, <3>2, <3>3, <3>4, <3>5, StepIs DEF SaveMeta
        <3> QED BY <2>2, <3>1, <3>6 DEF JobSteps
    <2>5. CASE p = Job /\ work[Job].op # "record"
        <3>1. job.phase = "expiring" /\ work[Job].op = "expire"
            BY <1>2, <2>1, <2>5, StepIs DEF JobSteps
        <3>2. work'[Job].step # "idle" => work'[Job].op = "expire" /\ work'[Job].step # "readText" /\ UNCHANGED job
            BY <1>2, <2>1, <2>5, <3>1, StepIs
        <3> QED BY <2>2, <3>1, <3>2 DEF JobSteps
    <2> QED BY <2>3, <2>4, <2>5
<1>4. CASE \E r \in Requests : Create(r) \/ Replace(r) \/ Manage(r) \/ Fetch(r)
    <2>1. PICK r \in Requests : Create(r) \/ Replace(r) \/ Manage(r) \/ Fetch(r)
        BY <1>4
    <2>2. /\ r \in Processes /\ r # Job /\ \A q \in Processes : q # r => work'[q] = work[q]
          /\ work'[r].op \notin {"plan", "expire"} /\ work'[r].step # "readText" /\ UNCHANGED job
        BY <1>1, <2>1 DEF Create, Replace, Manage, Fetch, Begin, Processes
    <2> QED BY <1>1, <2>2 DEF JobSteps, Processes
<1>5. CASE StartJob \/ NoBuild \/ ListFiles \/ Hunted \/ EndJob \/ Forgotten \/ UNCHANGED vars
    <2>1. UNCHANGED work /\ (work[Job].step = "idle" \/ UNCHANGED job)
        BY <1>5 DEF StartJob, NoBuild, ListFiles, Hunted, EndJob, Forgotten, vars, JobSteps, Running, TypeInv
    <2> QED BY <2>1 DEF JobSteps
<1>6. CASE Expire \/ Plan \/ ReadText \/ Record
    <2>1. \A r \in Requests : work'[r] = work[r]
        BY <1>1, <1>6 DEF Expire, Plan, ReadText, Record, Begin, Processes
    <2>2. CASE Expire
        BY <1>1, <2>1, <2>2 DEF Expire, Begin, JobType, JobSteps
    <2>3. CASE Plan
        BY <1>1, <2>1, <2>3 DEF Plan, Begin, JobType, JobSteps
    <2>4. CASE ReadText
        BY <1>1, <2>1, <2>4 DEF ReadText, JobSteps
    <2>5. CASE Record
        BY <1>1, <2>1, <2>5 DEF Record, Begin, JobType, JobSteps
    <2> QED BY <1>6, <2>2, <2>3, <2>4, <2>5
<1>7. CASE KillJob \/ KillService
    <2>1. work'[Job] = Idle \/ (work'[Job] = work[Job] /\ UNCHANGED job)
        BY <1>1, <1>7 DEF KillJob, KillService, Return
    <2>2. \A r \in Requests : work'[r] = work[r] \/ work'[r] = Idle
        BY <1>1, <1>7 DEF KillJob, KillService, Return, Processes
    <2> QED BY <2>1, <2>2 DEF JobSteps
<1> QED BY <1>3, <1>4, <1>5, <1>6, <1>7 DEF Next

-----------------------------------------------------------------------------
(* The job comes to every file that is as it was.                           *)

\* A step that leaves a file as it was, or makes it another one.
LEMMA ReachedKept ==
    ASSUME NEW id \in Ids, AsItWas(id) => Reached(id),
           UNCHANGED job, job.phase \in {"planning", "recording"} => UNCHANGED work[Job],
           AsItWas(id)' => AsItWas(id) /\ meta[id].updates \subseteq meta'[id].updates
    PROVE  AsItWas(id)' => Reached(id)'
BY DEF Reached, At

\* A step of a call.
LEMMA StepReached ==
    ASSUME TypeInv, UpdateInv, NEW p \in Processes, Step(p), NEW id \in Ids
    PROVE  AsItWas(id)' => Reached(id)'
<1> SUFFICES ASSUME AsItWas(id)' PROVE Reached(id)'
    OBVIOUS
<1> USE IdleIs
<1>1. job' = job \/ job'.phase = "failed"
    BY StepIs DEF Stopped, TypeInv, JobType
<1>2. CASE job'.phase = "failed"
    BY <1>2 DEF Reached
<1>3. CASE job' = job
    <2>1. job.known[id] # 0 /\ meta'[id].upload = job.known[id] /\ current'[id].upload = job.known[id]
        BY <1>3 DEF AsItWas
    <2>2. meta \in [Ids -> Meta] /\ current \in [Ids -> Text] /\ NoMeta.upload = 0 /\ NoText.upload = 0
        BY DEF TypeInv, StoreTypes, NoMeta, NoText
    <2>3. Sending(p) => work[p].text.upload # job.known[id]
        BY DEF UpdateInv, Fresh
    <2>4. /\ meta[id].upload = job.known[id]
          /\ meta[id].updates \subseteq meta'[id].updates
        <3>1. CASE meta'[id] = meta[id]
            BY <2>1, <3>1
        <3>2. CASE meta'[id] # meta[id]
            <4>1. work[p].step = "meta" /\ meta'[id] = Saved(p) /\ work[p].id = id
                BY <2>1, <2>2, <3>2, WritesAre
            <4>2. ~Sending(p)
                BY <2>1, <2>3, <4>1, SavedIs DEF UpdateInv
            <4> QED BY <2>1, <4>1, <4>2, SavedIs DEF UpdateInv
        <3> QED BY <3>1, <3>2
    <2>5. CASE p # Job
        <3>1. work'[Job] = work[Job]
            BY <2>5, StepIs DEF Processes
        <3>2. current[id].upload = job.known[id]
            <4>1. work[p].step = "current" => Sending(p)
                BY <2>5 DEF TypeInv, Control, Sending
            <4> QED BY <2>1, <2>2, <2>3, <4>1, WritesAre
        <3>3. AsItWas(id)
            BY <2>1, <2>4, <3>2 DEF AsItWas
        <3> QED BY <1>3, <2>4, <3>1, <3>3, ReachedKept DEF UpdateInv
    <2>6. CASE p = Job /\ ~At(id, "record")
        <3>1. work[Job].step \notin {"idle", "readText"}
            BY <2>6, StepIs DEF WriteSteps
        <3>2. current[id].upload = job.known[id]
            <4>1. current' # current /\ work[Job].step = "current" => work[Job].id # id
                BY <2>6, <3>1 DEF At, UpdateInv, JobSteps, TypeInv, Control
            <4> QED BY <2>1, <2>2, <2>6, <4>1, WritesAre
        <3>3. AsItWas(id)
            BY <2>1, <2>4, <3>2 DEF AsItWas
        <3>4. ~At(id, "plan")
            BY <3>1 DEF At, UpdateInv, JobSteps
        <3> QED BY <1>3, <2>4, <2>6, <3>3, <3>4 DEF UpdateInv, Reached
    <2>7. CASE p = Job /\ At(id, "record")
        <3>1. job.phase = "recording" /\ work[Job].step \in {"enter", "current", "meta"} /\ work[Job].op = "record"
            BY <2>7 DEF At, UpdateInv, JobSteps
        <3>2. CASE work[Job].step = "meta"
            <4>1. SaveMeta(Job)
                BY <2>7, <3>2 DEF Step, Enter, WriteOriginal, WriteCurrent, WriteManage, Unlink, Unmanage
            <4>2. meta' = [meta EXCEPT ![id] = Saved(Job)] /\ ~Sending(Job)
                BY <2>7, <3>1, <4>1 DEF SaveMeta, At, Sending
            <4>3. job.build \in Saved(Job).updates
                BY <2>7, <3>1, <3>2, <4>2, SavedIs DEF UpdateInv
            <4> QED BY <1>3, <2>2, <4>2, <4>3 DEF Reached
        <3>3. CASE work[Job].step # "meta"
            <4>1. work'[Job].step # "idle"
                <5>1. CASE Enter(Job)
                    <6>1. ~Missing(Job)
                        BY <1>3, <3>1, <5>1 DEF Enter, Raise, Stopped, TypeInv, JobType
                    <6>2. FirstWrite(Job) # "idle"
                        BY DEF FirstWrite
                    <6>3. work' = [work EXCEPT ![Job].step = FirstWrite(Job), ![Job].seen = meta[work[Job].id]]
                        BY <5>1, <6>1 DEF Enter
                    <6> QED BY <6>2, <6>3 DEF TypeInv, Call, Processes
                <5>2. CASE WriteCurrent(Job)
                    BY <5>2 DEF WriteCurrent, TypeInv, Call, Processes
                <5> QED BY <2>7, <3>1, <3>3, <5>1, <5>2
                        DEF Step, WriteOriginal, SaveMeta, WriteManage, Unlink, Unmanage
            <4>2. At(id, "record")'
                BY <2>7, <4>1, StepIs DEF At
            <4> QED BY <1>3, <3>1, <4>2 DEF Reached
        <3> QED BY <3>2, <3>3
    <2> QED BY <2>5, <2>6, <2>7
<1> QED BY <1>1, <1>2, <1>3

\* A step of the job itself.
LEMMA JobReached ==
    ASSUME TypeInv, UpdateInv, NEW id \in Ids, UNCHANGED <<meta, current>>,
           \/ StartJob \/ Expire \/ NoBuild \/ ListFiles \/ Plan \/ ReadText \/ Hunted \/ Record \/ EndJob
           \/ KillJob
    PROVE  AsItWas(id)' => Reached(id)'
<1> SUFFICES ASSUME AsItWas(id)' PROVE Reached(id)'
    OBVIOUS
<1> USE IdleIs
<1>1. work \in [Processes -> Call] /\ job \in JobType /\ Job \in Processes
    BY DEF TypeInv, Processes
<1>2. CASE StartJob \/ NoBuild \/ KillJob \/ Expire
    BY <1>1, <1>2 DEF StartJob, NoBuild, KillJob, Expire, Stopped, JobType, Reached
<1>3. CASE ~StartJob
    <2>1. AsItWas(id) /\ Reached(id) /\ job'.build = job.build
        <3>1. job'.known = job.known /\ job'.build = job.build
            BY <1>1, <1>3 DEF Expire, NoBuild, ListFiles, Plan, ReadText, Hunted, Record, EndJob, KillJob, Stopped, JobType
        <3> QED BY <3>1 DEF AsItWas, UpdateInv
    <2>2. meta[id] # NoMeta /\ current[id] # NoText /\ id \in folder
        BY <2>1 DEF AsItWas, NoMeta, NoText, TypeInv, StoreTypes, JobType
    <2>3. CASE ListFiles
        BY <1>1, <2>2, <2>3 DEF ListFiles, JobType, Reached
    <2>4. CASE Plan
        <3>1. PICK x \in job.left :
                 /\ job' = [job EXCEPT !.left = @ \ {x}]
                 /\ IF meta[x] = NoMeta \/ job.build \in meta[x].updates THEN UNCHANGED work
                    ELSE Begin(Job, "plan", x, "readText", NoText)
            BY <2>4 DEF Plan
        <3>2. /\ job.phase = "planning" /\ work[Job] = Idle /\ job'.phase = "planning"
              /\ job'.plans = job.plans /\ job'.left = job.left \ {x}
            BY <1>1, <2>4, <3>1 DEF Plan, JobType
        <3>3. job.build \in meta[id].updates \/ id \in job.left \/ job.plans[id] # NoText
            BY <2>1, <3>2 DEF Reached, At
        <3>4. x = id => job.build \in meta[id].updates \/ At(id, "plan")'
            BY <1>1, <2>2, <3>1 DEF Begin, At
        <3> QED BY <2>1, <3>2, <3>3, <3>4 DEF Reached
    <2>5. CASE ReadText
        <3>1. /\ job.phase = "planning" /\ work[Job].step = "readText"
              /\ work[Job].step # "idle"
            BY <2>5 DEF ReadText, UpdateInv, JobSteps
        <3>2. job.build \in meta[id].updates \/ id \in job.left \/ work[Job].id = id \/ job.plans[id] # NoText
            BY <2>1, <3>1 DEF Reached, At
        <3>3. PICK text \in {current[work[Job].id], [current[work[Job].id] EXCEPT !.build = job.build]} :
                 job' = IF current[work[Job].id] = NoText THEN job ELSE [job EXCEPT !.plans[work[Job].id] = text]
            BY <2>5 DEF ReadText
        <3>4. job'.phase = "planning" /\ job'.left = job.left
            BY <1>1, <3>1, <3>3 DEF JobType
        <3>5. work[Job].id = id => job'.plans[id] # NoText
            <4> SUFFICES ASSUME work[Job].id = id PROVE job'.plans[id] # NoText
                OBVIOUS
            <4>1. current[id] \in Text /\ current[id].upload # 0
                BY <2>1 DEF TypeInv, StoreTypes, AsItWas
            <4>2. text # NoText
                BY <4>1, <3>3 DEF Text, NoText
            <4> QED BY <1>1, <2>2, <3>3, <4>2 DEF JobType
        <3>6. work[Job].id # id => job'.plans[id] = job.plans[id]
            BY <1>1, <3>3 DEF JobType
        <3> QED BY <2>1, <3>2, <3>4, <3>5, <3>6 DEF Reached
    <2>6. CASE Hunted
        <3>1. job.build \in meta[id].updates \/ job.plans[id] # NoText
            BY <2>1, <2>6 DEF Hunted, Reached, At
        <3>2. job'.phase = "recording" /\ job'.left = {x \in Ids : job.plans[x] # NoText}
            BY <1>1, <2>6 DEF Hunted, JobType
        <3> QED BY <2>1, <3>1, <3>2 DEF Reached
    <2>7. CASE Record
        <3>1. PICK x \in job.left :
                 /\ job' = [job EXCEPT !.left = @ \ {x}, !.plans[x] = NoText]
                 /\ Begin(Job, "record", x, "enter", job.plans[x])
            BY <2>7 DEF Record
        <3>2. job.phase = "recording" /\ job'.phase = "recording" /\ job'.left = job.left \ {x}
            BY <1>1, <2>7, <3>1 DEF Record, JobType
        <3>3. job.build \in meta[id].updates \/ id \in job.left
            BY <2>1, <2>7, <3>2 DEF Record, Reached, At
        <3>4. x = id => At(id, "record")'
            BY <1>1, <3>1 DEF Begin, At
        <3> QED BY <2>1, <3>2, <3>3, <3>4 DEF Reached
    <2>8. CASE EndJob
        BY <2>1, <2>8 DEF EndJob, Reached, At
    <2> QED BY <1>2, <1>3, <2>3, <2>4, <2>5, <2>6, <2>7, <2>8
<1> QED BY <1>2, <1>3

LEMMA NextReached ==
    ASSUME TypeInv, UpdateInv, [Next]_vars, NEW id \in Ids
    PROVE  AsItWas(id)' => Reached(id)'
<1>1. CASE \E p \in Processes : Step(p)
    BY <1>1, StepReached
<1>2. CASE StartJob \/ Expire \/ NoBuild \/ ListFiles \/ Plan \/ ReadText \/ Hunted \/ Record \/ EndJob \/ KillJob
    <2>1. UNCHANGED <<meta, current>>
        BY <1>2, OthersAre DEF store
    <2> QED BY <1>2, <2>1, JobReached
<1>3. CASE \/ \E r \in Requests : Create(r) \/ Replace(r) \/ Manage(r) \/ Fetch(r)
           \/ KillService \/ Forgotten \/ UNCHANGED vars
    <2>1. UNCHANGED <<job, current>>
        BY <1>3 DEF Create, Replace, Manage, Fetch, KillService, Forgotten, vars, store
    <2>2. work'[Job] = work[Job]
        BY <1>3, FilesAssumption DEF Create, Replace, Manage, Fetch, Begin, KillService, Forgotten, vars, TypeInv, Processes
    <2>3. meta'[id].upload = meta[id].upload /\ meta'[id].updates = meta[id].updates
        BY <1>3 DEF Create, Replace, Manage, Fetch, KillService, Forgotten, vars, store, TypeInv, StoreTypes, Meta
    <2>4. AsItWas(id)' => AsItWas(id)
        BY <2>1, <2>3 DEF AsItWas
    <2> QED BY <2>1, <2>2, <2>3, <2>4, ReachedKept DEF UpdateInv
<1> QED BY <1>1, <1>2, <1>3 DEF Next

LEMMA NextUpdate ==
    ASSUME TypeInv, UpdateInv, [Next]_vars
    PROVE  UpdateInv'
BY NextFresh, NextSeen, NextJobSteps, NextReached DEF UpdateInv

LEMMA InitUpdate == Init => UpdateInv
<1> SUFFICES ASSUME Init PROVE UpdateInv
    OBVIOUS
<1>1. \A p \in Processes : work[p].op = "none" /\ work[p].step = "idle"
    BY IdleIs DEF Init
<1>2. uploads = 0 /\ \A id \in Ids : meta[id].upload = 0 /\ job.known[id] = 0
    BY DEF Init, NoMeta
<1>3. Fresh /\ \A p \in Processes : Seen(p)
    BY <1>1, <1>2 DEF Fresh, Sending, Seen
<1>4. JobSteps
    BY <1>1 DEF JobSteps, Processes
<1>5. \A id \in Ids : ~AsItWas(id)
    BY <1>2 DEF AsItWas
<1> QED BY <1>3, <1>4, <1>5 DEF UpdateInv

-----------------------------------------------------------------------------
(* A job fails at a file that is gone.                                      *)

LEMMA NextTexts ==
    ASSUME TypeInv, Texts, [Next]_vars
    PROVE  Texts'
<1> USE IdleIs
<1>1. /\ work \in [Processes -> Call] /\ job \in JobType /\ Job \in Processes /\ current \in [Ids -> Text]
      /\ NoText.upload = 0 /\ NoText \in Text
    BY NoTextType DEF TypeInv, StoreTypes, Processes, NoText
<1>2. CASE \E p \in Processes : Step(p)
    <2>1. PICK p \in Processes : Step(p)
        BY <1>2
    <2>2. work[p].step = "current" => work[p].text.upload # 0
        BY <2>1 DEF TypeInv, Control, Texts
    <2>3. \A id \in Ids : current'[id].upload = 0 => current'[id] = NoText
        BY <1>1, <2>1, <2>2, WritesAre DEF Texts
    <2>4. job' = job \/ (job'.plans = NoPlans /\ job'.phase = "failed")
        BY <1>1, <2>1, StepIs DEF Stopped, JobType
    <2>5. \A q \in Processes : work'[q].op = "record" => work'[q].text.upload # 0
        BY <1>1, <2>1, StepIs DEF Texts
    <2> QED BY <2>3, <2>4, <2>5 DEF Texts, NoPlans
<1>3. CASE \E r \in Requests : Create(r) \/ Replace(r) \/ Manage(r) \/ Fetch(r)
    <2>1. UNCHANGED <<job, current>>
        BY <1>3 DEF Create, Replace, Manage, Fetch, store
    <2>2. \A q \in Processes : work'[q] = work[q] \/ work'[q].op # "record"
        BY <1>1, <1>3 DEF Create, Replace, Manage, Fetch, Begin, Processes
    <2> QED BY <2>1, <2>2 DEF Texts
<1>4. CASE StartJob \/ Expire \/ NoBuild \/ ListFiles \/ Plan \/ EndJob \/ KillJob \/ KillService \/ Forgotten \/ UNCHANGED vars
    <2>1. UNCHANGED current
        BY <1>4 DEF StartJob, Expire, NoBuild, ListFiles, Plan, EndJob, KillJob, KillService, Forgotten, vars, store
    <2>2. job'.phase # "recording" \/ UNCHANGED job
        BY <1>1, <1>4 DEF StartJob, Expire, NoBuild, ListFiles, Plan, EndJob, KillJob, KillService, Forgotten, vars,
            Stopped, JobType
    <2>3. job'.plans = job.plans \/ job'.plans = NoPlans
        BY <1>1, <1>4 DEF StartJob, Expire, NoBuild, ListFiles, Plan, EndJob, KillJob, KillService, Forgotten, vars,
            Stopped, JobType
    <2>4. \A q \in Processes : work'[q] = work[q] \/ work'[q].op # "record"
        BY <1>1, <1>4 DEF StartJob, Expire, NoBuild, ListFiles, Plan, EndJob, KillJob, KillService, Forgotten, vars,
            Begin, Return
    <2> QED BY <2>1, <2>2, <2>3, <2>4 DEF Texts, NoPlans
<1>5. CASE ReadText
    <2>1. PICK text \in {current[work[Job].id], [current[work[Job].id] EXCEPT !.build = job.build]} :
             job' = IF current[work[Job].id] = NoText THEN job ELSE [job EXCEPT !.plans[work[Job].id] = text]
        BY <1>5 DEF ReadText
    <2>2. work[Job].id \in Ids /\ UNCHANGED current
        <3>1. work[Job].step = "readText" /\ UNCHANGED current
            BY <1>5 DEF ReadText, store
        <3> QED BY <1>1, <3>1 DEF TypeInv, Control
    <2>3. text.upload = current[work[Job].id].upload
        BY <1>1, <2>1, <2>2 DEF Text
    <2>4. job'.phase = job.phase /\ job'.left = job.left
        BY <1>1, <2>1 DEF JobType
    <2>5. \A id \in Ids : \/ job'.plans[id] = job.plans[id]
                          \/ job'.plans[id].upload # 0
        BY <1>1, <2>1, <2>2, <2>3 DEF JobType, Texts
    <2>6. \A q \in Processes : work'[q] = work[q] \/ work'[q].op # "record"
        BY <1>1, <1>5 DEF ReadText
    <2>7. \A id \in Ids : job'.plans[id].upload = 0 => job'.plans[id] = NoText
        BY <2>5 DEF Texts
    <2>8. job'.phase = "recording" => \A id \in job'.left : job'.plans[id] # NoText
        BY <1>1, <2>4, <2>5 DEF Texts, JobType
    <2>9. \A q \in Processes : work'[q].op = "record" => work'[q].text.upload # 0
        BY <2>6 DEF Texts
    <2> QED BY <2>2, <2>7, <2>8, <2>9 DEF Texts
<1>6. CASE Hunted
    <2>1. UNCHANGED <<work, current>> /\ job'.plans = job.plans /\ job'.left = {id \in Ids : job.plans[id] # NoText}
        BY <1>1, <1>6 DEF Hunted, JobType, store
    <2> QED BY <2>1 DEF Texts
<1>7. CASE Record
    <2>1. PICK x \in job.left :
             /\ job' = [job EXCEPT !.left = @ \ {x}, !.plans[x] = NoText]
             /\ Begin(Job, "record", x, "enter", job.plans[x])
        BY <1>7 DEF Record
    <2>2. job.phase = "recording" /\ UNCHANGED current /\ x \in Ids
        BY <1>1, <1>7 DEF Record, store, JobType
    <2>3. job.plans[x].upload # 0
        BY <2>2 DEF Texts
    <2>4. job'.left = job.left \ {x} /\ \A id \in Ids : job'.plans[id] = IF id = x THEN NoText ELSE job.plans[id]
        BY <1>1, <2>1, <2>2 DEF JobType
    <2>5. work'[Job].text.upload # 0 /\ \A q \in Processes : q # Job => work'[q] = work[q]
        BY <1>1, <2>1, <2>3 DEF Begin
    <2>6. \A id \in Ids : current'[id].upload = 0 => current'[id] = NoText
        BY <2>2 DEF Texts
    <2>7. \A id \in Ids : job'.plans[id].upload = 0 => job'.plans[id] = NoText
        BY <2>4 DEF Texts
    <2>8. \A p \in Processes : work'[p].op = "record" => work'[p].text.upload # 0
        BY <2>5 DEF Texts
    <2>9. \A id \in job'.left : job'.plans[id] # NoText
        BY <1>1, <2>2, <2>4 DEF Texts, JobType
    <2> QED BY <2>6, <2>7, <2>8, <2>9 DEF Texts
<1> QED BY <1>2, <1>3, <1>4, <1>5, <1>6, <1>7 DEF Next

LEMMA NextListed ==
    ASSUME TypeInv, JobSteps, Listed, [Next]_vars
    PROVE  Listed'
<1> USE IdleIs
<1>1. /\ work \in [Processes -> Call] /\ job \in JobType /\ Job \in Processes /\ current \in [Ids -> Text]
      /\ folder \subseteq drawn
    BY DEF TypeInv, StoreTypes, Processes
<1>2. CASE \E p \in Processes : Step(p)
    <2>1. PICK p \in Processes : Step(p)
        BY <1>2
    <2>2. UNCHANGED drawn /\ (work'[Job].step = "idle" \/ work'[Job].id = work[Job].id)
        BY <1>1, <2>1, StepIs
    <2>3. work[Job].step = "idle" => work'[Job] = work[Job]
        BY <1>1, <2>1, StepIs DEF WriteSteps
    <2>4. CASE job' = job
        BY <2>2, <2>3, <2>4 DEF Listed
    <2>5. CASE job' # job
        <3>1. job'.at = work[Job].id /\ job'.plans = NoPlans /\ job'.left = {} /\ work[Job].step = "enter"
            BY <1>1, <2>1, <2>5, StepIs DEF Stopped, JobType
        <3> QED BY <2>2, <2>3, <3>1 DEF Listed, NoPlans
    <2> QED BY <2>4, <2>5
<1>3. CASE \E r \in Requests : Create(r) \/ Replace(r) \/ Manage(r) \/ Fetch(r)
    <2>1. UNCHANGED job /\ drawn \subseteq drawn'
        BY <1>3 DEF Create, Replace, Manage, Fetch, users
    <2>2. work'[Job] = work[Job]
        BY <1>1, <1>3, FilesAssumption DEF Create, Replace, Manage, Fetch, Begin, Processes
    <2> QED BY <2>1, <2>2 DEF Listed
<1>4. CASE StartJob \/ NoBuild \/ ListFiles \/ Hunted \/ EndJob \/ KillJob \/ KillService \/ Forgotten \/ UNCHANGED vars
    <2>1. UNCHANGED drawn
        BY <1>4 DEF StartJob, NoBuild, ListFiles, Hunted, EndJob, KillJob, KillService, Forgotten, vars, users
    <2>2. work'[Job] = work[Job] \/ work'[Job] = Idle
        BY <1>1, <1>4 DEF StartJob, NoBuild, ListFiles, Hunted, EndJob, KillJob, KillService, Forgotten, vars, Return
    <2>3. job'.plans = job.plans \/ job'.plans = NoPlans
        BY <1>1, <1>4 DEF StartJob, NoBuild, ListFiles, Hunted, EndJob, KillJob, KillService, Forgotten, vars,
            Stopped, JobType
    <2>4. UNCHANGED job \/ job'.phase # "failed"
        BY <1>1, <1>4 DEF StartJob, NoBuild, ListFiles, Hunted, EndJob, KillJob, KillService, Forgotten, vars,
            Stopped, JobType
    <2>5. job'.left \in {job.left, folder, {}, {id \in Ids : job.plans[id] # NoText}}
        BY <1>1, <1>4 DEF StartJob, NoBuild, ListFiles, Hunted, EndJob, KillJob, KillService, Forgotten, vars,
            Stopped, JobType
    <2>6. job'.left \subseteq drawn
        BY <1>1, <2>5 DEF Listed
    <2> QED BY <2>1, <2>2, <2>3, <2>4, <2>6 DEF Listed, NoPlans
<1>5. CASE Expire \/ Plan \/ Record
    <2>1. PICK x \in job.left :
             /\ \/ job' = [job EXCEPT !.left = @ \ {x}]
                \/ job' = [job EXCEPT !.left = @ \ {x}, !.plans[x] = NoText]
             /\ \/ UNCHANGED work
                \/ \E op \in Ops, step \in Steps, text \in Text : Begin(Job, op, x, step, text)
        <3>1. {"expire", "plan", "record"} \subseteq Ops /\ {"enter", "readText"} \subseteq Steps /\ NoText \in Text
            BY NoTextType DEF Ops, Steps
        <3>2. \A x \in job.left : job.plans[x] \in Text
            BY <1>1 DEF JobType
        <3>3. CASE Expire
            BY <3>1, <3>3 DEF Expire
        <3>4. CASE Plan
            BY <3>1, <3>4 DEF Plan
        <3>5. CASE Record
            BY <3>1, <3>2, <3>5 DEF Record
        <3> QED BY <1>5, <3>3, <3>4, <3>5
    <2>2. /\ job'.left = job.left \ {x} /\ job'.phase = job.phase
          /\ \A id \in Ids : job'.plans[id] = job.plans[id] \/ job'.plans[id] = NoText
        BY <1>1, <2>1 DEF JobType
    <2>4. work'[Job] = work[Job] \/ work'[Job].id = x
        <3>1. CASE UNCHANGED work
            BY <3>1
        <3>2. CASE \E op \in Ops, step \in Steps, text \in Text : Begin(Job, op, x, step, text)
            BY <1>1, <3>2 DEF Begin
        <3> QED BY <2>1, <3>1, <3>2
    <2>3. UNCHANGED drawn /\ job.phase # "failed"
        BY <1>5 DEF Expire, Plan, Record, users
    <2> QED BY <2>2, <2>3, <2>4 DEF Listed
<1>6. CASE ReadText
    <2>1. UNCHANGED drawn /\ work[Job].step = "readText" /\ work'[Job] = Idle
        BY <1>1, <1>6 DEF ReadText, users
    <2>2. job.phase = "planning"
        BY <2>1 DEF JobSteps
    <2>3. PICK text \in Text \union {current[work[Job].id], [current[work[Job].id] EXCEPT !.build = job.build]} :
             job' = IF current[work[Job].id] = NoText THEN job ELSE [job EXCEPT !.plans[work[Job].id] = text]
        BY <1>6 DEF ReadText
    <2>4. /\ job'.left = job.left /\ job'.phase = job.phase
          /\ \A id \in Ids : job'.plans[id] = job.plans[id] \/ id = work[Job].id
        BY <1>1, <2>3 DEF JobType
    <2> QED BY <2>1, <2>2, <2>4 DEF Listed
<1> QED BY <1>2, <1>3, <1>4, <1>5, <1>6 DEF Next

\* A step of a call that has the lock.
LEMMA StepServed ==
    ASSUME TypeInv, Texts, Served, NEW p \in Processes, Step(p)
    PROVE  Served'
<1> USE IdleIs
<1> PICK x : x = work[p].id
    OBVIOUS
<1>1. /\ work \in [Processes -> Call] /\ current \in [Ids -> Text] /\ folder \subseteq Ids /\ x \in Ids
      /\ lock \in Processes \union {Nobody}
      /\ Nobody \notin Processes
    BY WritesAre, FilesAssumption DEF TypeInv, StoreTypes, Exclusive
<1>2. CASE Enter(p)
    <2>1. \A id \in folder : current[id] # NoText
        BY <1>2 DEF Enter, Served, Unlocked
    <2> QED BY <1>2, <2>1 DEF Enter, Served, store
<1>3. CASE ~Enter(p)
    <2>1. work[p].step \in WriteSteps /\ lock = p
        BY <1>3, WritesAre, StepIs DEF Step, WriteOriginal, WriteCurrent, SaveMeta, WriteManage, Unlink, Unmanage, WriteSteps
    <2>2. \A id \in folder : current[id] # NoText \/ (id = x /\ work[p].step \in {"original", "current", "unlink"})
        BY <2>1 DEF Served, Unlocked
    <2>3. CASE WriteOriginal(p)
        <3>1. lock' = p /\ work'[p].step = "current" /\ work'[p].id = x /\ UNCHANGED <<folder, current>>
            BY <1>1, <2>1, <2>3 DEF WriteOriginal, Goto, Call
        <3> QED BY <1>1, <2>2, <3>1 DEF Served, Unlocked
    <2>4. CASE WriteCurrent(p)
        <3>1. work[p].text.upload # 0 /\ work[p].text # NoText
            BY <2>4 DEF WriteCurrent, TypeInv, Control, Texts, NoText
        <3>2. UNCHANGED folder /\ current' = [current EXCEPT ![x] = work[p].text]
            BY <2>4 DEF WriteCurrent
        <3> QED BY <1>1, <2>2, <3>1, <3>2 DEF Served
    <2>5. CASE SaveMeta(p) \/ WriteManage(p) \/ Unmanage(p)
        <3>1. UNCHANGED <<folder, current>> /\ work[p].step \notin {"original", "current", "unlink"}
            BY <2>5 DEF SaveMeta, WriteManage, Unmanage
        <3> QED BY <2>2, <3>1 DEF Served
    <2>6. CASE Unlink(p)
        <3>1. lock' = p /\ work'[p].id = x
            BY <1>1, <2>1, <2>6 DEF Unlink, Goto, Call
        <3>2. x \notin folder' \/ work'[p].step = "unlink"
            BY <1>1, <2>6 DEF Unlink
        <3>3. folder' \subseteq folder /\ \A id \in Ids : id # x => current'[id] = current[id]
            BY <1>1, <2>6 DEF Unlink
        <3> QED BY <1>1, <2>2, <3>1, <3>2, <3>3 DEF Served, Unlocked
    <2> QED BY <1>3, <2>3, <2>4, <2>5, <2>6 DEF Step
<1> QED BY <1>2, <1>3

LEMMA NextServed ==
    ASSUME TypeInv, Texts, Served, [Next]_vars, UNCHANGED crashes
    PROVE  Served'
<1> USE IdleIs
<1>1. /\ work \in [Processes -> Call] /\ lock \in Processes \union {Nobody} /\ Nobody \notin Processes
      /\ \A p \in Processes : work[p].step \in WriteSteps <=> lock = p
      /\ "idle" \notin WriteSteps /\ "enter" \notin WriteSteps /\ "readText" \notin WriteSteps
    BY FilesAssumption DEF TypeInv, Exclusive, WriteSteps
<1>2. CASE \E p \in Processes : Step(p)
    BY <1>2, StepServed
<1>3. CASE \E r \in Requests : Create(r)
    <2>1. PICK r \in Requests : Create(r)
        BY <1>3
    <2>2. PICK id \in Ids \ drawn :
             /\ folder' = folder \union {id}
             /\ Begin(r, "create", id, "original", [upload |-> uploads + 1, build |-> 0])
        BY <2>1 DEF Create
    <2>3. r \in Processes /\ lock = Nobody /\ lock' = r /\ UNCHANGED current
        BY <2>1 DEF Create, Locks, Processes
    <2>4. work'[r].id = id /\ work'[r].step = "original"
        BY <1>1, <2>2, <2>3 DEF Begin
    <2>5. \A x \in folder : current[x] # NoText
        BY <2>3 DEF Served, Unlocked
    <2> QED BY <1>1, <2>2, <2>3, <2>4, <2>5 DEF Served, Unlocked
<1>4. CASE Forgotten
    BY <1>4 DEF Forgotten, Served, Unlocked
<1>5. CASE \E r \in Requests : Replace(r)
    <2>1. PICK r \in Requests : Replace(r)
        BY <1>5
    <2>2. UNCHANGED <<folder, current, lock>> /\ work[r] = Idle /\ r \in Processes
          /\ \A q \in Processes : q # r => work'[q] = work[q]
        BY <1>1, <2>1 DEF Replace, Begin, store, Processes
    <2>3. r # lock
        BY <1>1, <2>2
    <2> QED BY <1>1, <2>2, <2>3 DEF Served, Unlocked
<1>6. CASE \/ \E r \in Requests : Manage(r) \/ Fetch(r)
           \/ StartJob \/ Expire \/ NoBuild \/ ListFiles \/ Plan \/ ReadText \/ Hunted \/ Record \/ EndJob
           \/ UNCHANGED vars
    <2>1. UNCHANGED <<folder, current, lock>>
        BY <1>6 DEF Manage, Fetch, StartJob, Expire, NoBuild, ListFiles, Plan, ReadText, Hunted, Record, EndJob, vars, store
    <2>2. lock # Nobody => work[lock].step \in WriteSteps
        BY <1>1
    <2>3. lock # Nobody => work'[lock] = work[lock]
        <3>1. CASE \E r \in Requests : Manage(r) \/ Fetch(r)
            BY <1>1, <3>1 DEF Manage, Fetch, Begin
        <3>2. CASE Expire \/ Plan \/ Record \/ ReadText
            <4>1. \A q \in Processes : q # Job => work'[q] = work[q]
                BY <1>1, <3>2 DEF Expire, Plan, Record, ReadText, Begin
            <4>2. work[Job].step \in {"idle", "readText"} /\ Job \in Processes
                BY <3>2 DEF Expire, Plan, Record, ReadText, Processes
            <4> QED BY <1>1, <4>1, <4>2
        <3>3. CASE StartJob \/ NoBuild \/ ListFiles \/ Hunted \/ EndJob \/ UNCHANGED vars
            BY <3>3 DEF StartJob, NoBuild, ListFiles, Hunted, EndJob, vars
        <3> QED BY <1>6, <3>1, <3>2, <3>3
    <2> QED BY <2>1, <2>3 DEF Served, Unlocked
<1>7. CASE KillJob \/ KillService
    BY <1>7, FilesAssumption DEF KillJob, KillService, TypeInv, Bounds
<1> QED BY <1>2, <1>3, <1>4, <1>5, <1>6, <1>7 DEF Next

\* The file at which a job fails was deleted, and its id is not drawn again.
LEMMA NextFailed ==
    ASSUME TypeInv, JobSteps, Listed, Wholes, Served, [Next]_vars, UNCHANGED crashes,
           job.phase = "failed" => job.at \notin folder
    PROVE  job'.phase = "failed" => job'.at \notin folder'
<1>1. work \in [Processes -> Call] /\ job \in JobType /\ Job \in Processes /\ folder \subseteq drawn
    BY DEF TypeInv, StoreTypes, Processes
<1>2. CASE \E p \in Processes : Step(p)
    <2>1. PICK p \in Processes : Step(p)
        BY <1>2
    <2>2. folder' \subseteq folder
        BY <2>1, WritesAre
    <2>3. CASE job' # job
        <3>1. /\ p = Job /\ work[p].step = "enter" /\ Missing(p) /\ lock = Nobody /\ UNCHANGED store
              /\ job'.at = work[p].id
            BY <1>1, <2>1, <2>3, StepIs DEF Stopped, JobType
        <3>2. work[p].id \notin folder
            <4>1. work[p].id \in Ids
                BY <2>1, WritesAre
            <4>2. work[p].id \in folder => meta[work[p].id].upload # 0 /\ current[work[p].id] # NoText
                BY <3>1, <4>1 DEF Wholes, Whole, Unlocked, Served
            <4>3. work[p].op \in {"expire", "record"}
                BY <3>1 DEF JobSteps
            <4> QED BY <3>1, <4>2, <4>3 DEF Missing, NoMeta
        <3> QED BY <3>1, <3>2 DEF store
    <2> QED BY <2>2, <2>3
<1>3. CASE \E r \in Requests : Create(r)
    <2>1. UNCHANGED job /\ \E id \in Ids \ drawn : folder' = folder \union {id}
        BY <1>3 DEF Create
    <2> QED BY <2>1 DEF Listed
<1>4. CASE KillJob \/ KillService
    BY <1>4, FilesAssumption DEF KillJob, KillService, TypeInv, Bounds
<1>5. CASE \/ \E r \in Requests : Replace(r) \/ Manage(r) \/ Fetch(r)
           \/ StartJob \/ Expire \/ NoBuild \/ ListFiles \/ Plan \/ ReadText \/ Hunted \/ Record \/ EndJob
           \/ Forgotten \/ UNCHANGED vars
    <2>1. UNCHANGED folder
        BY <1>5 DEF Replace, Manage, Fetch, StartJob, Expire, NoBuild, ListFiles, Plan, ReadText, Hunted, Record,
            EndJob, Forgotten, vars, store
    <2>2. UNCHANGED job \/ job'.phase # "failed"
        <3>1. CASE ReadText
            <4>1. job.phase = "planning"
                BY <3>1 DEF ReadText, JobSteps
            <4>2. job'.phase = job.phase
                BY <1>1, <3>1 DEF ReadText, JobType
            <4> QED BY <4>1, <4>2
        <3>2. CASE Expire \/ Plan \/ Record
            <4>1. job'.phase = job.phase /\ job.phase # "failed"
                BY <1>1, <3>2 DEF Expire, Plan, Record, JobType
            <4> QED BY <4>1
        <3>3. CASE StartJob \/ NoBuild \/ ListFiles \/ Hunted \/ EndJob
            BY <1>1, <3>3 DEF StartJob, NoBuild, ListFiles, Hunted, EndJob, Stopped, JobType
        <3>4. CASE (\E r \in Requests : Replace(r) \/ Manage(r) \/ Fetch(r)) \/ Forgotten \/ UNCHANGED vars
            BY <3>4 DEF Replace, Manage, Fetch, Forgotten, vars
        <3> QED BY <1>5, <3>1, <3>2, <3>3, <3>4
    <2> QED BY <2>1, <2>2
<1> QED BY <1>2, <1>3, <1>4, <1>5 DEF Next

LEMMA CrashesGrow ==
    ASSUME TypeInv, [Next]_vars, crashes' = 0
    PROVE  crashes = 0 /\ UNCHANGED crashes
<1>1. crashes \in Nat
    BY FilesAssumption DEF TypeInv, Bounds
<1>2. CASE KillJob \/ KillService
    BY <1>1, <1>2 DEF KillJob, KillService
<1>3. CASE ~(KillJob \/ KillService)
    BY <1>3 DEF Next, Step, Enter, WriteOriginal, WriteCurrent, SaveMeta, WriteManage, Unlink, Unmanage,
        Create, Replace, Manage, Fetch, StartJob, Expire, NoBuild, ListFiles, Plan, ReadText, Hunted,
        Record, EndJob, Forgotten, vars
<1> QED BY <1>2, <1>3

LEMMA InitFails == Init => Texts /\ Listed /\ Wholes /\ FailInv
<1> SUFFICES ASSUME Init PROVE Texts /\ Listed /\ Wholes /\ FailInv
    OBVIOUS
<1>1. \A p \in Processes : work[p].op = "none" /\ work[p].step = "idle"
    BY IdleIs DEF Init
<1>2. Job \in Processes
    BY DEF Processes
<1> QED BY <1>1, <1>2 DEF Init, Texts, Listed, Wholes, Unlocked, Whole, FailInv, Served, NoPlans

\* A job that comes to its end has recorded its build for every file that is
\* still there as it was when the job began, however uploads, fetches and
\* deletions come in between and whatever is killed; and without a kill it
\* fails only at a file that was deleted under its hands.
THEOREM JobsComplete == Spec => []UpdateIsComplete
<1>1. Init => UpdateInv /\ Texts /\ Listed /\ (crashes = 0 => Wholes /\ FailInv)
    BY InitUpdate, InitFails
<1>2. /\ TypeInv
      /\ UpdateInv /\ Texts /\ Listed /\ (crashes = 0 => Wholes /\ FailInv)
      /\ [Next]_vars
      => (UpdateInv /\ Texts /\ Listed /\ (crashes = 0 => Wholes /\ FailInv))'
    <2> SUFFICES ASSUME TypeInv, UpdateInv, Texts, Listed, crashes = 0 => Wholes /\ FailInv, [Next]_vars
                 PROVE  UpdateInv' /\ Texts' /\ Listed' /\ (crashes' = 0 => Wholes' /\ FailInv')
        OBVIOUS
    <2>1. UpdateInv' /\ Texts' /\ Listed'
        BY NextUpdate, NextTexts, NextListed DEF UpdateInv
    <2>2. ASSUME crashes' = 0 PROVE Wholes' /\ FailInv'
        <3>1. crashes = 0 /\ UNCHANGED crashes
            BY <2>2, CrashesGrow
        <3> QED BY <2>2, <3>1, NextWhole, NextServed, NextFailed DEF FailInv, UpdateInv
    <2> QED BY <2>1, <2>2
<1>3. TypeInv /\ UpdateInv /\ (crashes = 0 => Wholes /\ FailInv) => UpdateIsComplete
    <2> SUFFICES ASSUME TypeInv, UpdateInv, crashes = 0 => Wholes /\ FailInv PROVE UpdateIsComplete
        OBVIOUS
    <2>1. ASSUME job.phase = "done", NEW id \in folder, AsItWas(id) PROVE job.build \in meta[id].updates
        BY <2>1 DEF UpdateInv, Reached, TypeInv, StoreTypes
    <2>2. job.phase = "failed" /\ crashes = 0 => job.at \notin folder
        BY DEF FailInv
    <2> QED BY <2>1, <2>2 DEF UpdateIsComplete, AsItWas
<1> QED BY <1>1, <1>2, <1>3, TypeInvariance, PTL DEF Spec

-----------------------------------------------------------------------------
(* The text that is served is of the upload that meta.json is about, unless  *)
(* the job had a plan of the file when that upload was saved.                *)

\* The uploads that a text of the file may be of: the one that meta.json is
\* about, or is about to be, or any if the job had a plan of the file when
\* meta.json got its upload.
Possible(id) ==
    {u \in 0..MaxUploads :
        \/ u = meta[id].upload
        \/ meta[id].raced
        \/ \E p \in Processes :
              Uploading(p) /\ work[p].step = "meta" /\ work[p].id = id /\ work[p].text.upload = u}

\* So is the text that is served, and what the job would make of it.
Accounted(id) ==
    meta[id].upload # 0 =>
        /\ current[id] # NoText => current[id].upload \in Possible(id)
        /\ job.plans[id] # NoText => job.plans[id].upload \in Possible(id)
        /\ work[Job].op = "record" /\ work[Job].id = id => work[Job].text.upload \in Possible(id)

\* A step that saves no upload for the file.
LEMMA PossibleKept ==
    ASSUME NEW id \in Ids, meta'[id].upload = meta[id].upload, meta'[id].raced = meta[id].raced,
           \A p \in Processes :
              Uploading(p) /\ work[p].step = "meta" /\ work[p].id = id =>
                  /\ work'[p].op = work[p].op /\ work'[p].step = "meta" /\ work'[p].id = id
                  /\ work'[p].text = work[p].text
    PROVE  Possible(id) \subseteq Possible(id)'
BY DEF Possible, Uploading

\* A step that brings in no text from elsewhere.
LEMMA AccountedKept ==
    ASSUME NEW id \in Ids, Accounted(id), meta'[id].upload # 0 => meta[id].upload # 0,
           Possible(id) \subseteq Possible(id)',
           current'[id] \in {NoText, current[id]},
           job'.plans[id] \in {NoText, job.plans[id]},
           work'[Job].op = "record" =>
               work[Job].op = "record" /\ work'[Job].id = work[Job].id /\ work'[Job].text = work[Job].text
    PROVE  Accounted(id)'
BY DEF Accounted

\* An upload is saved: a text of another one is a plan of the job, or what it
\* made of one.
LEMMA SentAccounted ==
    ASSUME TypeInv, Wholes, NEW p \in Processes, Seen(p), SaveMeta(p), Uploading(p), NEW id \in Ids, id = work[p].id
    PROVE  Accounted(id)'
<1>1. work[p].step = "meta" /\ Sending(p) /\ work[p].op \in {"create", "replace"}
    BY DEF SaveMeta, Uploading, Sending
<1>2. current[id].upload = work[p].text.upload
    BY <1>1, HolderIs DEF Holding, WriteSteps
<1>3. meta'[id].upload = work[p].text.upload /\ meta'[id].raced = Planned(id)
    BY <1>1, SavedIs DEF SaveMeta, TypeInv, StoreTypes
<1>4. UNCHANGED <<current, job>>
    BY DEF SaveMeta
<1>5. work'[Job].op = "record" => work[Job].op = "record" /\ work'[Job].id = work[Job].id
    BY <1>1, IdleIs DEF SaveMeta, Goto, Return, TypeInv, Call, Processes
<1>6. job.plans[id] # NoText => meta'[id].raced
    BY <1>3 DEF Planned
<1>7. work[Job].op = "record" /\ work[Job].id = id => meta'[id].raced
    BY <1>3 DEF Planned
<1>8. /\ current[id].upload \in 0..MaxUploads /\ job.plans[id].upload \in 0..MaxUploads
      /\ \A q \in Processes : work'[q].text.upload \in 0..MaxUploads
    <2>1. TypeInv'
        BY SaveMetaTypes
    <2>2. work' \in [Processes -> Call]
        BY <2>1 DEF TypeInv
    <2> QED BY <2>2 DEF TypeInv, StoreTypes, JobType, Text, Call
<1>9. Job \in Processes
    BY DEF Processes
<1> QED BY <1>2, <1>3, <1>4, <1>5, <1>6, <1>7, <1>8, <1>9 DEF Accounted, Possible

\* A step of a call.
LEMMA StepAccounted ==
    ASSUME TypeInv, Wholes, \A id \in Ids : Accounted(id), NEW p \in Processes, Seen(p), Step(p), NEW id \in Ids
    PROVE  Accounted(id)'
<1> USE IdleIs
<1>1. /\ work \in [Processes -> Call] /\ meta \in [Ids -> Meta] /\ current \in [Ids -> Text]
      /\ NoMeta.upload = 0 /\ Job \in Processes
    BY DEF TypeInv, StoreTypes, NoMeta, Processes
<1>2. \A q \in Processes : q # p => work'[q] = work[q]
    BY StepIs
<1>3. job'.plans[id] \in {NoText, job.plans[id]}
    <2>1. job' = job \/ job'.plans = NoPlans
        BY StepIs DEF Stopped, TypeInv, JobType
    <2> QED BY <2>1 DEF NoPlans
<1>4. work'[Job].op = "record" =>
          work[Job].op = "record" /\ work'[Job].id = work[Job].id /\ work'[Job].text = work[Job].text
    BY <1>1, <1>2, StepIs
<1>5. CASE SaveMeta(p)
    <2>1. work[p].step = "meta" /\ meta' = [meta EXCEPT ![work[p].id] = Saved(p)] /\ UNCHANGED current
        BY <1>5 DEF SaveMeta
    <2>2. \A q \in Processes : work[q].step = "meta" => q = p
        BY <2>1 DEF TypeInv, Exclusive, WriteSteps
    <2>3. CASE work[p].id = id /\ Uploading(p)
        BY <1>5, <2>3, SentAccounted
    <2>4. CASE work[p].id # id
        <3>1. Possible(id) \subseteq Possible(id)'
            BY <1>1, <2>1, <2>2, <2>4, PossibleKept
        <3> QED BY <1>1, <1>3, <1>4, <2>1, <2>4, <3>1, AccountedKept
    <2>5. CASE work[p].id = id /\ ~Uploading(p)
        <3>1. meta'[id].upload = meta[id].upload /\ meta'[id].raced = meta[id].raced
            BY <1>1, <2>1, <2>5, SavedIs DEF Sending, Uploading
        <3>2. Possible(id) \subseteq Possible(id)'
            BY <2>2, <2>5, <3>1, PossibleKept
        <3> QED BY <1>3, <1>4, <2>1, <3>1, <3>2, AccountedKept
    <2> QED BY <2>3, <2>4, <2>5
<1>6. CASE WriteCurrent(p)
    <2>1. /\ work[p].step = "current" /\ UNCHANGED <<meta, job>>
          /\ current' = [current EXCEPT ![work[p].id] = work[p].text]
          /\ work'[p].op = work[p].op /\ work'[p].id = work[p].id /\ work'[p].text = work[p].text
          /\ work'[p].step = "meta"
        BY <1>1, <1>6 DEF WriteCurrent, Call
    <2>2. Possible(id) \subseteq Possible(id)'
        BY <1>2, <2>1, PossibleKept
    <2>3. CASE work[p].id # id
        BY <1>1, <1>3, <1>4, <2>1, <2>2, <2>3, AccountedKept
    <2>4. CASE work[p].id = id
        <3>1. current'[id] = work[p].text
            BY <1>1, <2>1, <2>4
        <3>2. meta[id].upload # 0 => work[p].text.upload \in Possible(id)'
            <4>1. CASE Uploading(p)
                BY <1>1, <2>1, <2>4, <4>1 DEF Possible, Uploading, Call, Text
            <4>2. CASE ~Uploading(p)
                <5>1. work[p].op = "record" /\ p = Job
                    BY <2>1, <4>2 DEF TypeInv, Control, Uploading
                <5> QED BY <2>2, <2>4, <5>1 DEF Accounted
            <4> QED BY <4>1, <4>2
        <3>3. /\ job.plans[id] # NoText /\ meta[id].upload # 0 => job.plans[id].upload \in Possible(id)'
              /\ work[Job].op = "record" /\ work[Job].id = id /\ meta[id].upload # 0
                   => work[Job].text.upload \in Possible(id)'
            BY <2>2 DEF Accounted
        <3> QED BY <1>4, <2>1, <3>1, <3>2, <3>3 DEF Accounted
    <2> QED BY <2>3, <2>4
<1>7. CASE ~SaveMeta(p) /\ ~WriteCurrent(p)
    <2>1. work[p].step # "meta"
        BY <1>7 DEF Step, Enter, WriteOriginal, WriteManage, Unlink, Unmanage
    <2>2. meta'[id] = NoMeta \/ meta'[id] = meta[id]
        BY <1>1, <2>1, WritesAre
    <2>3. work[p].step # "current"
        BY <1>7 DEF Step, Enter, WriteOriginal, WriteManage, Unlink, Unmanage
    <2>4. current'[id] \in {NoText, current[id]}
        BY <1>1, <2>3, WritesAre
    <2>5. CASE meta'[id] = NoMeta
        BY <1>1, <2>5 DEF Accounted
    <2>6. CASE meta'[id] = meta[id]
        <3>1. Possible(id) \subseteq Possible(id)'
            BY <1>2, <2>1, <2>6, PossibleKept
        <3> QED BY <1>3, <1>4, <2>4, <2>6, <3>1, AccountedKept
    <2> QED BY <2>2, <2>5, <2>6
<1> QED BY <1>5, <1>6, <1>7

LEMMA NextAccounted ==
    ASSUME TypeInv, Wholes, Texts, \A p \in Processes : Seen(p), \A id \in Ids : Accounted(id),
           [Next]_vars, UNCHANGED crashes, NEW id \in Ids
    PROVE  Accounted(id)'
<1> USE IdleIs
<1>1. /\ work \in [Processes -> Call] /\ meta \in [Ids -> Meta] /\ current \in [Ids -> Text] /\ job \in JobType
      /\ Job \in Processes /\ Job \notin Requests
    BY FilesAssumption DEF TypeInv, StoreTypes, Processes
<1>2. CASE \E p \in Processes : Step(p)
    BY <1>2, StepAccounted
<1>3. CASE KillJob \/ KillService
    BY <1>3, FilesAssumption DEF KillJob, KillService, TypeInv, Bounds
<1>4. CASE Forgotten
    <2>1. UNCHANGED <<work, current, job>> /\ meta'[id].upload = meta[id].upload /\ meta'[id].raced = meta[id].raced
        BY <1>1, <1>4 DEF Forgotten, Meta
    <2>2. Possible(id) \subseteq Possible(id)'
        BY <2>1, PossibleKept
    <2> QED BY <2>1, <2>2, AccountedKept
<1>5. CASE \E r \in Requests : Create(r) \/ Replace(r) \/ Manage(r) \/ Fetch(r)
    <2>1. PICK r \in Requests : Create(r) \/ Replace(r) \/ Manage(r) \/ Fetch(r)
        BY <1>5
    <2>2. /\ UNCHANGED <<meta, current, job>> /\ work[r] = Idle /\ work'[Job] = work[Job]
          /\ \A q \in Processes : q # r => work'[q] = work[q]
        BY <1>1, <2>1 DEF Create, Replace, Manage, Fetch, Begin, Processes, store
    <2>3. Possible(id) \subseteq Possible(id)'
        BY <2>2, PossibleKept
    <2> QED BY <2>2, <2>3, AccountedKept
<1>6. CASE StartJob \/ Expire \/ NoBuild \/ ListFiles \/ Plan \/ ReadText \/ Hunted \/ Record \/ EndJob \/ UNCHANGED vars
    <2>1. UNCHANGED <<meta, current>>
        BY <1>6, OthersAre DEF store
    <2>2. \A q \in Processes : work'[q] = work[q] \/ work[q] = Idle \/ work[q].step = "readText"
        BY <1>1, <1>6 DEF StartJob, Expire, NoBuild, ListFiles, Plan, ReadText, Hunted, Record, EndJob, Begin, vars
    <2>3. Possible(id) \subseteq Possible(id)'
        BY <2>1, <2>2, PossibleKept
    <2>4. CASE ~ReadText /\ ~Record
        <3>1. StartJob \/ Expire \/ NoBuild \/ ListFiles \/ Plan \/ Hunted \/ EndJob \/ UNCHANGED vars
            BY <1>6, <2>4
        <3>2. job'.plans = job.plans \/ job'.plans = NoPlans
            BY <1>1, <3>1 DEF StartJob, Expire, NoBuild, ListFiles, Plan, Hunted, EndJob, Stopped, JobType, vars
        <3>3. work'[Job].op = "record" => work'[Job] = work[Job]
            BY <1>1, <3>1 DEF StartJob, Expire, NoBuild, ListFiles, Plan, Hunted, EndJob, Begin, vars
        <3> QED BY <2>1, <2>3, <3>2, <3>3, AccountedKept DEF NoPlans
    <2>5. CASE ReadText
        <3>1. PICK text \in {current[work[Job].id], [current[work[Job].id] EXCEPT !.build = job.build]} :
                 job' = IF current[work[Job].id] = NoText THEN job ELSE [job EXCEPT !.plans[work[Job].id] = text]
            BY <2>5 DEF ReadText
        <3>2. work'[Job] = Idle /\ work[Job].id \in Ids
            BY <1>1, <2>5 DEF ReadText, TypeInv, Control
        <3>3. text.upload = current[work[Job].id].upload
            BY <1>1, <3>1, <3>2 DEF Text
        <3>4. \/ job'.plans[id] = job.plans[id]
              \/ current[id] # NoText /\ job'.plans[id].upload = current[id].upload
            BY <1>1, <3>1, <3>2, <3>3 DEF JobType
        <3> QED BY <2>1, <2>3, <3>2, <3>4 DEF Accounted
    <2>6. CASE Record
        <3>1. PICK x \in job.left :
                 /\ job' = [job EXCEPT !.left = @ \ {x}, !.plans[x] = NoText]
                 /\ Begin(Job, "record", x, "enter", job.plans[x])
            BY <2>6 DEF Record
        <3>2. job.plans[x] # NoText /\ x \in Ids
            BY <1>1, <2>6 DEF Record, Texts, JobType
        <3>3. job'.plans[id] \in {NoText, job.plans[id]}
            BY <1>1, <3>1, <3>2 DEF JobType
        <3>4. work'[Job].id = x /\ work'[Job].text = job.plans[x]
            BY <1>1, <3>1 DEF Begin
        <3> QED BY <2>1, <2>3, <3>2, <3>3, <3>4 DEF Accounted
    <2> QED BY <1>6, <2>4, <2>5, <2>6
<1> QED BY <1>2, <1>3, <1>4, <1>5, <1>6 DEF Next

\* As long as no program was killed, a file that nobody writes is whole, its
\* meta.json is about the upload in 'original', and so is the text that is
\* served, whatever owners, servers and the job do at the same time: unless the
\* job had a plan of the file when that upload was saved, and recorded it.
THEOREM FilesAreWhole == Spec => []StoreIsWhole
<1> DEFINE Kept == Wholes /\ FailInv /\ \A id \in Ids : Accounted(id)
<1>1. Init => UpdateInv /\ Texts /\ Listed /\ (crashes = 0 => Kept)
    BY InitUpdate, InitFails DEF Init, Accounted, NoMeta
<1>2. TypeInv /\ UpdateInv /\ Texts /\ Listed /\ (crashes = 0 => Kept) /\ [Next]_vars
      => (UpdateInv /\ Texts /\ Listed /\ (crashes = 0 => Kept))'
    <2> SUFFICES ASSUME TypeInv, UpdateInv, Texts, Listed, crashes = 0 => Kept, [Next]_vars
                 PROVE  UpdateInv' /\ Texts' /\ Listed' /\ (crashes' = 0 => Kept')
        OBVIOUS
    <2>1. UpdateInv' /\ Texts' /\ Listed'
        BY NextUpdate, NextTexts, NextListed DEF UpdateInv
    <2>2. ASSUME crashes' = 0 PROVE Wholes' /\ FailInv' /\ \A id \in Ids : Accounted(id)'
        <3>1. crashes = 0 /\ UNCHANGED crashes
            BY <2>2, CrashesGrow
        <3>2. Wholes' /\ FailInv'
            BY <2>2, <3>1, NextWhole, NextServed, NextFailed DEF FailInv, UpdateInv
        <3>3. \A id \in Ids : Accounted(id)'
            BY <3>1, NextAccounted DEF UpdateInv
        <3> QED BY <3>2, <3>3
    <2> QED BY <2>1, <2>2
<1>3. TypeInv /\ UpdateInv /\ (crashes = 0 => Kept) => StoreIsWhole
    <2> SUFFICES ASSUME TypeInv, UpdateInv, Kept PROVE crashes = 0 => StoreIsWhole
        BY DEF StoreIsWhole
    <2>1. folder \subseteq Ids /\ manage \subseteq Ids
        BY DEF TypeInv, StoreTypes
    <2>2. lock = Nobody => folder = manage
        BY <2>1 DEF Wholes, Unlocked, Whole
    <2>3. ASSUME NEW id \in folder, Unlocked(id)
          PROVE  /\ original[id] # 0 /\ meta[id].upload = original[id] /\ id \in manage
                 /\ current[id].upload = original[id] \/ (meta[id].raced /\ meta[id].updates # {})
        <3>1. Whole(id) /\ id \in Ids /\ Accounted(id)
            BY <2>1, <2>3 DEF Wholes
        <3>2. current[id] # NoText
            BY <2>3 DEF FailInv, Served
        <3>3. \A p \in Processes : work[p].step = "meta" => work[p].id # id
            BY <2>3, FilesAssumption DEF Unlocked, TypeInv, Exclusive, WriteSteps
        <3>4. meta[id].upload = original[id] /\ original[id] # 0 /\ id \in manage
            BY <3>1 DEF Whole
        <3>5. current[id].upload = original[id] \/ meta[id].raced
            BY <3>1, <3>2, <3>3, <3>4 DEF Accounted, Possible
        <3>6. current[id].upload = original[id] \/ meta[id].updates # {}
            BY <3>1 DEF Whole
        <3> QED BY <3>4, <3>5, <3>6
    <2> QED BY <2>2, <2>3 DEF StoreIsWhole
<1> QED BY <1>1, <1>2, <1>3, TypeInvariance, PTL DEF Spec

=============================================================================
