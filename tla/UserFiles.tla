----------------------------- MODULE UserFiles -----------------------------
(***************************************************************************)
(* Stored user files: the verify service creates, serves, replaces and     *)
(* deletes them in threads of its own, and after a build a job of another  *)
(* program expires them and brings them up to date.  Every writer takes    *)
(* one lock; a file is several files in a folder, written one by one, and  *)
(* nobody takes the lock to read.                                          *)
(***************************************************************************)
EXTENDS Integers, FiniteSets

CONSTANTS Ids,         \* what token_urlsafe may draw
          Requests,    \* threads of the service
          MaxFiles,    \* MAX_FILES
          MaxUploads,  \* bound: texts uploaded
          MaxBuilds,   \* bound: builds that are finished
          MaxCrashes   \* bound: kills of the service or the job

Job == "job"
Nobody == "nobody"
Processes == Requests \union {Job}

ASSUME FilesAssumption ==
    /\ IsFiniteSet(Ids)
    /\ Job \notin Requests /\ Nobody \notin Processes
    /\ MaxFiles \in Nat /\ MaxUploads \in Nat /\ MaxBuilds \in Nat /\ MaxCrashes \in Nat

VARIABLES \* the store
          folder,    \* ids with a directory
          original,  \* the upload in the file 'original', 0 without one
          current,   \* the text in the file 'current'
          meta,      \* what meta.json says
          manage,    \* ids that a file in by_manage/ names
          lock,      \* who holds the lock
          \* the programs
          work,      \* what each thread, and the job, is at
          job,       \* the update of all files for one build
          \* the users
          drawn,     \* ids drawn so far
          links,     \* ids whose links were shown to their owners
          uploads,   \* texts uploaded so far
          crashes

store == <<folder, original, current, meta, manage>>
users == <<drawn, links, uploads>>
vars  == <<store, lock, work, job, users, crashes>>

\* A text is an upload, brought up to a build.
Text   == [upload : 0..MaxUploads, build : 0..MaxBuilds]
NoText == [upload |-> 0, build |-> 0]

\* The upload that history, format and baseline are about, the builds with an
\* update in the history, and whether it was not fetched for EXPIRE_DAYS.  The
\* last field is no part of the file but its history: the job had a plan of the
\* file when this upload was saved.
Meta   == [upload : 0..MaxUploads, updates : SUBSET (1..MaxBuilds), old : BOOLEAN, raced : BOOLEAN]
NoMeta == [upload |-> 0, updates |-> {}, old |-> FALSE, raced |-> FALSE]

Idle == [op |-> "none", id |-> "none", step |-> "idle", text |-> NoText, seen |-> NoMeta]
NoPlans == [id \in Ids |-> NoText]
\* A touch changes nothing but meta.json: its file name, webhook or last fetch.
Ops == {"none", "create", "replace", "touch", "delete", "expire", "plan", "record"}
WriteSteps == {"original", "current", "meta", "manage", "unlink", "unmanage"}
Steps == {"idle", "enter", "readText"} \union WriteSteps

Phases == {"idle", "expiring", "planning", "recording", "done", "failed", "refused", "killed"}
Running == job.phase \in {"expiring", "planning", "recording"}

TypeOK ==
    /\ folder \subseteq drawn /\ manage \subseteq drawn /\ links \subseteq drawn /\ drawn \subseteq Ids
    /\ original \in [Ids -> 0..MaxUploads]
    /\ current \in [Ids -> Text]
    /\ meta \in [Ids -> Meta]
    /\ \A id \in Ids \ folder : original[id] = 0 /\ current[id] = NoText /\ meta[id] = NoMeta
    /\ lock \in Processes \union {Nobody}
    /\ work \in [Processes -> [op : Ops, id : Ids \union {"none"}, step : Steps, text : Text, seen : Meta]]
    /\ \A p \in Processes : work[p].step \in WriteSteps <=> lock = p
    /\ job \in [phase : Phases, build : 0..MaxBuilds, left : SUBSET Ids, at : Ids \union {"none"},
                plans : [Ids -> Text], known : [Ids -> 0..MaxUploads]]
    /\ uploads \in 0..MaxUploads
    /\ crashes \in 0..MaxCrashes

Init ==
    /\ folder = {} /\ manage = {} /\ links = {} /\ drawn = {}
    /\ original = [id \in Ids |-> 0]
    /\ current = [id \in Ids |-> NoText]
    /\ meta = [id \in Ids |-> NoMeta]
    /\ lock = Nobody
    /\ work = [p \in Processes |-> Idle]
    /\ job = [phase |-> "idle", build |-> 0, left |-> {}, at |-> "none",
              plans |-> NoPlans, known |-> [id \in Ids |-> 0]]
    /\ uploads = 0
    /\ crashes = 0

-----------------------------------------------------------------------------
(* The steps of a call.                                                     *)

Begin(p, op, id, step, text) ==
    work' = [work EXCEPT ![p] = [op |-> op, id |-> id, step |-> step, text |-> text, seen |-> NoMeta]]

Goto(p, step) == work' = [work EXCEPT ![p].step = step]

\* Mutant: record_update keeps the lock.
Return_KeepsLock(p) ==
    /\ work' = [work EXCEPT ![p] = Idle]
    /\ lock' = IF lock = p /\ work[p].op # "record" THEN Nobody ELSE lock

\* The call returns, or raises, and with it the lock is free.
Return(p) ==
    /\ work' = [work EXCEPT ![p] = Idle]
    /\ lock' = IF lock = p THEN Nobody ELSE lock

Stopped(phase) == [job EXCEPT !.phase = phase, !.left = {}, !.plans = NoPlans]

\* Nothing catches a StoreError in the job: it ends there and then.
Raise(p) ==
    /\ Return(p)
    /\ job' = IF p = Job THEN [Stopped("failed") EXCEPT !.at = work[p].id] ELSE job

\* What a call looks for again once it has the lock.
Missing(p) ==
    LET id == work[p].id IN
    CASE work[p].op \in {"delete", "expire"} -> id \notin folder
      [] work[p].op = "record" -> meta[id] = NoMeta \/ current[id] = NoText
      [] OTHER -> meta[id] = NoMeta

\* Mutant: an upload that replaces another leaves the file 'original'.
FirstWrite_KeepsOriginal(p) ==
    CASE work[p].op \in {"delete", "expire"} -> "unlink"
      [] work[p].op = "replace" -> "current"
      [] work[p].op = "record" /\ work[p].text # current[work[p].id] -> "current"
      [] OTHER -> "meta"

FirstWrite(p) ==
    CASE work[p].op \in {"delete", "expire"} -> "unlink"
      [] work[p].op = "replace" -> "original"
      [] work[p].op = "record" /\ work[p].text # current[work[p].id] -> "current"
      [] OTHER -> "meta"

\* Mutant: a fetch notes its time without the lock.
Locks_ButFetch(p) == lock' = IF work[p].op = "touch" THEN Nobody ELSE p

Locks(p) == lock' = p

\* The call gets the lock, and loads meta.json again under it.
Enter(p) ==
    /\ work[p].step = "enter"
    /\ lock = Nobody
    /\ IF Missing(p) THEN Raise(p)
       ELSE /\ Locks(p)
            /\ work' = [work EXCEPT ![p].step = FirstWrite(p), ![p].seen = meta[work[p].id]]
            /\ UNCHANGED job
    /\ UNCHANGED <<store, users, crashes>>

WriteOriginal(p) ==
    /\ work[p].step = "original"
    /\ original' = [original EXCEPT ![work[p].id] = work[p].text.upload]
    /\ Goto(p, "current")
    /\ UNCHANGED <<folder, current, meta, manage, lock, job, users, crashes>>

\* A text that changed counts as an upload for expire().
WriteCurrent(p) ==
    /\ work[p].step = "current"
    /\ current' = [current EXCEPT ![work[p].id] = work[p].text]
    /\ work' = [work EXCEPT ![p].step = "meta", ![p].seen.old = FALSE]
    /\ UNCHANGED <<folder, original, meta, manage, lock, job, users, crashes>>

\* The job has a text for a file that it has not recorded yet.
Planned(id) == job.plans[id] # NoText \/ (work[Job].op = "record" /\ work[Job].id = id)

\* What a call writes to meta.json: history and baseline start over with an
\* upload, an update adds its entry, anything else is a sign of life.
Saved(p) ==
    CASE work[p].op \in {"create", "replace"} -> [NoMeta EXCEPT !.upload = work[p].text.upload, !.raced = Planned(work[p].id)]
      [] work[p].op = "record" -> [work[p].seen EXCEPT !.updates = @ \union {job.build}]
      [] OTHER -> [work[p].seen EXCEPT !.old = FALSE]

SaveMeta(p) ==
    /\ work[p].step = "meta"
    /\ meta' = [meta EXCEPT ![work[p].id] = Saved(p)]
    /\ IF work[p].op = "create" THEN Goto(p, "manage") /\ UNCHANGED lock ELSE Return(p)
    /\ UNCHANGED <<folder, original, current, manage, job, users, crashes>>

\* create() ends with the file that the manage token is looked up in.
WriteManage(p) ==
    /\ work[p].step = "manage"
    /\ manage' = manage \union {work[p].id}
    /\ links' = links \union {work[p].id}
    /\ Return(p)
    /\ UNCHANGED <<folder, original, current, meta, job, drawn, uploads, crashes>>

\* delete() removes what the folder holds, in any order, and then the folder.
Unlink(p) ==
    LET id == work[p].id IN
    /\ work[p].step = "unlink"
    /\ \/ original[id] # 0 /\ original' = [original EXCEPT ![id] = 0]
          /\ UNCHANGED <<folder, current, meta, work>>
       \/ current[id] # NoText /\ current' = [current EXCEPT ![id] = NoText]
          /\ UNCHANGED <<folder, original, meta, work>>
       \/ meta[id] # NoMeta /\ meta' = [meta EXCEPT ![id] = NoMeta]
          /\ UNCHANGED <<folder, original, current, work>>
       \/ /\ original[id] = 0 /\ current[id] = NoText /\ meta[id] = NoMeta
          /\ folder' = folder \ {id}
          /\ Goto(p, "unmanage")
          /\ UNCHANGED <<original, current, meta>>
    /\ UNCHANGED <<manage, lock, job, users, crashes>>

\* The owner's call knows the name of the token's file, expire() looks for it.
Unmanage(p) ==
    /\ work[p].step = "unmanage"
    /\ manage' = manage \ {work[p].id}
    /\ Return(p)
    /\ UNCHANGED <<folder, original, current, meta, job, users, crashes>>

Step(p) ==
    \/ Enter(p) \/ WriteOriginal(p) \/ WriteCurrent(p) \/ SaveMeta(p) \/ WriteManage(p)
    \/ Unlink(p) \/ Unmanage(p)

-----------------------------------------------------------------------------
(* The service.                                                             *)

\* create() has the lock from before it counts; an id is never drawn twice.
Create(r) ==
    /\ work[r] = Idle /\ lock = Nobody
    /\ uploads < MaxUploads
    /\ Cardinality(folder) < MaxFiles
    /\ \E id \in Ids \ drawn :
          /\ folder' = folder \union {id}
          /\ drawn' = drawn \union {id}
          /\ Begin(r, "create", id, "original", [upload |-> uploads + 1, build |-> 0])
    /\ uploads' = uploads + 1
    /\ Locks(r)
    /\ UNCHANGED <<original, current, meta, manage, job, links, crashes>>

\* The owner's token is resolved without the lock.
Resolves(id) == id \in links \intersect manage /\ meta[id] # NoMeta

Replace(r) ==
    /\ work[r] = Idle
    /\ uploads < MaxUploads
    /\ \E id \in Ids :
          /\ Resolves(id)
          /\ Begin(r, "replace", id, "enter", [upload |-> uploads + 1, build |-> 0])
    /\ uploads' = uploads + 1
    /\ UNCHANGED <<store, lock, job, drawn, links, crashes>>

\* Another file name or webhook, or the end of the file.
Manage(r) ==
    /\ work[r] = Idle
    /\ \E id \in Ids, op \in {"touch", "delete"} : Resolves(id) /\ Begin(r, op, id, "enter", NoText)
    /\ UNCHANGED <<store, lock, job, users, crashes>>

\* A server fetches a file: text and meta.json are read without the lock, and
\* unless a fetch was noted within the hour, this one is to be.
Fetch(r) ==
    /\ work[r] = Idle
    /\ \E id \in links :
          /\ current[id] # NoText /\ meta[id] # NoMeta
          /\ Begin(r, "touch", id, "enter", NoText)
    /\ UNCHANGED <<store, lock, job, users, crashes>>

-----------------------------------------------------------------------------
(* The job: expire(), then a plan for every file, then record_update().     *)

\* autopilot runs it for each build it finished, whatever became of the last
\* one, and again for the same build if it was killed before it wrote down that
\* it is done with it, during the job or after.
StartJob ==
    /\ ~Running
    /\ \E build \in {job.build, job.build + 1} :
          /\ build \in 1..MaxBuilds
          /\ job' = [job EXCEPT !.phase = "expiring", !.left = folder, !.at = "none", !.build = build,
                                !.known = [id \in Ids |-> meta[id].upload]]
    /\ UNCHANGED <<store, lock, work, users, crashes>>

\* expire() looks at the age of a file without the lock.
Expire ==
    /\ job.phase = "expiring" /\ work[Job] = Idle
    /\ \E id \in job.left :
          /\ job' = [job EXCEPT !.left = @ \ {id}]
          /\ IF meta[id].old THEN Begin(Job, "expire", id, "enter", NoText) ELSE UNCHANGED work
    /\ UNCHANGED <<store, lock, users, crashes>>

ListFiles ==
    /\ job.phase = "expiring" /\ work[Job] = Idle /\ job.left = {}
    /\ job' = [job EXCEPT !.phase = "planning", !.left = folder]
    /\ UNCHANGED <<store, lock, work, users, crashes>>

\* The build has no snapshot or no binaries.
NoBuild ==
    /\ job.phase = "expiring" /\ work[Job] = Idle /\ job.left = {}
    /\ job' = Stopped("refused")
    /\ UNCHANGED <<store, lock, work, users, crashes>>

\* A file without meta.json, or done for this build, is passed over.
Plan ==
    /\ job.phase = "planning" /\ work[Job] = Idle
    /\ \E id \in job.left :
          /\ job' = [job EXCEPT !.left = @ \ {id}]
          /\ IF meta[id] = NoMeta \/ job.build \in meta[id].updates THEN UNCHANGED work
             ELSE Begin(Job, "plan", id, "readText", NoText)
    /\ UNCHANGED <<store, lock, users, crashes>>

\* The plan is the text as read, or what the proofs for the build make of it.
ReadText ==
    LET id == work[Job].id IN
    /\ work[Job].step = "readText"
    /\ \E text \in {current[id], [current[id] EXCEPT !.build = job.build]} :
          job' = IF current[id] = NoText THEN job ELSE [job EXCEPT !.plans[id] = text]
    /\ work' = [work EXCEPT ![Job] = Idle]
    /\ UNCHANGED <<store, lock, users, crashes>>

\* Hours may pass before this: the hunter runs IDA for what is still open.
Hunted ==
    /\ job.phase = "planning" /\ work[Job] = Idle /\ job.left = {}
    /\ job' = [job EXCEPT !.phase = "recording", !.left = {id \in Ids : job.plans[id] # NoText}]
    /\ UNCHANGED <<store, lock, work, users, crashes>>

Record ==
    /\ job.phase = "recording" /\ work[Job] = Idle
    /\ \E id \in job.left :
          /\ job' = [job EXCEPT !.left = @ \ {id}, !.plans[id] = NoText]
          /\ Begin(Job, "record", id, "enter", job.plans[id])
    /\ UNCHANGED <<store, lock, users, crashes>>

EndJob ==
    /\ job.phase = "recording" /\ work[Job] = Idle /\ job.left = {}
    /\ job' = Stopped("done")
    /\ UNCHANGED <<store, lock, work, users, crashes>>

-----------------------------------------------------------------------------
(* Kills and time.                                                          *)

KillJob ==
    /\ Running /\ crashes < MaxCrashes
    /\ Return(Job)
    /\ job' = Stopped("killed")
    /\ crashes' = crashes + 1
    /\ UNCHANGED <<store, users>>

KillService ==
    /\ crashes < MaxCrashes
    /\ \E r \in Requests : work[r] # Idle
    /\ work' = [p \in Processes |-> IF p = Job THEN work[p] ELSE Idle]
    /\ lock' = IF lock = Job THEN Job ELSE Nobody
    /\ crashes' = crashes + 1
    /\ UNCHANGED <<store, job, users>>

\* Nobody fetches a file for EXPIRE_DAYS; no call takes that long.
Forgotten ==
    /\ \A p \in Processes : work[p] = Idle
    /\ ~Running
    /\ \E id \in Ids :
          /\ meta[id] # NoMeta /\ ~meta[id].old
          /\ meta' = [meta EXCEPT ![id].old = TRUE]
    /\ UNCHANGED <<folder, original, current, manage, lock, work, job, users, crashes>>

Next ==
    \/ \E p \in Processes : Step(p)
    \/ \E r \in Requests : Create(r) \/ Replace(r) \/ Manage(r) \/ Fetch(r)
    \/ StartJob \/ Expire \/ NoBuild \/ ListFiles \/ Plan \/ ReadText \/ Hunted \/ Record \/ EndJob
    \/ KillJob \/ KillService \/ Forgotten

Spec == Init /\ [][Next]_vars

-----------------------------------------------------------------------------
(* Properties.                                                              *)

Unlocked(id) == lock = Nobody \/ work[lock].id # id

\* Unless a program was killed in the middle of a write: a file that nobody is
\* writing is whole and its meta.json is about the text its owner uploaded
\* last.  The text that is served comes from that upload too, but for the one
\* gap of the code: the job had read the text of an earlier upload when this one
\* came, and recorded its update of it afterwards.
StoreIsWhole ==
    crashes = 0 =>
        /\ folder = manage \/ lock # Nobody
        /\ \A id \in folder : Unlocked(id) =>
              /\ original[id] # 0 /\ meta[id].upload = original[id] /\ id \in manage
              /\ current[id].upload = original[id] \/ (meta[id].raced /\ meta[id].updates # {})

\* A job that came to its end has recorded its build for every file that is
\* still there as it was when the job began: the same upload in the history
\* and in the text that is served.  Unless a program was killed, a job fails
\* only because a file was deleted under its hands.
UpdateIsComplete ==
    /\ job.phase = "done" =>
          \A id \in folder :
             job.known[id] # 0 /\ meta[id].upload = job.known[id] /\ current[id].upload = job.known[id]
             => job.build \in meta[id].updates
    /\ job.phase = "failed" /\ crashes = 0 => job.at \notin folder
=============================================================================
