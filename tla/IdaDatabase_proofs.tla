-------------------------- MODULE IdaDatabase_proofs --------------------------
(***************************************************************************)
(* Theorems about IdaDatabase, for any number of skills, runs and crashes: *)
(* types, the last-good copy, what -require_warm_idb keeps, and that every *)
(* step of a run lowers a rank that nothing else raises.                   *)
(***************************************************************************)
EXTENDS IdaDatabase, TLAPS

\* A server holds a database, whose unpacked parts exist as long as it does.
ServerHolds ==
    /\ server = "down" <=> open = None
    /\ open # None => parts = open

\* While start_idalib_mcp or the restoration is at work there is no server.
Starting == {"start", "boot", "retry", "tail", "putback", "scrap", "refused", "restore"}

NoServer == pc \in Starting => server = "down" /\ open = None

\* A cold start has no packed file, and IDA refuses only one that is bad.
AttemptInv ==
    /\ pc = "putback" => packed = None
    /\ pc \in {"boot", "retry"} /\ ~warm => packed = None
    /\ pc \in {"retry", "tail", "scrap"} /\ fail = "unopenable" => packed \in {"bad", None}

\* The part of TypeOK the rest needs.
FileTypes ==
    /\ packed \in Content
    /\ parts \in Openable \union {"partial", "stray", None}
    /\ copy \in Openable \union {"bad", None}
    /\ open \in Openable \union {None}

IInv == FileTypes /\ ServerHolds /\ NoServer /\ AttemptInv

LEMMA InitIInv == Init => IInv
BY DEF Init, IInv, FileTypes, ServerHolds, NoServer, Starting, AttemptInv, Content, Openable, None

\* What is opened is a database that opens.
LEMMA OpensOpenable == \A c \in Opens : c \in Openable
BY DEF Opens, Openable

\* The start keeps the invariant.
LEMMA StartKeeps ==
    ASSUME IInv, Start \/ StartRefused \/ Boots \/ BootFails \/ Retry
    PROVE  IInv'
<1> USE DEF IInv, FileTypes, ServerHolds, NoServer, Starting, AttemptInv, Content, Openable, None
<1>1. CASE Start
    BY <1>1 DEF Start, HasDb, Locked, runVars
<1>2. CASE StartRefused
    BY <1>2 DEF StartRefused, diskVars, startVars, runVars
<1>3. CASE Boots
    BY <1>3, OpensOpenable DEF Boots, Opened, startVars, runVars
<1>4. CASE BootFails
    BY <1>4, OpensOpenable DEF BootFails, Closed, runVars
<1>5. CASE Retry
    BY <1>5 DEF Retry, Invalidate, runVars
<1> QED BY <1>1, <1>2, <1>3, <1>4, <1>5

\* So does what follows a failed start.
LEMMA RestoreKeeps ==
    ASSUME IInv, Tail \/ PutBack \/ Scrap \/ Refused \/ Restore
    PROVE  IInv'
<1> USE DEF IInv, FileTypes, ServerHolds, NoServer, Starting, AttemptInv, Content, Openable, None
<1>1. CASE Tail
    BY <1>1 DEF Tail, Invalidate, startVars, runVars
<1>2. CASE PutBack
    BY <1>2 DEF PutBack, runVars
<1>3. CASE Scrap
    BY <1>3 DEF Scrap, Invalidate, runVars
<1>4. CASE Refused
    BY <1>4 DEF Refused, Leave, diskVars, startVars, runVars
<1>5. CASE Restore
    BY <1>5 DEF Restore, Invalidate, startVars, runVars
<1> QED BY <1>1, <1>2, <1>3, <1>4, <1>5

\* So do verification, recovery and the end.
LEMMA VerifyKeeps ==
    ASSUME IInv,
           \/ VerifyOk \/ VerifyFails \/ VerifyUnavailable \/ Healthy \/ Restart
           \/ Judge \/ Save \/ NextSkill \/ Work \/ Stop
    PROVE  IInv'
<1> USE DEF IInv, FileTypes, ServerHolds, NoServer, Starting, AttemptInv, Content, Openable, None
<1>1. CASE VerifyOk \/ VerifyFails \/ VerifyUnavailable \/ Healthy
    BY <1>1 DEF VerifyOk, VerifyFails, VerifyUnavailable, Healthy, diskVars, startVars, runVars
<1>2. CASE Restart
    BY <1>2 DEF Restart, StopServer, Closed
<1>3. CASE Judge
    BY <1>3 DEF Judge, StopServer, Closed, Invalidate
<1>4. CASE Save
    BY <1>4 DEF Save, HasDb, startVars
<1>5. CASE NextSkill \/ Work
    BY <1>5 DEF NextSkill, Work, diskVars, startVars, runVars
<1>6. CASE Stop
    BY <1>6 DEF Stop, StopServer, Closed, Leave
<1> QED BY <1>1, <1>2, <1>3, <1>4, <1>5, <1>6

\* So does what happens around a run.
LEMMA AroundKeeps ==
    ASSUME IInv, Begin \/ Hangs \/ Dies \/ Crash \/ Reap \/ ClearAux
    PROVE  IInv'
<1> USE DEF IInv, FileTypes, ServerHolds, NoServer, Starting, AttemptInv, Content, Openable, None
<1>1. CASE Begin
    BY <1>1 DEF Begin, Locked, diskVars, startVars
<1>2. CASE Hangs \/ Dies
    BY <1>2 DEF Hangs, Dies, diskVars, startVars, runVars
<1>3. CASE Crash
    BY <1>3, OpensOpenable DEF Crash, Opened, Leave
<1>4. CASE Reap
    BY <1>4 DEF Reap, StopServer, Closed, startVars, runVars
<1>5. CASE ClearAux
    BY <1>5 DEF ClearAux, startVars, runVars
<1> QED BY <1>1, <1>2, <1>3, <1>4, <1>5

LEMMA NextIInv == IInv /\ [Next]_vars => IInv'
<1> SUFFICES ASSUME IInv, [Next]_vars PROVE IInv'
    OBVIOUS
<1>1. CASE UNCHANGED vars
    BY <1>1 DEF vars, diskVars, startVars, runVars, IInv, FileTypes, ServerHolds, NoServer, AttemptInv
<1>2. CASE Next
    BY <1>2, StartKeeps, RestoreKeeps, VerifyKeeps, AroundKeeps DEF Next, Run
<1> QED BY <1>1, <1>2

LEMMA Invariance == Spec => []IInv
<1>1. Init => IInv
    BY InitIInv
<1>2. IInv /\ [Next]_vars => IInv'
    BY NextIInv
<1> QED BY <1>1, <1>2, PTL DEF Spec

-----------------------------------------------------------------------------
(* Types.                                                                   *)

\* The rest of TypeOK.
Flags ==
    /\ same \in BOOLEAN /\ strict \in BOOLEAN /\ quiet \in BOOLEAN
    /\ restored \in BOOLEAN /\ again \in BOOLEAN /\ warm \in BOOLEAN

RunTypes ==
    /\ server \in {"down", "up", "hung"}
    /\ pc \in {"off", "start", "boot", "retry", "tail", "putback", "scrap", "refused",
               "verify", "recover", "judge", "restore", "save", "skill", "ensure", "work", "stop"}
    /\ phase \in {"first", "copy", "rebuild", "work"}
    /\ budget \in 0..1
    /\ attempt \in 1..2
    /\ fail \in {"exit", "timeout", "unopenable", None}
    /\ left \in 0..Skills

LEMMA NextFlags == Flags /\ [Next]_vars => Flags'
<1> SUFFICES ASSUME Flags, [Next]_vars PROVE Flags'
    OBVIOUS
<1> USE DEF Flags, diskVars, startVars, runVars
<1>0. CASE Start
    <2>1. UNCHANGED <<strict, quiet, restored, again>>
        BY <1>0 DEF Start
    <2>2. warm' \in BOOLEAN
        BY <1>0 DEF Start, HasDb
    <2>3. same' \in BOOLEAN
        BY <1>0 DEF Start
    <2> QED BY <2>1, <2>2, <2>3
<1>1. CASE StartRefused \/ Boots
    BY <1>1 DEF StartRefused, Boots, Opened
<1>2. CASE BootFails
    BY <1>2 DEF BootFails, Closed
<1>3. CASE Retry
    BY <1>3 DEF Retry, Invalidate
<1>4. CASE Tail \/ PutBack \/ Scrap \/ Restore
    BY <1>4 DEF Tail, PutBack, Scrap, Restore, Invalidate
<1>5. CASE Refused
    BY <1>5 DEF Refused, Leave
<1>6. CASE VerifyOk \/ VerifyFails \/ VerifyUnavailable \/ Healthy
    BY <1>6 DEF VerifyOk, VerifyFails, VerifyUnavailable, Healthy
<1>7. CASE Restart
    BY <1>7 DEF Restart, StopServer, Closed
<1>8. CASE Judge
    BY <1>8 DEF Judge, StopServer, Closed, Invalidate
<1>9. CASE Save \/ Work
    BY <1>9 DEF Save, Work
<1>10. CASE NextSkill
    BY <1>10 DEF NextSkill
<1>11. CASE Stop
    BY <1>11 DEF Stop, StopServer, Closed, Leave
<1>12. CASE Begin \/ Hangs \/ Dies \/ ClearAux
    BY <1>12 DEF Begin, Hangs, Dies, ClearAux
<1>13. CASE Reap
    BY <1>13 DEF Reap, StopServer, Closed
<1>14. CASE Crash
    BY <1>14 DEF Crash, Opened, Leave
<1>15. CASE UNCHANGED vars
    BY <1>15 DEF vars
<1> QED BY <1>0, <1>1, <1>2, <1>3, <1>4, <1>5, <1>6, <1>7, <1>8, <1>9, <1>10, <1>11, <1>12, <1>13, <1>14, <1>15
        DEF Next, Run

LEMMA NextRunTypes == RunTypes /\ [Next]_vars => RunTypes'
<1> SUFFICES ASSUME RunTypes, [Next]_vars PROVE RunTypes'
    OBVIOUS
<1> USE DEF RunTypes, None, diskVars, startVars, runVars
<1>a. Skills \in Nat
    BY SkillsAssumption DEF SkillsAssumption
<1>1. CASE Start \/ StartRefused \/ Boots
    BY <1>1, <1>a DEF Start, StartRefused, Boots, Opened
<1>2. CASE BootFails
    BY <1>2, <1>a DEF BootFails, Closed
<1>3. CASE Retry
    BY <1>3, <1>a DEF Retry, Invalidate
<1>4. CASE Tail \/ PutBack \/ Scrap \/ Restore
    BY <1>4, <1>a DEF Tail, PutBack, Scrap, Restore, Invalidate
<1>5. CASE Refused
    BY <1>5, <1>a DEF Refused, Leave
<1>6. CASE VerifyOk \/ VerifyFails \/ VerifyUnavailable \/ Healthy
    BY <1>6, <1>a DEF VerifyOk, VerifyFails, VerifyUnavailable, Healthy
<1>7. CASE Restart
    BY <1>7, <1>a DEF Restart, StopServer, Closed
<1>8. CASE Judge
    BY <1>8, <1>a DEF Judge, StopServer, Closed, Invalidate
<1>9. CASE Save \/ Work
    BY <1>9, <1>a DEF Save, Work
<1>10. CASE NextSkill
    BY <1>10, <1>a DEF NextSkill
<1>11. CASE Stop
    BY <1>11, <1>a DEF Stop, StopServer, Closed, Leave
<1>12. CASE Begin \/ Hangs \/ Dies \/ ClearAux
    BY <1>12, <1>a DEF Begin, Hangs, Dies, ClearAux
<1>13. CASE Reap
    BY <1>13, <1>a DEF Reap, StopServer, Closed
<1>14. CASE Crash
    BY <1>14, <1>a DEF Crash, Opened, Leave
<1>15. CASE UNCHANGED vars
    BY <1>15, <1>a DEF vars
<1> QED BY <1>1, <1>2, <1>3, <1>4, <1>5, <1>6, <1>7, <1>8, <1>9, <1>10, <1>11, <1>12, <1>13, <1>14, <1>15
        DEF Next, Run

\* The database, the server and the run keep their types; one restart, two
\* attempts of a start and the skills that are left are never overdrawn.
THEOREM DatabaseTypes == Spec => []TypeOK
<1>1. Init => Flags
    BY DEF Init, Flags
<1>2. Init => RunTypes
    BY SkillsAssumption DEF Init, RunTypes, SkillsAssumption, None
<1>3. IInv /\ Flags /\ RunTypes => TypeOK
    BY DEF IInv, FileTypes, Flags, RunTypes, TypeOK
<1> QED BY <1>1, <1>2, <1>3, NextFlags, NextRunTypes, Invariance, PTL DEF Spec

-----------------------------------------------------------------------------
(* What happens to the files.                                               *)

\* Under -require_warm_idb process_binary and start_idalib_mcp take a database
\* that opens away only to put the last-good copy in its place.
THEOREM StrictRunsKeepTheDatabase == Spec => StrictKeepsDatabase
<1> DEFINE Kept == strict /\ packed \in Openable /\ packed' = None
                     => copy # None /\ pc' = "putback"
<1>1. IInv /\ [Next]_vars => Kept
    <2> SUFFICES ASSUME IInv, [Next]_vars, strict, packed \in Openable, packed' = None
                 PROVE  copy # None /\ pc' = "putback"
        OBVIOUS
    <2> USE DEF IInv, FileTypes, ServerHolds, NoServer, Starting, AttemptInv, Content, Openable, None
    <2>1. CASE Tail \/ Restore
        BY <2>1 DEF Tail, Restore, CanRestore, Invalidate
    <2>2. CASE Start \/ PutBack
        BY <2>2 DEF Start, PutBack, HasDb
    <2>3. CASE BootFails \/ Retry \/ Scrap
        BY <2>3, OpensOpenable DEF BootFails, Retry, Scrap, Closed, Invalidate
    <2>4. CASE Restart \/ Stop \/ Reap
        BY <2>4 DEF Restart, Stop, Reap, StopServer, Closed
    <2>5. CASE Judge
        BY <2>5 DEF Judge, Rebuilds, StopServer, Closed
    <2>6. CASE \/ Begin \/ StartRefused \/ Boots \/ Refused \/ VerifyOk \/ VerifyFails
               \/ VerifyUnavailable \/ Healthy \/ Save \/ NextSkill \/ Work
               \/ Hangs \/ Dies \/ Crash \/ ClearAux \/ UNCHANGED vars
        BY <2>6 DEF Begin, StartRefused, Boots, Refused, VerifyOk, VerifyFails, VerifyUnavailable,
                    Healthy, Save, NextSkill, Work, Hangs, Dies, Crash, ClearAux,
                    vars, diskVars
    <2> QED BY <2>1, <2>2, <2>3, <2>4, <2>5, <2>6 DEF Next, Run
<1>2. IInv /\ [Next]_vars => [Kept]_vars
    BY <1>1
<1> QED BY <1>2, Invariance, PTL DEF Spec, StrictKeepsDatabase

\* What the server holds is what lies packed beside it, if anything does, as
\* long as IDA does not prefer unpacked parts to a packed file.
PackedIsOpen ==
    /\ open # None => packed \in {open, None}
    /\ pc = "save" => packed \in {"good", None}
    /\ copy \in {"good", None}

LEMMA PackedIsOpenKept ==
    ASSUME RestoresParts = FALSE, IInv, PackedIsOpen, [Next]_vars
    PROVE  PackedIsOpen'
<1> USE DEF IInv, FileTypes, ServerHolds, NoServer, Starting, PackedIsOpen, Openable, None
<1>1. \A c \in Opens : c \in Openable /\ packed \in {c, None}
    BY DEF Opens
<1>2. CASE Start \/ StartRefused \/ Retry \/ Refused
    BY <1>2 DEF Start, StartRefused, Retry, Refused, Leave, Invalidate, diskVars
<1>3. CASE Boots \/ BootFails
    BY <1>1, <1>3 DEF Boots, BootFails, Opened
<1>4. CASE Tail \/ PutBack \/ Scrap \/ Restore
    BY <1>4 DEF Tail, PutBack, Scrap, Restore, Invalidate
<1>5. CASE VerifyOk \/ VerifyFails \/ VerifyUnavailable \/ Healthy
    BY <1>5 DEF VerifyOk, VerifyFails, VerifyUnavailable, Healthy, diskVars
<1>6. CASE Restart \/ Judge
    BY <1>6 DEF Restart, Judge, StopServer, Invalidate
<1>7. CASE Save
    BY <1>7 DEF Save, HasDb
<1>8. CASE NextSkill \/ Work \/ Stop
    BY <1>8 DEF NextSkill, Work, Stop, StopServer, Leave, diskVars
<1>9. CASE Begin \/ Hangs \/ Dies \/ ClearAux \/ Reap
    BY <1>9 DEF Begin, Hangs, Dies, ClearAux, Reap, StopServer, diskVars
<1>10. CASE Crash
    BY <1>1, <1>10 DEF Crash, Opened, Leave
<1>11. CASE UNCHANGED vars
    BY <1>11 DEF vars, diskVars
<1> QED BY <1>2, <1>3, <1>4, <1>5, <1>6, <1>7, <1>8, <1>9, <1>10, <1>11 DEF Next, Run

\* The last-good copy that _save_lastgood_idb keeps is a database of this binary
\* that opens, for any number of runs, faults and crashes.
THEOREM LastGoodIsGood == RestoresParts = FALSE => (Spec => []CopyIsVerified)
<1> SUFFICES ASSUME RestoresParts = FALSE PROVE Spec => []CopyIsVerified
    OBVIOUS
<1>1. Init => PackedIsOpen
    BY DEF Init, PackedIsOpen, None
<1>2. IInv /\ PackedIsOpen /\ [Next]_vars => PackedIsOpen'
    BY PackedIsOpenKept
<1>3. PackedIsOpen => CopyIsVerified
    BY DEF PackedIsOpen, CopyIsVerified
<1> QED BY <1>1, <1>2, <1>3, Invariance, PTL DEF Spec

-----------------------------------------------------------------------------
(* How far a run is from its end.                                           *)

PhaseRank == CASE phase = "first" -> 3 [] phase = "copy" -> 2 [] phase = "rebuild" -> 1 [] OTHER -> 0

\* What a failed start may still lead to: a restoration, then a start from
\* scratch; nothing after a cold start.
Level(hasDb) == IF ~hasDb THEN 0 ELSE IF restored THEN 1 ELSE 2

\* Where a run is between two skills, restarts or databases.
Position ==
    CASE pc = "restore" -> 60
      [] pc = "start"   -> 11 * Level(HasDb) + 30
      [] pc = "boot"    -> 11 * Level(warm) + 31 - 2 * attempt
      [] pc = "retry"   -> 11 * Level(warm) + 30 - 2 * attempt
      [] pc = "tail"    -> 11 * Level(warm) + 25
      [] pc = "putback" -> 46
      [] pc = "scrap"   -> 11 * Level(warm) + 23
      [] pc = "refused" -> 21
      [] pc = "ensure"  -> 17
      [] pc = "verify"  -> IF again THEN 14 ELSE 16
      [] pc = "recover" -> 15
      [] pc = "judge"   -> 13
      [] pc \in {"save", "work"} -> 12
      [] pc = "skill"   -> 11
      [] OTHER -> 10

\* Each new database, restart or skill is one of few.
Rank == IF pc = "off" THEN 0 ELSE 64 * (PhaseRank + budget + left) + Position

\* The sums a rank is made of.
LEMMA Weights ==
    /\ \A a \in 0..3 : \A b, c \in Nat : \A i \in 10..63 :
          /\ a + b + c \in Nat /\ i \in Nat /\ i <= 63
          /\ 64 * (a + b + c) + i \in Nat /\ 64 * (a + b + c) + i > 0
    /\ \A n \in Nat : \A i, j \in Nat : i < j => 64 * n + i < 64 * n + j
    /\ \A m, n, i, j \in Nat : i <= 63 /\ m < n => 64 * m + i < 64 * n + j
    /\ \A a, d \in 0..3 : \A b, c \in Nat : d < a => d + b + c < a + b + c
OBVIOUS

LEMMA RankTypes ==
    ASSUME RunTypes
    PROVE  /\ PhaseRank \in 0..3 /\ budget \in Nat /\ left \in Nat /\ attempt \in 1..2
           /\ \A b \in BOOLEAN : Level(b) \in 0..2
           /\ Position \in 10..63
<1>a. Skills \in Nat
    BY SkillsAssumption DEF SkillsAssumption
<1>1. PhaseRank \in 0..3
    BY DEF PhaseRank
<1>2. budget \in Nat /\ left \in Nat /\ attempt \in 1..2
    BY <1>a DEF RunTypes
<1>3. \A b \in BOOLEAN : Level(b) \in 0..2
    BY DEF Level
<1>4. Level(HasDb) \in 0..2 /\ Level(warm) \in 0..2
    BY DEF Level
<1>5. Position \in 10..63
    BY <1>2, <1>4 DEF Position
<1> QED BY <1>1, <1>2, <1>3, <1>5

\* The same after a step.
LEMMA RankTypesAfter ==
    ASSUME RunTypes'
    PROVE  /\ PhaseRank' \in 0..3 /\ budget' \in Nat /\ left' \in Nat
           /\ Position' \in 10..63
           /\ Rank' \in Nat
<1>a. Skills \in Nat
    BY SkillsAssumption DEF SkillsAssumption
<1>1. PhaseRank' \in 0..3
    BY DEF PhaseRank
<1>2. budget' \in Nat /\ left' \in Nat /\ attempt' \in 1..2
    BY <1>a DEF RunTypes
<1>3. Level(HasDb)' \in 0..2 /\ Level(warm)' \in 0..2
    BY DEF Level
<1>4. Position' \in 10..63
    BY <1>2, <1>3 DEF Position
<1>5. Rank' \in Nat
    <2>1. 64 * (PhaseRank' + budget' + left') + Position' \in Nat
        BY <1>1, <1>2, <1>4, Weights, Zenon
    <2> QED BY <2>1 DEF Rank
<1> QED BY <1>1, <1>2, <1>4, <1>5

\* In a run that is not over.
LEMMA RankIs ==
    ASSUME RunTypes, pc # "off"
    PROVE  Rank = 64 * (PhaseRank + budget + left) + Position /\ Rank \in Nat /\ Rank > 0
BY RankTypes DEF Rank

\* The start and what follows a failed one.
LEMMA StartRank ==
    ASSUME RunTypes, RunTypes', Start \/ StartRefused \/ Boots \/ BootFails \/ Retry \/ Tail \/ PutBack \/ Scrap
    PROVE  pc # "off" /\ Rank' < Rank
<1>1. UNCHANGED <<phase, budget, left>> /\ pc # "off" /\ pc' # "off"
    BY DEF Start, StartRefused, Boots, BootFails, Retry, Tail, PutBack, Scrap, runVars
<1>2. Position' < Position
    <2>a. attempt \in 1..2 /\ attempt' \in 1..2
        BY DEF RunTypes
    <2>b. Level(HasDb) \in 0..2 /\ Level(warm) \in 0..2 /\ Level(HasDb)' \in 0..2 /\ Level(warm)' \in 0..2
        BY DEF Level
    <2>1. CASE Start
        <3>1. pc = "start" /\ pc' = "boot" /\ attempt' = 1 /\ Level(warm)' = Level(HasDb)
            BY <2>1 DEF Start, Level
        <3> QED BY <2>b, <3>1 DEF Position
    <2>2. CASE StartRefused
        <3>1. pc = "start" /\ pc' = "refused"
            BY <2>2 DEF StartRefused
        <3> QED BY <2>b, <3>1 DEF Position
    <2>3. CASE Boots
        <3>1. pc = "boot" /\ pc' = "verify"
            BY <2>3 DEF Boots
        <3> QED BY <2>a, <2>b, <3>1 DEF Position
    <2>4. CASE BootFails
        <3>1. pc = "boot" /\ pc' = "retry" /\ attempt' = attempt /\ Level(warm)' = Level(warm)
            BY <2>4 DEF BootFails, Level
        <3> QED BY <2>a, <2>b, <3>1 DEF Position
    <2>5. CASE Retry
        <3>1. /\ pc = "retry" /\ Level(warm)' = Level(warm)
              /\ \/ pc' \in {"refused", "tail"} /\ attempt' = attempt
                 \/ pc' = "boot" /\ attempt = 1 /\ attempt' = 2
            BY <2>5 DEF Retry, Level
        <3> QED BY <2>a, <2>b, <3>1 DEF Position
    <2>6. CASE Tail
        <3>1. /\ pc = "tail" /\ Level(warm)' = Level(warm)
              /\ pc' = "scrap" \/ (pc' = "putback" /\ Level(warm) = 2)
            BY <2>6 DEF Tail, Level, startVars
        <3> QED BY <2>b, <3>1 DEF Position
    <2>7. CASE PutBack
        <3>1. pc = "putback" /\ (pc' = "scrap" \/ (pc' = "start" /\ Level(HasDb)' <= 1))
            BY <2>7 DEF PutBack, Level
        <3> QED BY <2>b, <3>1 DEF Position
    <2>8. CASE Scrap
        <3>1. /\ pc = "scrap"
              /\ pc' = "refused" \/ (pc' = "start" /\ Level(HasDb)' = 0 /\ Level(warm) >= 1)
            BY <2>8 DEF Scrap, Level, Invalidate, HasDb
        <3> QED BY <2>b, <3>1 DEF Position
    <2> QED BY <2>1, <2>2, <2>3, <2>4, <2>5, <2>6, <2>7, <2>8
<1>3. PhaseRank' = PhaseRank
    BY <1>1 DEF PhaseRank
<1>4. Rank = 64 * (PhaseRank + budget + left) + Position /\ Rank' = 64 * (PhaseRank + budget + left) + Position'
    BY <1>1, <1>3 DEF Rank
<1>5. PhaseRank + budget + left \in Nat /\ Position \in Nat /\ Position' \in Nat
    <2>1. Position \in 10..63 /\ PhaseRank \in 0..3 /\ budget \in Nat /\ left \in Nat
        BY RankTypes
    <2>2. Position' \in 10..63
        BY RankTypesAfter
    <2> QED BY <2>1, <2>2, Weights, Zenon
<1>6. 64 * (PhaseRank + budget + left) + Position' < 64 * (PhaseRank + budget + left) + Position
    BY <1>2, <1>5, Weights, Zenon
<1> QED BY <1>1, <1>4, <1>6, Zenon

\* Verification, recovery, the other databases and the skills.
LEMMA WorkRank ==
    ASSUME RunTypes, RunTypes',
           \/ Refused \/ VerifyOk \/ VerifyFails \/ VerifyUnavailable \/ Healthy \/ Restart
           \/ Judge \/ Restore \/ Save \/ NextSkill \/ Work \/ Stop
    PROVE  pc # "off" /\ Rank' < Rank
<1>a. Rank \in Nat /\ Rank > 0 /\ Rank = 64 * (PhaseRank + budget + left) + Position /\ pc # "off"
    <2>1. pc # "off"
        BY DEF Refused, VerifyOk, VerifyFails, VerifyUnavailable, Healthy, Restart, Judge, Restore, Save,
               NextSkill, Work, Stop
    <2> QED BY <2>1, RankIs
<1>b. PhaseRank \in 0..3 /\ budget \in Nat /\ left \in Nat /\ Position \in 10..63
    BY RankTypes
<1>c. PhaseRank' \in 0..3 /\ budget' \in Nat /\ left' \in Nat /\ Position' \in 10..63
    BY RankTypesAfter
<1>d. \A m, n, i, j \in Nat : i <= 63 /\ j <= 63 /\ (m < n \/ (m = n /\ i < j)) => 64 * m + i < 64 * n + j
    OBVIOUS
<1>e. pc' = "off" => Rank' < Rank
    BY <1>a DEF Rank
<1>f. ASSUME pc' # "off",
             \/ PhaseRank' + budget' + left' < PhaseRank + budget + left
             \/ PhaseRank' + budget' + left' = PhaseRank + budget + left /\ Position' < Position
      PROVE  Rank' < Rank
    <2>1. Rank' = 64 * (PhaseRank' + budget' + left') + Position'
        BY <1>f DEF Rank
    <2>2. /\ PhaseRank + budget + left \in Nat /\ PhaseRank' + budget' + left' \in Nat
          /\ Position \in Nat /\ Position' \in Nat /\ Position <= 63 /\ Position' <= 63
        <3>1. PhaseRank + budget + left \in Nat /\ Position \in Nat /\ Position <= 63
            BY <1>b, Weights, Zenon
        <3>2. PhaseRank' + budget' + left' \in Nat /\ Position' \in Nat /\ Position' <= 63
            BY <1>c, Weights, Zenon
        <3> QED BY <3>1, <3>2
    <2> QED BY <1>a, <1>d, <1>f, <2>1, <2>2
<1>1. CASE Refused
    <2>1. CASE pc' = "off"
        BY <1>e, <1>a, <2>1
    <2>2. CASE pc' # "off"
        <3>1. pc = "refused" /\ pc' = "judge" /\ UNCHANGED <<phase, budget, left>>
            BY <1>1, <2>2 DEF Refused, Leave, runVars
        <3>2. Position' < Position /\ PhaseRank' = PhaseRank
            BY <3>1 DEF Position, PhaseRank
        <3> QED BY <1>a, <1>b, <1>f, <2>2, <3>1, <3>2
    <2> QED BY <2>1, <2>2
<1>2. CASE VerifyOk \/ VerifyFails \/ VerifyUnavailable \/ Healthy \/ Work
    <2>1. /\ UNCHANGED <<phase, budget, left>> /\ pc' # "off"
          /\ \/ pc = "verify" /\ pc' \in {"save", "work", "judge"}
             \/ pc = "verify" /\ ~again /\ pc' = "recover"
             \/ pc = "recover" /\ again' /\ pc' = "verify"
             \/ pc = "ensure" /\ pc' = "verify"
             \/ pc = "work" /\ pc' = "skill"
        BY <1>2 DEF VerifyOk, VerifyFails, VerifyUnavailable, Healthy, Work, runVars
    <2>2. Position' < Position /\ PhaseRank' = PhaseRank
        BY <2>1 DEF Position, PhaseRank
    <2> QED BY <1>a, <1>b, <1>f, <2>1, <2>2
<1>3. CASE Restart
    <2>1. /\ phase' = phase /\ left' = left /\ pc' # "off"
          /\ \/ budget = 1 /\ budget' = 0
             \/ budget' = budget /\ pc \in {"recover", "ensure"} /\ pc' = "judge"
        BY <1>3 DEF Restart
    <2>2. PhaseRank' = PhaseRank
        BY <2>1 DEF PhaseRank
    <2>3. pc \in {"recover", "ensure"} /\ pc' = "judge" => Position' < Position
        BY DEF Position
    <2>4. \/ PhaseRank' + budget' + left' < PhaseRank + budget + left
          \/ PhaseRank' + budget' + left' = PhaseRank + budget + left /\ Position' < Position
        BY <1>b, <2>1, <2>2, <2>3
    <2> QED BY <1>a, <1>f, <2>1, <2>4
<1>4. CASE Judge
    <2>1. /\ budget' = budget /\ left' = left /\ pc' # "off"
          /\ \/ phase = "first" /\ phase' = "copy"
             \/ phase \in {"first", "copy"} /\ phase' = "rebuild"
             \/ phase' = phase /\ pc = "judge" /\ pc' = "stop"
        BY <1>4 DEF Judge, TriesCopy, Rebuilds
    <2>2. PhaseRank' < PhaseRank \/ (PhaseRank' = PhaseRank /\ pc = "judge" /\ pc' = "stop")
        BY <2>1 DEF PhaseRank
    <2>3. pc = "judge" /\ pc' = "stop" => Position' < Position
        BY DEF Position
    <2>4. \/ PhaseRank' + budget' + left' < PhaseRank + budget + left
          \/ PhaseRank' + budget' + left' = PhaseRank + budget + left /\ Position' < Position
        <3>1. PhaseRank' < PhaseRank => PhaseRank' + budget + left < PhaseRank + budget + left
            BY <1>b, <1>c, Weights, Zenon
        <3> QED BY <2>1, <2>2, <2>3, <3>1, Zenon
    <2> QED BY <1>a, <1>f, <2>1, <2>4
<1>5. CASE Restore
    <2>1. UNCHANGED <<phase, budget, left>> /\ pc = "restore" /\ pc' \in {"putback", "start"}
        BY <1>5 DEF Restore, runVars
    <2>2. Position' < Position /\ PhaseRank' = PhaseRank
        <3>1. Level(HasDb)' \in 0..2
            BY DEF Level
        <3> QED BY <2>1, <3>1 DEF Position, PhaseRank
    <2> QED BY <1>a, <1>b, <1>f, <2>1, <2>2
<1>6. CASE Save
    <2>1. phase' = "work" /\ budget' = budget /\ left' = left /\ pc = "save" /\ pc' = "skill"
        BY <1>6 DEF Save
    <2>2. Position' < Position /\ PhaseRank' = 0
        BY <2>1 DEF Position, PhaseRank
    <2>3. \/ PhaseRank' + budget' + left' < PhaseRank + budget + left
          \/ PhaseRank' + budget' + left' = PhaseRank + budget + left /\ Position' < Position
        BY <1>b, <2>1, <2>2
    <2> QED BY <1>a, <1>f, <2>1, <2>3
<1>7. CASE NextSkill
    <2>1. /\ phase' = phase /\ budget' = budget /\ pc = "skill"
          /\ \/ left' = left - 1 /\ pc' = "ensure"
             \/ left' = left /\ pc' = "stop"
        BY <1>7 DEF NextSkill
    <2>2. PhaseRank' = PhaseRank /\ (pc' = "stop" => Position' < Position)
        BY <2>1 DEF Position, PhaseRank
    <2>3. \/ PhaseRank' + budget' + left' < PhaseRank + budget + left
          \/ PhaseRank' + budget' + left' = PhaseRank + budget + left /\ Position' < Position
        BY <1>b, <2>1, <2>2
    <2> QED BY <1>a, <1>f, <2>1, <2>3
<1>8. CASE Stop
    BY <1>8, <1>a, <1>e DEF Stop, Leave
<1> QED BY <1>1, <1>2, <1>3, <1>4, <1>5, <1>6, <1>7, <1>8

\* What happens around a run brings it no further from its end.
LEMMA AroundRank ==
    ASSUME RunTypes, RunTypes', pc # "off", Hangs \/ Dies \/ Crash \/ Reap \/ ClearAux \/ UNCHANGED vars
    PROVE  Rank' <= Rank
<1>1. CASE Crash
    <2>1. Rank' = 0
        BY <1>1 DEF Crash, Leave, Rank
    <2>2. Rank \in Nat
        BY RankIs
    <2> QED BY <2>1, <2>2
<1>2. CASE Hangs \/ Dies \/ UNCHANGED vars
    <2>1. UNCHANGED <<pc, packed, startVars, runVars>>
        BY <1>2 DEF Hangs, Dies, vars, diskVars
    <2>2. Rank' = Rank
        BY <2>1 DEF Rank, Position, PhaseRank, Level, HasDb, startVars, runVars
    <2>3. Rank \in Nat
        BY RankIs
    <2> QED BY <2>2, <2>3
<1>3. ~ Reap /\ ~ ClearAux
    BY DEF Reap, ClearAux
<1> QED BY <1>1, <1>2, <1>3

\* The safety half of RunEnds: retries, restorations, the rebuild and the
\* recovery restart of process_binary and start_idalib_mcp never chase one
\* another.  Every step of a run lowers a number that no fault raises and that
\* is at most 64 * (Skills + 5), so a run takes no more steps than that.
THEOREM RunsGetAhead ==
    Spec => [][/\ Run => Rank' < Rank
               /\ pc # "off" => Rank' <= Rank /\ Rank \in 1..64 * (Skills + 5)]_vars
<1>1. RunTypes /\ RunTypes' /\ [Next]_vars
        => [/\ Run => Rank' < Rank
            /\ pc # "off" => Rank' <= Rank /\ Rank \in 1..64 * (Skills + 5)]_vars
    <2> SUFFICES ASSUME RunTypes, RunTypes', Next
                 PROVE  /\ Run => Rank' < Rank
                        /\ pc # "off" => Rank' <= Rank /\ Rank \in 1..64 * (Skills + 5)
        OBVIOUS
    <2>1. Run => pc # "off" /\ Rank' < Rank
        BY StartRank, WorkRank DEF Run
    <2>2. ASSUME pc # "off" PROVE Rank' <= Rank /\ Rank \in 1..64 * (Skills + 5)
        <3>1. Rank = 64 * (PhaseRank + budget + left) + Position /\ Rank \in Nat /\ Rank > 0
            BY <2>2, RankIs
        <3>2. /\ PhaseRank \in 0..3 /\ budget \in 0..1 /\ left \in 0..Skills /\ Position \in 10..63 /\ Skills \in Nat
            BY RankTypes, SkillsAssumption DEF RunTypes, SkillsAssumption
        <3>3. Rank \in 1..64 * (Skills + 5)
            BY <3>1, <3>2
        <3>4. CASE Run
            <4>1. Rank' < Rank
                BY <2>1, <3>4
            <4>2. Rank' \in Nat
                BY RankTypesAfter
            <4> QED BY <3>1, <3>3, <4>1, <4>2
        <3>5. CASE ~Run
            <4>1. Hangs \/ Dies \/ Crash \/ Reap \/ ClearAux
                BY <2>2, <3>5 DEF Next, Begin
            <4> QED BY <2>2, <3>3, <4>1, AroundRank
        <3> QED BY <3>4, <3>5
    <2> QED BY <2>1, <2>2
<1>2. Init => RunTypes
    BY SkillsAssumption DEF Init, RunTypes, SkillsAssumption, None
<1> QED BY <1>1, <1>2, NextRunTypes, PTL DEF Spec
=============================================================================
