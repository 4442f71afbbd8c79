----------------------------- MODULE IdaDatabase -----------------------------
(***************************************************************************)
(* The IDA database of one binary, on disk and under the idalib-mcp server *)
(* that process_binary of ida_analyze_bin.py starts, verifies, restarts    *)
(* and stops, in any number of runs one after the other: the packed .i64   *)
(* (or .idb), the unpacked parts it works in, and the .lastgood copy of    *)
(* the packed file.                                                        *)
(*                                                                         *)
(* A database is told apart by what becomes of opening it:                 *)
(*   good     opens and is of this binary      foreign  of another binary  *)
(*   bad      has a header, does not open      broken   has no header      *)
(*   partial  unpacked only: analysis was cut short                        *)
(*   stray    unpacked only: without .id0                                  *)
(* The file set aside as .unopenable-<stamp> is not kept: no code reads    *)
(* it.  A shard takes no copy; the runs here are not shards.               *)
(***************************************************************************)
EXTENDS Integers

CONSTANTS
    Skills,         \* skills of a run that get as far as the server
    RestoresParts   \* does IDA open unpacked parts that lie beside a packed file?

ASSUME SkillsAssumption == Skills \in Nat /\ RestoresParts \in BOOLEAN

VARIABLES
    packed,     \* the .i64
    parts,      \* .id0, .id1, ...
    copy,       \* the .lastgood
    same,       \* do packed and copy have the same size and mtime?
    server,     \* "down", "up", or "hung": alive and not answering
    open,       \* the database the server holds
    pc,         \* what process_binary does next; "off": there is no run
    strict,     \* require_warm_idb
    quiet,      \* own_session: without -debug
    phase,      \* which database it is about: "first", "copy", "rebuild", "work"
    restored,   \* _restored: no further copy is put back
    budget,     \* remaining_restarts
    again,      \* is the verification to come the one after a recovery?
    warm,       \* start_idalib_mcp found a packed database
    attempt,
    fail,       \* how the last attempt failed
    left        \* skills

diskVars  == <<packed, parts, copy, same>>
startVars == <<restored, again, warm, attempt, fail>>
runVars   == <<strict, quiet, phase, budget, left>>
vars      == <<diskVars, server, open, pc, startVars, runVars>>

None     == "none"
Openable == {"good", "foreign"}
Content  == Openable \union {"bad", "broken", None}

TypeOK ==
    /\ packed \in Content
    /\ parts \in Openable \union {"partial", "stray", None}
    /\ copy \in Openable \union {"bad", None}
    /\ same \in BOOLEAN
    /\ server \in {"down", "up", "hung"}
    /\ open \in Openable \union {None}
    /\ pc \in {"off", "start", "boot", "retry", "tail", "putback", "scrap", "refused",
               "verify", "recover", "judge", "restore", "save", "skill", "ensure", "work", "stop"}
    /\ strict \in BOOLEAN /\ quiet \in BOOLEAN
    /\ phase \in {"first", "copy", "rebuild", "work"}
    /\ restored \in BOOLEAN
    /\ budget \in 0..1
    /\ again \in BOOLEAN
    /\ warm \in BOOLEAN
    /\ attempt \in 1..2
    /\ fail \in {"exit", "timeout", "unopenable", None}
    /\ left \in 0..Skills

HasDb        == packed \notin {"broken", None}
Locked       == parts \in Openable \union {"partial"}
FilesPresent == packed # None \/ parts # None

Invalidate == packed' = None /\ parts' = None /\ same' = FALSE

\* The copy has a header and is not what failed to open.
CanRestore == copy # None /\ ~(packed # None /\ same /\ ~Locked)

\* What becomes of the files of database c when its server ends: it was packed,
\* in order or not; it was killed while packing; or it was killed before.
Closed(c) ==
    \/ packed' \in {c, "bad"} /\ parts' = None /\ same' = FALSE
    \/ packed' \in {"bad", "broken"} /\ parts' = c /\ same' = FALSE
    \/ packed' = packed /\ parts' = c /\ same' = same

\* stop_idalib_mcp_process, quit_ida_gracefully: nothing to do without a process.
StopServer ==
    /\ server' = "down" /\ open' = None
    /\ IF server = "down" THEN UNCHANGED <<packed, parts, same>> ELSE Closed(open)

Init ==
    /\ packed \in Content /\ parts = None
    /\ copy = None /\ same = FALSE
    /\ server = "down" /\ open = None
    /\ pc = "off"
    /\ strict = FALSE /\ quiet = TRUE /\ phase = "first" /\ budget = 1 /\ left = Skills
    /\ restored = FALSE /\ again = FALSE /\ warm = FALSE /\ attempt = 1 /\ fail = None

\* The end of a run: its variables are gone.
Leave ==
    /\ pc' = "off"
    /\ strict' = FALSE /\ quiet' = TRUE /\ phase' = "first" /\ budget' = 1 /\ left' = Skills
    /\ restored' = FALSE /\ again' = FALSE /\ warm' = FALSE /\ attempt' = 1 /\ fail' = None

-----------------------------------------------------------------------------
(* process_binary up to the start.                                          *)

Begin ==
    /\ pc = "off"
    /\ strict' \in BOOLEAN /\ quiet' \in BOOLEAN
    /\ strict' => HasDb
    /\ ~Locked
    /\ pc' = "start"
    /\ UNCHANGED <<diskVars, server, open, startVars, phase, budget, left>>

-----------------------------------------------------------------------------
(* start_idalib_mcp.                                                        *)

\* A cold start deletes what IDA would trip over.
Start ==
    /\ pc = "start"
    /\ warm' = HasDb
    /\ packed' = IF HasDb THEN packed ELSE None
    /\ same' = (same /\ HasDb)
    /\ parts' = IF ~HasDb /\ ~Locked THEN None ELSE parts
    /\ attempt' = 1 /\ fail' = None
    /\ pc' = "boot"
    /\ UNCHANGED <<copy, server, open, restored, again, runVars>>

\* The port is still taken.
StartRefused ==
    /\ pc = "start"
    /\ pc' = "refused"
    /\ UNCHANGED <<diskVars, server, open, startVars, runVars>>

\* What IDA may open: the packed file, parts it can restore, or, with neither,
\* the binary, which it then analyses.
Opens ==
    UNION { {packed} \intersect Openable,
            IF packed = None \/ RestoresParts THEN {parts} \intersect Openable ELSE {},
            IF packed = None /\ ~Locked THEN {"good"} ELSE {} }

Opened(c) == server' = "up" /\ open' = c /\ parts' = c

Boots ==
    /\ pc = "boot"
    /\ \E c \in Opens : Opened(c)
    /\ pc' = "verify"
    /\ UNCHANGED <<packed, copy, same, startVars, runVars>>

\* It exits, with one of UNOPENABLE_LOG_MARKERS where IDA refuses the file, or
\* does not open its port in time and is killed.
BootFails ==
    /\ pc = "boot"
    /\ \/ fail' \in {"exit", "timeout"} /\ warm /\ UNCHANGED <<packed, parts, same>>
       \/ fail' = "unopenable" /\ packed = "bad" /\ UNCHANGED <<packed, parts, same>>
       \/ fail' \in {"exit", "timeout"} /\ warm /\ \E c \in Opens : Closed(c)
       \/ /\ fail' \in {"exit", "timeout"} /\ ~warm
          /\ parts' \in {parts, "partial"} /\ UNCHANGED <<packed, same>>
    /\ pc' = "retry"
    /\ UNCHANGED <<copy, server, open, restored, again, warm, attempt, runVars>>

\* A cold analysis that ran out of time is not tried again, nor is a database
\* that IDA refuses.
Retry ==
    /\ pc = "retry"
    /\ \/ ~warm /\ fail = "timeout" /\ Invalidate /\ pc' = "refused" /\ attempt' = attempt
       \/ /\ warm /\ fail = "unopenable"
          /\ pc' = "tail"
          /\ UNCHANGED <<packed, parts, same, attempt>>
       \/ /\ IF warm THEN fail # "unopenable" ELSE fail # "timeout"
          /\ attempt = 1 /\ attempt' = 2
          /\ IF warm THEN UNCHANGED <<packed, parts, same>> ELSE Invalidate
          /\ pc' = "boot"
       \/ /\ IF warm THEN fail # "unopenable" ELSE fail # "timeout"
          /\ attempt = 2 /\ attempt' = attempt
          /\ pc' = "tail"
          /\ UNCHANGED <<packed, parts, same>>
    /\ UNCHANGED <<copy, server, open, restored, again, warm, fail, runVars>>

\* Both attempts of a warm start failed: once, the last-good copy takes the
\* place of the database, which is set aside first.
Tail ==
    /\ pc = "tail"
    /\ IF warm /\ quiet /\ ~restored /\ CanRestore
       THEN Invalidate /\ pc' = "putback"
       ELSE pc' = "scrap" /\ UNCHANGED <<packed, parts, same>>
    /\ UNCHANGED <<copy, server, open, startVars, runVars>>

\* Mutant: the start that follows a restoration restores again.
PutBack_Forgets ==
    /\ pc = "putback"
    /\ \/ packed' = copy /\ same' = TRUE /\ restored' = restored /\ pc' = "start"
       \/ /\ pc' = IF restored THEN "start" ELSE "scrap"
          /\ UNCHANGED <<packed, same, restored>>
    /\ UNCHANGED <<parts, copy, server, open, again, warm, attempt, fail, runVars>>

\* The rest of _restore_lastgood_idb, and the start that follows; copying may fail.
PutBack ==
    /\ pc = "putback"
    /\ \/ packed' = copy /\ same' = TRUE /\ restored' = TRUE /\ pc' = "start"
       \/ /\ pc' = IF restored THEN "start" ELSE "scrap"
          /\ UNCHANGED <<packed, same, restored>>
    /\ UNCHANGED <<parts, copy, server, open, again, warm, attempt, fail, runVars>>

\* Without a copy, a database that IDA refuses is set aside and the binary is
\* analysed from scratch.
Scrap ==
    /\ pc = "scrap"
    /\ IF warm /\ quiet /\ fail = "unopenable"
       THEN /\ Invalidate
            /\ IF packed # None THEN pc' = "start" /\ restored' = FALSE
                                ELSE pc' = "refused" /\ restored' = restored
       ELSE pc' = "refused" /\ UNCHANGED <<packed, parts, same, restored>>
    /\ UNCHANGED <<copy, server, open, again, warm, attempt, fail, runVars>>

\* start_idalib_mcp returned None.
Refused ==
    /\ pc = "refused"
    /\ IF phase = "first" /\ ~again
       THEN Leave
       ELSE pc' = "judge" /\ UNCHANGED <<startVars, runVars>>
    /\ UNCHANGED <<diskVars, server, open>>

-----------------------------------------------------------------------------
(* Verification and the one recovery.                                       *)

\* Mutant: the verification after a recovery only asks for an answer.
VerifyOk_Recovered ==
    /\ pc = "verify"
    /\ server = "up" /\ (open = "good" \/ again)
    /\ pc' = IF phase = "work" THEN "work" ELSE "save"
    /\ again' = FALSE
    /\ UNCHANGED <<diskVars, server, open, restored, warm, attempt, fail, runVars>>

VerifyOk ==
    /\ pc = "verify"
    /\ server = "up" /\ open = "good"
    /\ pc' = IF phase = "work" THEN "work" ELSE "save"
    /\ again' = FALSE
    /\ UNCHANGED <<diskVars, server, open, restored, warm, attempt, fail, runVars>>

\* Another binary's database, or an answer that cannot be used.
VerifyFails ==
    /\ pc = "verify"
    /\ pc' = "judge"
    /\ UNCHANGED <<diskVars, server, open, startVars, runVars>>

\* McpDatabaseUnavailableError: recovered from once per verification.
VerifyUnavailable ==
    /\ pc = "verify"
    /\ pc' = IF again THEN "judge" ELSE "recover"
    /\ UNCHANGED <<diskVars, server, open, startVars, runVars>>

\* ensure_mcp_available, before a skill or on the way to the second
\* verification; the restart is one for the whole binary.
Healthy ==
    /\ pc \in {"recover", "ensure"}
    /\ server = "up"
    /\ again' = (pc = "recover")
    /\ pc' = "verify"
    /\ UNCHANGED <<diskVars, server, open, restored, warm, attempt, fail, runVars>>

\* Mutant: the recovery budget is not looked at.
Restart_Unlimited ==
    /\ pc \in {"recover", "ensure"}
    /\ server # "up"
    /\ again' = (pc = "recover")
    /\ budget' = budget - 1 /\ restored' = FALSE
    /\ StopServer
    /\ pc' = "start"
    /\ UNCHANGED <<copy, warm, attempt, fail, strict, quiet, phase, left>>

Restart ==
    /\ pc \in {"recover", "ensure"}
    /\ server # "up"
    /\ again' = (pc = "recover")
    /\ IF budget = 1
       THEN /\ budget' = 0 /\ restored' = FALSE
            /\ StopServer
            /\ pc' = "start"
       ELSE /\ pc' = "judge"
            /\ UNCHANGED <<packed, parts, same, server, open, budget, restored>>
    /\ UNCHANGED <<copy, warm, attempt, fail, strict, quiet, phase, left>>

TriesCopy == phase = "first" /\ copy # None /\ ~same

\* Mutant: -require_warm_idb is not asked.
Rebuilds_Always == phase \in {"first", "copy"} /\ ~TriesCopy /\ FilesPresent

Rebuilds == phase \in {"first", "copy"} /\ ~TriesCopy /\ FilesPresent /\ ~strict

\* The opened database was not verified: the last-good copy is tried if it is
\* another file, the database is rebuilt if that is allowed, the run gives up.
Judge ==
    /\ pc = "judge"
    /\ again' = FALSE
    /\ \/ /\ TriesCopy
          /\ StopServer
          /\ phase' = "copy" /\ restored' = TRUE
          /\ pc' = "restore"
       \/ /\ Rebuilds
          /\ server' = "down" /\ open' = None
          /\ Invalidate
          /\ phase' = "rebuild" /\ restored' = FALSE
          /\ pc' = "start"
       \/ /\ ~TriesCopy /\ ~Rebuilds
          /\ pc' = "stop"
          /\ UNCHANGED <<packed, parts, same, server, open, phase, restored>>
    /\ UNCHANGED <<copy, warm, attempt, fail, strict, quiet, budget, left>>

\* _restore_lastgood_idb after the stop; whatever it says, the server is started.
Restore ==
    /\ pc = "restore"
    /\ IF CanRestore THEN Invalidate /\ pc' = "putback"
                     ELSE pc' = "start" /\ UNCHANGED <<packed, parts, same>>
    /\ UNCHANGED <<copy, server, open, startVars, runVars>>

\* _save_lastgood_idb: what is copied is the packed file as it lies there.
Save ==
    /\ pc = "save"
    /\ \/ HasDb /\ ~same /\ copy' = packed /\ same' = TRUE
       \/ UNCHANGED <<copy, same>>
    /\ phase' = "work"
    /\ pc' = "skill"
    /\ UNCHANGED <<packed, parts, server, open, startVars, strict, quiet, budget, left>>

-----------------------------------------------------------------------------
(* The skills and the end.                                                  *)

\* A skill, a vcall target or the renaming pass: each makes sure of the server.
NextSkill ==
    /\ pc = "skill"
    /\ IF left > 0 THEN left' = left - 1 /\ pc' = "ensure"
                   ELSE left' = left /\ pc' = "stop"
    /\ UNCHANGED <<diskVars, server, open, startVars, strict, quiet, phase, budget>>

Work ==
    /\ pc = "work"
    /\ pc' = "skill"
    /\ UNCHANGED <<diskVars, server, open, startVars, runVars>>

Stop ==
    /\ pc = "stop"
    /\ StopServer
    /\ Leave
    /\ UNCHANGED copy

-----------------------------------------------------------------------------
(* What happens around the run.                                             *)

\* The supervisor hangs, or its process exits; its files stay as they are.
Hangs ==
    /\ server = "up"
    /\ server' = "hung"
    /\ UNCHANGED <<diskVars, open, pc, startVars, runVars>>

Dies ==
    /\ server # "down" /\ pc # "off"
    /\ server' = "down" /\ open' = None
    /\ UNCHANGED <<diskVars, pc, startVars, runVars>>

\* The run is killed; a server, also one that is booting, lives on.  (A Ctrl-C
\* stops the server as well: that is Crash and Reap.)
Crash ==
    /\ pc # "off"
    /\ Leave
    /\ IF pc = "boot" THEN (\E c \in Opens : Opened(c)) \/ UNCHANGED <<server, open, parts>>
                      ELSE UNCHANGED <<server, open, parts>>
    /\ UNCHANGED <<packed, copy, same>>

\* Between runs: the scripts end the server of the run's port, and those without
\* an owner, and then delete the parts nobody holds.
Reap ==
    /\ pc = "off" /\ server # "down"
    /\ StopServer
    /\ UNCHANGED <<copy, pc, startVars, runVars>>

ClearAux ==
    /\ pc = "off" /\ server = "down"
    /\ parts # None /\ parts' = None
    /\ UNCHANGED <<packed, copy, same, server, open, pc, startVars, runVars>>

Run ==
    \/ Start \/ StartRefused \/ Boots \/ BootFails \/ Retry \/ Tail \/ PutBack \/ Scrap
    \/ Refused \/ VerifyOk \/ VerifyFails \/ VerifyUnavailable \/ Healthy \/ Restart
    \/ Judge \/ Restore \/ Save \/ NextSkill \/ Work \/ Stop

Next == Begin \/ Run \/ Hangs \/ Dies \/ Crash \/ Reap \/ ClearAux

Spec == Init /\ [][Next]_vars

\* A run takes its steps; when one is begun and what fails is left open.
FairSpec == Spec /\ WF_vars(Run)

-----------------------------------------------------------------------------
(* Properties.                                                              *)

\* The last-good copy, taken of the packed file while IDA works in the unpacked
\* one, is never a file that does not open or is of another binary, whatever
\* stops, kills and crashes come before (_save_lastgood_idb).
CopyIsVerified == copy \in {"good", None}

\* Under -require_warm_idb a database that IDA can open is only ever taken away
\* to put the last-good copy in its place, never for an analysis from scratch.
StrictKeepsDatabase ==
    [][strict /\ packed \in Openable /\ packed' = None
          => copy # None /\ pc' = "putback"]_vars

\* Every run comes to its end: retries, restorations, the rebuild and the
\* recovery restart never chase one another.
RunEnds == pc # "off" ~> pc = "off"
=============================================================================
