------------------------------ MODULE Attachment ------------------------------
(***************************************************************************)
(* Discovering a game process, attaching to it and acquiring from it       *)
(* (memory-reader: target.rs, native/discovery.rs, native/attachment.rs,   *)
(* native/access.rs).  A process is named by its pid, and the operating    *)
(* system may give the pid to another process between any two system calls *)
(* of the reader; a process instance is a pid with its creation marker.    *)
(*                                                                         *)
(* One pid is modelled: the others cannot be confused with it.             *)
(***************************************************************************)
EXTENDS Naturals, Sequences, FiniteSets

CONSTANTS
    MaxProcesses,   \* processes that ever have the pid
    Reads           \* reads of one acquisition

AttachmentAssumption == MaxProcesses \in Nat /\ Reads \in Nat \ {0}

VARIABLES
    process,    \* what has the pid: [marker, game, state], marker 0 if nothing
    started,    \* processes started so far
    pc,         \* where the reader is
    target,     \* marker of the discovered instance, 0 before
    ok,         \* the operation between two identity checks succeeded
    seen,       \* marker of the process that ran under the pid during it, 0 if none
    memory,     \* marker of the process whose address space is open, 0 if none
    done,       \* reads of this acquisition
    games,      \* the processes that were the game
    result      \* "none", "published" or the error

vars == <<process, started, pc, target, ok, seen, memory, done, games, result>>

Nobody == [marker |-> 0, game |-> FALSE, state |-> "absent"]

Init ==
    /\ process = Nobody /\ started = 0
    /\ pc = "enumerate" /\ target = 0 /\ ok = FALSE /\ seen = 0 /\ memory = 0
    /\ done = 0 /\ result = "none" /\ games = {}

-----------------------------------------------------------------------------
(* The operating system.                                                    *)

StartProcess(game) ==
    /\ process.state = "absent" /\ started < MaxProcesses
    /\ started' = started + 1
    /\ process' = [marker |-> started + 1, game |-> game, state |-> "running"]
    /\ games' = IF game THEN games \cup {started + 1} ELSE games
    /\ UNCHANGED <<pc, target, ok, seen, memory, done, result>>

\* An exited process keeps its pid and its start time until it is reaped.
ExitProcess ==
    /\ process.state = "running"
    /\ process' = [process EXCEPT !.state = "zombie"]
    /\ UNCHANGED <<started, games, pc, target, ok, seen, memory, done, result>>

Reap ==
    /\ process.state = "zombie"
    /\ process' = Nobody
    /\ UNCHANGED <<started, games, pc, target, ok, seen, memory, done, result>>

\* process_start_marker: none for a process that has exited.
StartMarker == IF process.state = "running" THEN process.marker ELSE 0

\* Reads go to the address space that was opened, whatever has the pid now.
Answers == memory # 0 /\ process.marker = memory /\ process.state = "running"

-----------------------------------------------------------------------------
(* Discovery.                                                               *)

Go(next) == pc' = next /\ UNCHANGED <<process, started, games, target, ok, seen, memory, done, result>>

\* Any error ends the attachment; the lifecycle discovers again.
Fail(error) ==
    /\ result' = error
    /\ pc' = "enumerate" /\ target' = 0 /\ ok' = FALSE /\ seen' = 0
    /\ memory' = 0 /\ done' = 0
    /\ UNCHANGED <<process, started, games>>

\* The matcher selects the process from the list by its metadata; the list, or the
\* native view it is made with, may not be had.
Enumerate ==
    /\ pc = "enumerate"
    /\ \/ Fail("Discovery")
       \/ process.game /\ Go("identify")

\* The identity is asked for after the list was made: it may be another's.
Identify ==
    /\ pc = "identify"
    /\ IF StartMarker = 0 THEN Fail("omitted")
       ELSE /\ target' = StartMarker /\ pc' = "attach"
            /\ UNCHANGED <<process, started, games, ok, seen, memory, done, result>>

-----------------------------------------------------------------------------
(* attach.                                                                  *)

is_current == StartMarker = target

\* ensure_current
EnsureCurrent(at, next) ==
    /\ pc = at
    /\ IF is_current THEN Go(next) ELSE Fail("TargetChanged")

\* Mutant: the result is looked at before the identity.
ResultFirst(at, next, errors) ==
    /\ pc = at
    /\ \/ ~ok /\ \E error \in errors : Fail(error)
       \/ ok /\ ~is_current /\ Fail("TargetChanged")
       \/ ok /\ is_current /\ Go(next)

\* The end of with_current_process: the identity comes before the result.
Conclude(at, next, errors) ==
    /\ pc = at
    /\ \/ ~is_current /\ Fail("TargetChanged")
       \/ is_current /\ ok /\ Go(next)
       \/ is_current /\ ~ok /\ \E error \in errors : Fail(error)

\* native_os and process_info_by_pid: each may fail for reasons of its own.
ProcessInfo ==
    /\ pc = "info"
    /\ \/ Fail("Discovery")
       \/ Fail("Open")
       \/ process.state = "absent" /\ Fail("TargetNotFound")
       \/ process.state # "absent" /\ Go("recheck")

OpenProcess ==
    /\ pc = "open"
    /\ \/ Fail("Open")
       \/ process.state # "absent" /\ Go("before_modules")

Attempt(at, next, succeeds) ==
    /\ pc = at
    /\ ok' = succeeds /\ seen' = StartMarker /\ pc' = next
    /\ UNCHANGED <<process, started, games, target, memory, done, result>>

\* The executable among the modules of whatever has the pid: there only if that is
\* the game, and perhaps not listed, or not mapped yet.
LookUpModule ==
    \E listed \in BOOLEAN :
       Attempt("modules", "after_modules", listed /\ process.game /\ process.state = "running")

ModuleErrors == {"NoExecutableModule", "Modules"}

\* /proc/PID/mem of whatever has the pid at this moment.
OpenMemory ==
    /\ pc = "open_memory"
    /\ \/ Fail("Open")
       \/ /\ process.state = "running"
          /\ memory' = process.marker /\ pc' = "verify"
          /\ UNCHANGED <<process, started, games, target, ok, seen, done, result>>

-----------------------------------------------------------------------------
(* verify, and the acquisition it surrounds.                                *)

\* The probed byte of the executable, readable or not.
Probe == \E readable \in BOOLEAN : Attempt("probe", "after_probe", Answers /\ readable)

ReadInto ==
    /\ pc = "reading"
    /\ \/ Fail("Read")
       \/ /\ Answers
          /\ done' = done + 1
          /\ pc' = IF done + 1 = Reads THEN "verify" ELSE "reading"
          /\ UNCHANGED <<process, started, games, target, ok, seen, memory, result>>

\* A verification opens the acquisition or, after its reads, closes it.
Verified ==
    /\ pc = "verified"
    /\ pc' = "reading" /\ done' = 0
    /\ result' = IF done = 0 THEN result ELSE "published"
    /\ UNCHANGED <<process, started, games, target, ok, seen, memory>>

Reader ==
    \/ Enumerate \/ Identify
    \/ EnsureCurrent("attach", "info") \/ ProcessInfo
    \/ EnsureCurrent("recheck", "open") \/ OpenProcess
    \/ EnsureCurrent("before_modules", "modules") \/ LookUpModule
    \/ Conclude("after_modules", "open_memory", ModuleErrors) \/ OpenMemory
    \/ EnsureCurrent("verify", "probe") \/ Probe
    \/ Conclude("after_probe", "verified", {"Read"}) \/ Verified \/ ReadInto

OS == (\E g \in BOOLEAN : StartProcess(g)) \/ ExitProcess \/ Reap

Next == Reader \/ OS

Spec == Init /\ [][Next]_vars

-----------------------------------------------------------------------------
(* Properties.                                                              *)

\* Shape of the state; nothing of an attachment is left after its error.
TypeOK ==
    /\ process \in [marker : 0 .. MaxProcesses, game : BOOLEAN,
                    state : {"absent", "running", "zombie"}]
    /\ started \in 0 .. MaxProcesses /\ games \subseteq 1 .. started
    /\ {target, memory, seen} \subseteq 0 .. started
    /\ done \in 0 .. Reads /\ ok \in BOOLEAN
    /\ pc = "enumerate" => target = 0 /\ memory = 0 /\ done = 0
    /\ pc = "reading" => done < Reads

\* A finished attachment reads the address space of the very process instance
\* that was discovered, and that instance is the game: not a process that got
\* the pid after the list, between two identity checks or before the memory
\* file was opened (attach, AttachedTarget::verify).
AttachedIsTarget ==
    (pc \in {"reading", "verified"} \/ done > 0) => (memory = target /\ target \in games)

\* An error that verify or the look-up of the module reports of the target is of
\* the target: what failed ran while the target itself still ran, not after it had
\* exited nor on the process that has its pid now; and an attachment whose process
\* is said to be gone was to one that has exited (with_current_process).  The Open
\* errors and a Read of the acquisition itself are not checked, and promise less.
CauseIsTrue ==
    pc # "enumerate" /\ pc' = "enumerate" =>
       /\ result' \in ModuleErrors \/ (pc = "after_probe" /\ result' = "Read") => seen = target
       /\ result' \in {"TargetChanged", "TargetNotFound"} => StartMarker # target
=============================================================================
