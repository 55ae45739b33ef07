----------------------------- MODULE ArrowLock -----------------------------
(***************************************************************************)
(* The advisory lockfile around one layer file of one hex, and the         *)
(* read-modify-write it protects (pipeline/lib/provenance.ts, acquireLock, *)
(* releaseLock and withArrowWrite).  Writers are processes of one host;    *)
(* each one writes the file once, claiming a row for its dataset behind    *)
(* ShouldOverwrite.                                                        *)
(*                                                                         *)
(* A lockfile is created by an O_EXCL open and receives its pid by a       *)
(* second call, so for a moment its body is empty.  `by` is the inode: the *)
(* writer that created it, through whose descriptor the pid arrives even   *)
(* when the name has been unlinked or given to another inode meanwhile.    *)
(***************************************************************************)
EXTENDS Sources

CONSTANTS
    Writer,         \* the processes that want to write the file
    Claim,          \* Claim[w]: the dataset id w stamps
    Nobody,         \* no lockfile; no body read yet
    Empty,          \* the body of a lockfile whose pid has not been written
    MaxCrashes,     \* bound: processes killed (SIGKILL, OOM)
    Patient         \* the writers whose wait never reaches the five minutes

ASSUME LockAssumption ==
    /\ Nobody \notin Writer /\ Empty \notin Writer /\ Nobody # Empty
    /\ Nobody \notin Registered
    /\ Claim \in [Writer -> Registered]
    /\ MaxCrashes \in Nat
    /\ Patient \subseteq Writer

VARIABLES
    lock,       \* <arrow>.lock: its inode's creator, its body, older than the grace
    reap,       \* <arrow>.lock.reap: likewise
    seen,       \* body of the lock each waiter read
    seenReap,   \* body of the reap file each waiter read
    row,        \* the file: the dataset id on the row
    tmp,        \* <arrow>.tmp: the id it holds, or Nobody when there is none
    buf,        \* the output table each writer has computed
    alive,
    pc,
    crashes,
    crowded,    \* history: two waiters at once were about to remove a lock without a pid
    robbed      \* history: the reap file of a live process was unlinked by a waiter

vars == <<lock, reap, seen, seenReap, row, tmp, buf, alive, pc, crashes, crowded, robbed>>
files == <<row, tmp, buf>>
life == <<alive, crashes>>
history == <<crowded, robbed>>

NoFile == [by |-> Nobody, body |-> Nobody, old |-> FALSE]
Fresh(w) == [by |-> w, body |-> Empty, old |-> FALSE]

Init ==
    /\ lock = NoFile /\ reap = NoFile
    /\ seen = [w \in Writer |-> Nobody]
    /\ seenReap = [w \in Writer |-> Nobody]
    /\ row = Unspecified /\ tmp = Nobody
    /\ buf = [w \in Writer |-> Unspecified]
    /\ alive = [w \in Writer |-> TRUE]
    /\ pc = [w \in Writer |-> "create"]
    /\ crashes = 0
    /\ crowded = FALSE /\ robbed = FALSE

Moves(w, from, to) ==
    /\ alive[w] /\ pc[w] = from
    /\ pc' = [pc EXCEPT ![w] = to]
    /\ UNCHANGED life

Goes(w, from, to) == Moves(w, from, to) /\ UNCHANGED history

\* MUTANT: a lock that never received its pid is waited for as if it were live.
HolderDeadByPid(body, file) == body \in Writer /\ ~alive[body]

\* kill(pid, 0), or the age of a file that holds no pid.
HolderDead(body, file) ==
    \/ body \in Writer /\ ~alive[body]
    \/ body = Empty /\ file # NoFile /\ file.old

--------------------------------------------------------------------------
(* acquireLock *)

Create(w) ==
    /\ lock = NoFile
    /\ Goes(w, "create", "writePid")
    /\ lock' = Fresh(w)
    /\ UNCHANGED <<reap, seen, seenReap, files>>

CreateExists(w) ==
    /\ lock # NoFile
    /\ Goes(w, "create", "read")
    /\ UNCHANGED <<lock, reap, seen, seenReap, files>>

\* Through the descriptor: the name may be another inode's by now.
WritePid(w) ==
    /\ Goes(w, "writePid", "load")
    /\ lock' = IF lock.by = w THEN [lock EXCEPT !.body = w, !.old = FALSE] ELSE lock
    /\ UNCHANGED <<reap, seen, seenReap, files>>

Read(w) ==
    /\ Goes(w, "read", IF lock = NoFile THEN "create" ELSE "judge")
    /\ seen' = [seen EXCEPT ![w] = lock.body]
    /\ UNCHANGED <<lock, reap, seenReap, files>>

\* From the verdict on the lock to its unlink, and, of those on that way, the live ones
\* that go by the age of a lock without a pid.  The history variables guard nothing.
Removing == {"reap", "reapPid", "recheck", "unlinkLock"}
TakesOrphan(w) == alive[w] /\ pc[w] \in Removing /\ seen[w] = Empty

Judge(w) ==
    /\ Moves(w, "judge", IF HolderDead(seen[w], lock) THEN "reap" ELSE "create")
    /\ crowded' = \/ crowded
                  \/ /\ HolderDead(seen[w], lock) /\ seen[w] = Empty
                     /\ \E v \in Writer : TakesOrphan(v)
    /\ UNCHANGED <<lock, reap, seen, seenReap, files, robbed>>

CreateReap(w) ==
    /\ reap = NoFile
    /\ Goes(w, "reap", "reapPid")
    /\ reap' = Fresh(w)
    /\ UNCHANGED <<lock, seen, seenReap, files>>

CreateReapExists(w) ==
    /\ reap # NoFile
    /\ Goes(w, "reap", "readReap")
    /\ UNCHANGED <<lock, reap, seen, seenReap, files>>

WriteReapPid(w) ==
    /\ Goes(w, "reapPid", "recheck")
    /\ reap' = IF reap.by = w THEN [reap EXCEPT !.body = w, !.old = FALSE] ELSE reap
    /\ UNCHANGED <<lock, seen, seenReap, files>>

\* A reap file that is gone reads as the empty body.
ReadReap(w) ==
    /\ Goes(w, "readReap", "judgeReap")
    /\ seenReap' = [seenReap EXCEPT ![w] = IF reap = NoFile THEN Empty ELSE reap.body]
    /\ UNCHANGED <<lock, reap, seen, files>>

JudgeReap(w) ==
    /\ Goes(w, "judgeReap", IF HolderDead(seenReap[w], reap) THEN "unlinkReap" ELSE "create")
    /\ UNCHANGED <<lock, reap, seen, seenReap, files>>

\* The benign unlink race: whatever carries the name goes.
UnlinkReap(w) ==
    /\ Moves(w, "unlinkReap", "create")
    /\ reap' = NoFile
    /\ robbed' = (robbed \/ \E v \in Writer : reap.by = v /\ alive[v])
    /\ UNCHANGED <<lock, seen, seenReap, files, crowded>>

\* MUTANT: the holder of the reap file trusts what it read before.
RecheckSkipped(w) ==
    /\ Goes(w, "recheck", "unlinkLock")
    /\ UNCHANGED <<lock, reap, seen, seenReap, files>>

Recheck(w) ==
    /\ Goes(w, "recheck", IF lock.body = seen[w] THEN "unlinkLock" ELSE "unreap")
    /\ UNCHANGED <<lock, reap, seen, seenReap, files>>

UnlinkLock(w) ==
    /\ Goes(w, "unlinkLock", "unreap")
    /\ lock' = NoFile
    /\ UNCHANGED <<reap, seen, seenReap, files>>

Unreap(w) ==
    /\ Goes(w, "unreap", "create")
    /\ reap' = NoFile
    /\ UNCHANGED <<lock, seen, seenReap, files>>

\* The wait is measured at the head of the loop.
GiveUp(w) ==
    /\ w \notin Patient
    /\ Goes(w, "create", "failed")
    /\ UNCHANGED <<lock, reap, seen, seenReap, files>>

--------------------------------------------------------------------------
(* withArrowWrite and releaseLock *)

\* MUTANT: the callback stamps without asking ShouldOverwrite.
LoadUngated(w) ==
    /\ Goes(w, "load", "openTmp")
    /\ buf' = [buf EXCEPT ![w] = Claim[w]]
    /\ UNCHANGED <<lock, reap, seen, seenReap, row, tmp>>

\* The callback: the same table means no change, and no write.
Load(w) ==
    LET wins == ShouldOverwrite(row, Claim[w]) /\ row # Claim[w]
    IN  /\ Goes(w, "load", IF wins THEN "openTmp" ELSE "release")
        /\ buf' = [buf EXCEPT ![w] = IF wins THEN Claim[w] ELSE row]
        /\ UNCHANGED <<lock, reap, seen, seenReap, row, tmp>>

\* writeFile truncates, then writes.
OpenTmp(w) ==
    /\ Goes(w, "openTmp", "writeTmp")
    /\ tmp' = Unspecified
    /\ UNCHANGED <<lock, reap, seen, seenReap, row, buf>>

WriteTmp(w) ==
    /\ Goes(w, "writeTmp", "rename")
    /\ tmp' = buf[w]
    /\ UNCHANGED <<lock, reap, seen, seenReap, row, buf>>

\* With no temporary file the rename throws; the finally releases the lock.
Rename(w) ==
    /\ Goes(w, "rename", "release")
    /\ row' = IF tmp = Nobody THEN row ELSE tmp
    /\ tmp' = Nobody
    /\ UNCHANGED <<lock, reap, seen, seenReap, buf>>

Release(w) ==
    /\ Goes(w, "release", IF lock.body = w THEN "unlinkOwn" ELSE "done")
    /\ UNCHANGED <<lock, reap, seen, seenReap, files>>

UnlinkOwn(w) ==
    /\ Goes(w, "unlinkOwn", "done")
    /\ lock' = NoFile
    /\ UNCHANGED <<reap, seen, seenReap, files>>

--------------------------------------------------------------------------
(* Time and death *)

\* Two seconds pass over an empty body.  A live creator writes its pid within
\* the grace.
AgeLock ==
    /\ lock.body = Empty /\ ~lock.old /\ ~alive[lock.by]
    /\ lock' = [lock EXCEPT !.old = TRUE]
    /\ UNCHANGED <<reap, seen, seenReap, files, life, history, pc>>

AgeReap ==
    /\ reap.body = Empty /\ ~reap.old /\ ~alive[reap.by]
    /\ reap' = [reap EXCEPT !.old = TRUE]
    /\ UNCHANGED <<lock, seen, seenReap, files, life, history, pc>>

Finished(w) == pc[w] \in {"done", "failed"}

\* SIGKILL or OOM, wherever the process stands.
Crash(w) ==
    /\ alive[w] /\ ~Finished(w) /\ crashes < MaxCrashes
    /\ alive' = [alive EXCEPT ![w] = FALSE]
    /\ crashes' = crashes + 1
    /\ UNCHANGED <<lock, reap, seen, seenReap, files, history, pc>>

Waiting(w) ==
    \/ Create(w) \/ CreateExists(w) \/ WritePid(w) \/ Read(w) \/ Judge(w)
    \/ CreateReap(w) \/ CreateReapExists(w) \/ WriteReapPid(w)
    \/ ReadReap(w) \/ JudgeReap(w) \/ UnlinkReap(w)
    \/ Recheck(w) \/ UnlinkLock(w) \/ Unreap(w)

Writing(w) ==
    \/ Load(w) \/ OpenTmp(w) \/ WriteTmp(w) \/ Rename(w)
    \/ Release(w) \/ UnlinkOwn(w)

Age == AgeLock \/ AgeReap

Next ==
    \/ \E w \in Writer : Waiting(w) \/ GiveUp(w) \/ Writing(w) \/ Crash(w)
    \/ Age

Spec == Init /\ [][Next]_vars

\* The operating system schedules every live process, and time passes.
FairSpec ==
    /\ Spec
    /\ \A w \in Writer : WF_vars(Waiting(w)) /\ WF_vars(Writing(w))
    /\ WF_vars(Age)

--------------------------------------------------------------------------
Location == {"create", "writePid", "read", "judge", "reap", "reapPid", "recheck",
             "unlinkLock", "unreap", "readReap", "judgeReap", "unlinkReap",
             "load", "openTmp", "writeTmp", "rename", "release", "unlinkOwn",
             "done", "failed"}
LockFile == [by : Writer \cup {Nobody}, body : Writer \cup {Nobody, Empty}, old : BOOLEAN]

\* Types of the lockfile protocol and the file; a waiter judges only a body it
\* has read.
TypeOK ==
    /\ lock \in LockFile /\ reap \in LockFile
    /\ seen \in [Writer -> Writer \cup {Nobody, Empty}]
    /\ seenReap \in [Writer -> Writer \cup {Nobody, Empty}]
    /\ row \in Registered \cup {Unspecified}
    /\ tmp \in Registered \cup {Unspecified, Nobody}
    /\ buf \in [Writer -> Registered \cup {Unspecified}]
    /\ alive \in [Writer -> BOOLEAN]
    /\ pc \in [Writer -> Location]
    /\ \A w \in Writer : /\ pc[w] = "judge" => seen[w] # Nobody
                         /\ pc[w] = "judgeReap" => seenReap[w] # Nobody
    /\ crashes \in 0 .. MaxCrashes
    /\ crowded \in BOOLEAN /\ robbed \in BOOLEAN

Holding(w) == alive[w] /\ pc[w] \in {"load", "openTmp", "writeTmp", "rename"}

\* No two live processes are between acquireLock and releaseLock on one arrow file
\* (provenance.ts: "The two-reapers window is closed by the `.reap` mutex and the
\* empty-inode window by a 2 s creation grace").  As it stands, without a condition, the
\* code does not keep it: ArrowOrphan.cfg shows how.
MutualExclusion == \A v, w \in Writer : Holding(v) /\ Holding(w) => v = w

\* The same, as long as no two waiters went at once for a lock without a pid: a lock that
\* holds a dead pid, and a reap file left behind, are recovered by any number of waiters
\* (provenance.ts: "handled by the same PID probe and a benign unlink race").  The code
\* does not keep this either: ArrowReapers.cfg shows how.
ReapMutexSuffices == ~crowded => MutualExclusion

\* The recoveries the lock stands: those in which no two waiters were at once on their way
\* to remove a lock without a pid, and no waiter has unlinked a live reaper's file.
LoneRecovery == ~crowded /\ ~robbed

\* While recoveries are lone, no two live processes are between acquireLock and releaseLock
\* on one arrow file, whichever processes were killed and wherever, and however many
\* waiters find the lock of a dead one (the failure acquireLock's comments guard against).
RecoveryExcludes == LoneRecovery => MutualExclusion

\* While recoveries are lone, a writer that has finished finds its claim on the row, or one
\* that outranks it: no later read-modify-write of the same file drops it, and the shared
\* temporary file never carries another writer's table into place.
RecoveryLosesNothing ==
    LoneRecovery =>
        \A w \in Writer : pc[w] = "done" =>
            row = Claim[w] \/ (row \in Registered /\ Outranks(row, Claim[w]))

\* Killed processes never brick the file, wherever they were killed: every patient writer
\* that is not killed gets its turn and finishes (acquireLock's stale-lock recovery).
StaleLockRecovered ==
    \A w \in Patient : <>(pc[w] = "done" \/ ~alive[w])
=============================================================================
