---------------------------- MODULE IngestionLock ----------------------------
(***************************************************************************)
(* The ingestion-run lock, FileLockIngestionRunLock: one file per request  *)
(* id, valid for Ttl ticks after it was written, looked at and written by  *)
(* processes (ingestion Jobs) that share nothing but the lock directory.   *)
(*                                                                         *)
(* try_acquire is three file-system calls (exists, stat, write_text) and   *)
(* other processes run between any two of them; release is one unlink that *)
(* does not look at who wrote the file. The service enters the `try` whose *)
(* `finally` releases only after try_acquire has returned: an exception in *)
(* between keeps the file. A process may die at any point, which skips the *)
(* `finally`.                                                              *)
(*                                                                         *)
(* Time is relative: the age of each file saturates at Ttl, so that the    *)
(* clock needs no bound.                                                   *)
(***************************************************************************)
EXTENDS Naturals

CONSTANTS
    Run,        \* slots in which ingestion processes are launched
    RequestId,  \* values of REQUEST_ID a process may be launched with
    Ttl,        \* ttl_seconds, in ticks
    Nobody      \* the author of a file left over from an earlier launch

ASSUME LockAssumption ==
    /\ Ttl \in Nat \ {0}
    /\ Nobody \notin Run

VARIABLES
    phase,      \* where each process is with respect to the lock
    rid,        \* the request id each process was launched with
    lockFiles,  \* ids whose <lock_dir>/<id>.lock exists
    age,        \* time.time() - st_mtime of each file, saturated at Ttl
    \* History, read by no action: who wrote each file, for how long each
    \* process has been inside, and what went wrong so far.
    writer,
    stay,
    raced,      \* two processes were once between look and write for one id
    overstayed  \* a process was once inside for Ttl or longer

fileVars == <<lockFiles, age, writer>>
lockVars == <<phase, rid, lockFiles, age, writer, stay, raced, overstayed>>

Terminal == {"idle", "skipped", "raised", "abandoned", "released", "leaked", "crashed"}
Phase == Terminal \cup {"exists", "stat", "write", "acquired", "inside"}

\* r is past try_acquire: on its way into the `try` that releases, or in it.
Inside(r) == phase[r] \in {"acquired", "inside"}
SameId(q, r) == rid[q] = rid[r]

(***************************************************************************)
(* Sane: nothing yet has happened that the TTL scheme does not cater for.  *)
(***************************************************************************)
Sane == ~raced /\ ~overstayed

LockTypeOK ==
    /\ phase \in [Run -> Phase]
    /\ rid \in [Run -> RequestId]
    /\ lockFiles \in SUBSET RequestId
    /\ age \in [RequestId -> 0..Ttl]
    /\ writer \in [RequestId -> Run \cup {Nobody}]
    /\ stay \in [Run -> 0..Ttl]
    /\ raced \in BOOLEAN
    /\ overstayed \in BOOLEAN

LockInit ==
    /\ phase = [r \in Run |-> "idle"]
    /\ rid \in [Run -> RequestId]
    /\ lockFiles = {}
    /\ age = [id \in RequestId |-> 0]
    /\ writer = [id \in RequestId |-> Nobody]
    /\ stay = [r \in Run |-> 0]
    /\ raced = FALSE
    /\ overstayed = FALSE

(***************************************************************************)
(* Seeded faults: variants of the definitions below, each with a mistake a *)
(* change to the code could make. No action uses them.                     *)
(***************************************************************************)
\* The lock path is built from an id that was never set.
WriteUnnamedFile(r) ==
    /\ lockFiles' = lockFiles \cup {Nobody}
    /\ UNCHANGED <<age, writer, raced>>

\* Overriding a stale lock keeps its old mtime (a touch that fails if it exists).
WriteKeepsMtime(r) ==
    /\ lockFiles' = lockFiles \cup {rid[r]}
    /\ UNCHANGED age
    /\ writer' = [writer EXCEPT ![rid[r]] = r]
    /\ raced' = (raced \/ \E q \in Run \ {r} : phase[q] = "write" /\ rid[q] = rid[r])

\* try_acquire moved inside the service's try: a skipped run releases, too.
SkipReleases(r) ==
    /\ phase[r] = "stat"
    /\ \/ /\ age[rid[r]] < Ttl /\ rid[r] \in lockFiles
          /\ phase' = [phase EXCEPT ![r] = "skipped"]
          /\ lockFiles' = lockFiles \ {rid[r]}
          /\ age' = [age EXCEPT ![rid[r]] = 0]
          /\ writer' = [writer EXCEPT ![rid[r]] = Nobody]
       \/ /\ age[rid[r]] = Ttl
          /\ phase' = [phase EXCEPT ![r] = "write"]
          /\ UNCHANGED fileVars
    /\ UNCHANGED <<rid, stay, raced, overstayed>>

\* The payload is rewritten before the age is looked at: every attempt renews it.
StatRenewsFile(r) ==
    /\ phase[r] = "stat"
    /\ phase' = [phase EXCEPT ![r] = IF age[rid[r]] < Ttl THEN "skipped" ELSE "write"]
    /\ age' = [age EXCEPT ![rid[r]] = 0]
    /\ UNCHANGED <<rid, lockFiles, writer, stay, raced, overstayed>>

\* release without the unlink.
ReleaseKeepsFile(r) ==
    /\ phase[r] = "inside"
    /\ phase' = [phase EXCEPT ![r] = "released"]
    /\ UNCHANGED <<rid, fileVars, stay, raced, overstayed>>

(***************************************************************************)
(* File-system primitives.                                                 *)
(***************************************************************************)
MoveTo(r, p) == phase' = [phase EXCEPT ![r] = p]

\* write_text truncates or creates the file and sets its mtime to now.
WriteFile(r) ==
    /\ lockFiles' = lockFiles \cup {rid[r]}
    /\ age' = [age EXCEPT ![rid[r]] = 0]
    /\ writer' = [writer EXCEPT ![rid[r]] = r]
    /\ raced' = (raced \/ \E q \in Run \ {r} : phase[q] = "write" /\ rid[q] = rid[r])

\* unlink(missing_ok): whoever wrote the file.
UnlinkFile(id) ==
    /\ lockFiles' = lockFiles \ {id}
    /\ age' = [age EXCEPT ![id] = 0]
    /\ writer' = [writer EXCEPT ![id] = Nobody]

\* History: what an earlier process in slot r left behind has no author now.
Orphan(r) ==
    writer' = [id \in RequestId |-> IF writer[id] = r THEN Nobody ELSE writer[id]]

(***************************************************************************)
(* A process is started in slot r with request id `id` (REQUEST_ID, RUN_ID *)
(* or a fresh uuid4); a slot is reused once its process has ended.         *)
(***************************************************************************)
Launch(r, id) ==
    /\ phase[r] \in Terminal
    /\ MoveTo(r, "exists")
    /\ rid' = [rid EXCEPT ![r] = id]
    /\ stay' = [stay EXCEPT ![r] = 0]
    /\ Orphan(r)
    /\ UNCHANGED <<lockFiles, age, raced, overstayed>>

\* try_acquire: `if path.exists()`.
LookForFile(r) ==
    /\ phase[r] = "exists"
    /\ MoveTo(r, IF rid[r] \in lockFiles THEN "stat" ELSE "write")
    /\ UNCHANGED <<rid, fileVars, stay, raced, overstayed>>

\* try_acquire: `age = time.time() - path.stat().st_mtime`. The file may have
\* been unlinked since exists(): stat raises FileNotFoundError.
StatFile(r) ==
    /\ phase[r] = "stat"
    /\ MoveTo(r, CASE rid[r] \notin lockFiles -> "raised"
                   [] rid[r] \in lockFiles /\ age[rid[r]] < Ttl -> "skipped"
                   [] OTHER -> "write")
    /\ UNCHANGED <<rid, fileVars, stay, raced, overstayed>>

\* try_acquire: `path.write_text(...)`.
TakeLock(r) ==
    /\ phase[r] = "write"
    /\ WriteFile(r)
    /\ MoveTo(r, "acquired")
    /\ stay' = [stay EXCEPT ![r] = 0]
    /\ UNCHANGED <<rid, overstayed>>

\* `return True`; run() notes the outcome and enters its `try`.
EnterTry(r) ==
    /\ phase[r] = "acquired"
    /\ MoveTo(r, "inside")
    /\ UNCHANGED <<rid, fileVars, stay, raced, overstayed>>

\* open or write fails (read-only or full file system). The exception
\* leaves try_acquire before the service's try block, so nothing releases; an
\* open that succeeded before the write failed leaves the file behind.
TakeLockFails(r) ==
    /\ phase[r] = "write"
    /\ MoveTo(r, "raised")
    /\ WriteFile(r) \/ UNCHANGED <<fileVars, raced>>
    /\ UNCHANGED <<rid, stay, overstayed>>

\* An exception leaves before the try block is entered: mkdir or stat fails, or
\* SIGINT arrives. Nothing releases, so a file that is written by then stays.
LeaveEarly(r) ==
    /\ phase[r] \in {"exists", "stat", "write", "acquired"}
    /\ MoveTo(r, IF phase[r] = "acquired" THEN "abandoned" ELSE "raised")
    /\ UNCHANGED <<rid, fileVars, stay, raced, overstayed>>

\* release: unlink, FileNotFoundError ignored. No check of who wrote it.
Release(r) ==
    /\ phase[r] = "inside"
    /\ UnlinkFile(rid[r])
    /\ MoveTo(r, "released")
    /\ UNCHANGED <<rid, stay, raced, overstayed>>

\* unlink raises something else; run() logs it and returns normally.
ReleaseFails(r) ==
    /\ phase[r] = "inside"
    /\ MoveTo(r, "leaked")
    /\ UNCHANGED <<rid, fileVars, stay, raced, overstayed>>

\* The process dies (SIGKILL, SIGTERM, node loss): no finally block runs.
Crash(r) ==
    /\ phase[r] \notin Terminal
    /\ MoveTo(r, "crashed")
    /\ UNCHANGED <<rid, fileVars, stay, raced, overstayed>>

Older(n) == IF n < Ttl THEN n + 1 ELSE n

Tick ==
    /\ age' = [id \in RequestId |-> IF id \in lockFiles THEN Older(age[id]) ELSE age[id]]
    /\ stay' = [r \in Run |-> IF Inside(r) THEN Older(stay[r]) ELSE stay[r]]
    /\ overstayed' = (overstayed \/ \E r \in Run : Inside(r) /\ stay'[r] = Ttl)
    /\ UNCHANGED <<phase, rid, lockFiles, writer, raced>>

(***************************************************************************)
(* Specification. Every file-system call of a live process returns, a live *)
(* process goes on, and time passes; nobody owes anybody a launch.         *)
(***************************************************************************)
LockStep(r) ==
    \/ LookForFile(r)
    \/ StatFile(r)
    \/ TakeLock(r)
    \/ TakeLockFails(r)
    \/ EnterTry(r)
    \/ Release(r)
    \/ ReleaseFails(r)

LockNext ==
    \/ Tick
    \/ \E r \in Run :
        \/ \E id \in RequestId : Launch(r, id)
        \/ LockStep(r)
        \/ LeaveEarly(r)
        \/ Crash(r)

LockSpec == LockInit /\ [][LockNext]_lockVars

LockFairSpec ==
    /\ LockSpec
    /\ WF_lockVars(Tick)
    /\ \A r \in Run : WF_lockVars(LockStep(r))

(***************************************************************************)
(* Properties.                                                             *)
(***************************************************************************)
\* As long as no two processes were between look and write for one id at the
\* same time and none has outlived the TTL, at most one process per request id
\* is past try_acquire, however processes crash, fail and come back: the
\* "safety belt" of the module's docstring, with the two cases it gives up.
SafetyBelt ==
    Sane => \A q, r \in Run : q # r /\ Inside(q) /\ Inside(r) => ~SameId(q, r)

\* Under the same condition a process that is past try_acquire has its own
\* lock file, not yet stale, under its id: the release in its `finally` never
\* deletes the lock of another process although unlink does not check.
HoldsOwnLock ==
    Sane => \A r \in Run : Inside(r) =>
        /\ rid[r] \in lockFiles
        /\ writer[rid[r]] = r
        /\ age[rid[r]] < Ttl

\* A process that was skipped or that released leaves no file of its own: if the
\* latest launch of a slot wrote a file that is still there, it is past
\* try_acquire under that very id, or it ended in one of the four ways that skip
\* or defeat the release: the write failed half-way, an exception came between
\* the write and the try block, unlink failed, or the process died. (The docs
\* have the lock "always released in `finally`".)
NoLeftovers ==
    \A id \in lockFiles : writer[id] # Nobody =>
        /\ rid[writer[id]] = id
        /\ \/ Inside(writer[id])
           \/ phase[writer[id]] \in {"raised", "abandoned", "leaked", "crashed"}

\* "a crashed run doesn't permanently wedge the next one": if processes are
\* launched for an id again and again in slot r, and from some moment on no
\* other process works under that id, then r gets past the look at the file
\* (or dies or is interrupted) again and again; it is not skipped forever.
NeverWedged ==
    \A r \in Run, id \in RequestId :
        ( /\ []<>(phase[r] = "exists" /\ rid[r] = id)
          /\ <>[](\A q \in Run \ {r} : rid[q] # id \/ phase[q] \in Terminal) )
        => []<>(phase[r] \in {"write", "raised", "crashed"})

\* FR-012 and the ingestion deep dive: two overlapping runs exclude each other
\* whatever their request ids. The code keys the lock by request id.
OneRunAtATime == \A q, r \in Run : Inside(q) /\ Inside(r) => q = r

\* The deep dive calls re-ingesting under the id of a stale run safe: a process
\* that took the lock less than a TTL ago is not joined by another such process
\* under its id, unless both looked before either wrote.
FreshHolderIsAlone ==
    ~raced => \A q, r \in Run :
        q # r /\ Inside(q) /\ Inside(r) /\ SameId(q, r) => stay[q] = Ttl \/ stay[r] = Ttl

=============================================================================
