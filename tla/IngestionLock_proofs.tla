------------------------ MODULE IngestionLock_proofs ------------------------
(***************************************************************************)
(* What the ingestion-run lock guarantees, for every number of processes,  *)
(* request ids and every TTL.                                              *)
(*                                                                         *)
(* The argument: while Sane, a process inside holds a file of its own      *)
(* making whose age is the time it has been inside, hence less than Ttl;   *)
(* so a process that looks and decides to write found either no file or a  *)
(* stale one, and in both cases nobody was inside under that id. That this *)
(* stays true until it writes is what ~raced says.                         *)
(***************************************************************************)
EXTENDS IngestionLock, TLAPS

\* While Sane, whoever is inside wrote the file of its id when it entered.
Holds(r) ==
    /\ rid[r] \in lockFiles
    /\ writer[rid[r]] = r
    /\ age[rid[r]] = stay[r]
    /\ stay[r] < Ttl

LockInv ==
    /\ LockTypeOK
    /\ Sane => \A r \in Run : Inside(r) => Holds(r)
    /\ Sane => \A q, r \in Run :
           phase[r] = "write" /\ Inside(q) => ~SameId(q, r)

\* Every initial state is well typed.
LEMMA LockTypeInit == LockInit => LockTypeOK
<1> SUFFICES ASSUME LockInit PROVE LockTypeOK
  OBVIOUS
<1> USE LockAssumption DEF LockAssumption, LockInit
<1>1. phase \in [Run -> Phase] /\ writer \in [RequestId -> Run \cup {Nobody}]
  BY DEF Phase, Terminal
<1>2. 0 \in 0..Ttl
  OBVIOUS
<1>3. age \in [RequestId -> 0..Ttl] /\ stay \in [Run -> 0..Ttl]
  BY <1>2
<1>4. raced \in BOOLEAN /\ overstayed \in BOOLEAN /\ lockFiles \in SUBSET RequestId
  OBVIOUS
<1> QED BY <1>1, <1>3, <1>4 DEF LockTypeOK

\* The variables stay in their types: every process is in a known phase, ages
\* never leave 0..Ttl and a file is only ever created under a launched id.
THEOREM LockTyping == LockSpec => []LockTypeOK
<1>1. LockInit => LockTypeOK
  BY LockTypeInit
<1>2. LockTypeOK /\ [LockNext]_lockVars => LockTypeOK'
  <2> SUFFICES ASSUME LockTypeOK, [LockNext]_lockVars PROVE LockTypeOK'
    OBVIOUS
  <2> USE LockAssumption DEF LockAssumption, LockTypeOK, Phase, Terminal, MoveTo
  <2>1. CASE Tick
    BY <2>1 DEF Tick, Older
  <2>2. ASSUME NEW r \in Run, NEW id \in RequestId, Launch(r, id) PROVE LockTypeOK'
    BY <2>2 DEF Launch, Orphan
  <2>3. ASSUME NEW r \in Run, LookForFile(r) PROVE LockTypeOK'
    BY <2>3 DEF LookForFile, fileVars
  <2>4. ASSUME NEW r \in Run, StatFile(r) PROVE LockTypeOK'
    <3>1. phase' = [phase EXCEPT ![r] = phase'[r]] /\ phase'[r] \in {"raised", "skipped", "write"}
      BY <2>4 DEF StatFile
    <3> QED BY <2>4, <3>1 DEF StatFile, fileVars
  <2>5. ASSUME NEW r \in Run, TakeLock(r) PROVE LockTypeOK'
    BY <2>5 DEF TakeLock, WriteFile
  <2>6. ASSUME NEW r \in Run, TakeLockFails(r) PROVE LockTypeOK'
    <3>1. phase' \in [Run -> Phase] /\ UNCHANGED <<rid, stay, overstayed>>
      BY <2>6 DEF TakeLockFails
    <3>2. raced' \in BOOLEAN
      BY <2>6 DEF TakeLockFails, WriteFile
    <3>3. lockFiles' \in SUBSET RequestId /\ age' \in [RequestId -> 0..Ttl]
      BY <2>6 DEF TakeLockFails, WriteFile, fileVars
    <3>4. writer' \in [RequestId -> Run \cup {Nobody}]
      BY <2>6 DEF TakeLockFails, WriteFile, fileVars
    <3> QED BY <3>1, <3>2, <3>3, <3>4
  <2>7. ASSUME NEW r \in Run, Release(r) PROVE LockTypeOK'
    BY <2>7 DEF Release, UnlinkFile
  <2>8. ASSUME NEW r \in Run, ReleaseFails(r) PROVE LockTypeOK'
    BY <2>8 DEF ReleaseFails, fileVars
  <2>9. ASSUME NEW r \in Run, Crash(r) PROVE LockTypeOK'
    BY <2>9 DEF Crash, fileVars
  <2>10. ASSUME NEW r \in Run, LeaveEarly(r) PROVE LockTypeOK'
    BY <2>10 DEF LeaveEarly, fileVars
  <2>11. ASSUME NEW r \in Run, EnterTry(r) PROVE LockTypeOK'
    BY <2>11 DEF EnterTry, fileVars
  <2>12. CASE UNCHANGED lockVars
    BY <2>12 DEF lockVars
  <2> QED
    BY <2>1, <2>2, <2>3, <2>4, <2>5, <2>6, <2>7, <2>8, <2>9, <2>10, <2>11, <2>12
       DEF LockNext, LockStep
<1> QED BY <1>1, <1>2, PTL DEF LockSpec


\* One step of the system preserves the invariant. Whatever makes the system
\* insane discharges the obligations; the cases below are the sane steps.
LEMMA LockInvStep == LockInv /\ LockTypeOK' /\ [LockNext]_lockVars => LockInv'
<1> SUFFICES ASSUME LockInv, LockTypeOK', [LockNext]_lockVars, Sane'
             PROVE  /\ \A r \in Run : Inside(r)' => Holds(r)'
                    /\ \A q, r \in Run :
                           phase'[r] = "write" /\ Inside(q)' => ~SameId(q, r)'
  BY DEF LockInv
<1> USE DEF LockInv, LockTypeOK, Inside, Holds, SameId
<1>1. Sane
  BY DEF Sane, LockNext, LockStep, lockVars, Tick, Launch, LookForFile, StatFile, TakeLock,
         WriteFile, TakeLockFails, EnterTry, LeaveEarly, Release, ReleaseFails, Crash
<1>2. CASE Tick
  <2>1. UNCHANGED <<phase, rid, lockFiles, writer>>
    BY <1>2 DEF Tick
  <2>2. ASSUME NEW r \in Run, Inside(r) PROVE Holds(r)'
    <3>1. Holds(r) /\ rid[r] \in RequestId
      BY <1>1, <2>2
    <3>2. age'[rid[r]] = Older(age[rid[r]]) /\ stay'[r] = Older(stay[r])
      BY <1>2, <2>2, <3>1 DEF Tick
    <3>3. stay'[r] # Ttl
      BY <1>2, <2>1, <2>2 DEF Tick, Sane
    <3> QED BY <2>1, <3>1, <3>2, <3>3, LockAssumption DEF LockAssumption, Older
  <2> QED BY <1>1, <2>1, <2>2
<1>3. ASSUME NEW r \in Run, NEW id \in RequestId, Launch(r, id) PROVE
             /\ \A p \in Run : Inside(p)' => Holds(p)'
             /\ \A q, p \in Run : phase'[p] = "write" /\ Inside(q)' => ~SameId(q, p)'
  BY <1>1, <1>3 DEF Launch, Orphan, MoveTo, Terminal
<1>4. ASSUME NEW r \in Run, LookForFile(r) PROVE
             /\ \A p \in Run : Inside(p)' => Holds(p)'
             /\ \A q, p \in Run : phase'[p] = "write" /\ Inside(q)' => ~SameId(q, p)'
  BY <1>1, <1>4 DEF LookForFile, MoveTo, fileVars
<1>5. ASSUME NEW r \in Run, StatFile(r) PROVE
             /\ \A p \in Run : Inside(p)' => Holds(p)'
             /\ \A q, p \in Run : phase'[p] = "write" /\ Inside(q)' => ~SameId(q, p)'
  <2>1. /\ phase' = [phase EXCEPT ![r] = phase'[r]]
        /\ phase'[r] \in {"raised", "skipped", "write"}
        /\ phase'[r] = "write" => rid[r] \in lockFiles /\ ~(age[rid[r]] < Ttl)
        /\ UNCHANGED <<rid, lockFiles, age, writer, stay>>
    BY <1>5 DEF StatFile, MoveTo, fileVars
  <2>2. \A p \in Run : Inside(p)' => Inside(p)
    BY <2>1
  <2>3. \A q \in Run : phase'[r] = "write" /\ Inside(q) => ~SameId(q, r)
    BY <1>1, <2>1
  <2> QED BY <1>1, <2>1, <2>2, <2>3
<1>6. ASSUME NEW r \in Run, TakeLock(r) PROVE
             /\ \A p \in Run : Inside(p)' => Holds(p)'
             /\ \A q, p \in Run : phase'[p] = "write" /\ Inside(q)' => ~SameId(q, p)'
  <2>1. \A p \in Run \ {r} : Inside(p) => rid[p] # rid[r]
    BY <1>1, <1>6 DEF TakeLock
  <2>2. \A p \in Run \ {r} : phase[p] = "write" => rid[p] # rid[r]
    BY <1>6 DEF TakeLock, WriteFile, Sane
  <2>3. Holds(r)'
    BY <1>6, LockAssumption DEF LockAssumption, TakeLock, WriteFile
  <2>4. \A p \in Run \ {r} : Inside(p)' => Holds(p)'
    BY <1>1, <1>6, <2>1 DEF TakeLock, WriteFile, MoveTo
  <2>5. phase' = [phase EXCEPT ![r] = "acquired"] /\ rid' = rid
    BY <1>6 DEF TakeLock, MoveTo
  <2> QED BY <1>1, <2>2, <2>3, <2>4, <2>5
<1>7. ASSUME NEW r \in Run, TakeLockFails(r) PROVE
             /\ \A p \in Run : Inside(p)' => Holds(p)'
             /\ \A q, p \in Run : phase'[p] = "write" /\ Inside(q)' => ~SameId(q, p)'
  <2>1. \A p \in Run : Inside(p)' => p # r /\ Inside(p) /\ rid[p] # rid[r]
    BY <1>1, <1>7 DEF TakeLockFails, MoveTo
  <2>2. phase' = [phase EXCEPT ![r] = "raised"] /\ UNCHANGED <<rid, stay>>
    BY <1>7 DEF TakeLockFails, MoveTo
  <2>3. \A p \in Run : Inside(p)' =>
            /\ age'[rid[p]] = age[rid[p]]
            /\ writer'[rid[p]] = writer[rid[p]]
            /\ rid[p] \in lockFiles => rid[p] \in lockFiles'
    BY <1>7, <2>1 DEF TakeLockFails, WriteFile, fileVars
  <2> QED BY <1>1, <2>1, <2>2, <2>3
<1>8. ASSUME NEW r \in Run, Release(r) PROVE
             /\ \A p \in Run : Inside(p)' => Holds(p)'
             /\ \A q, p \in Run : phase'[p] = "write" /\ Inside(q)' => ~SameId(q, p)'
  BY <1>1, <1>8 DEF Release, UnlinkFile, MoveTo
<1>9. ASSUME NEW r \in Run, ReleaseFails(r) \/ Crash(r) PROVE
             /\ \A p \in Run : Inside(p)' => Holds(p)'
             /\ \A q, p \in Run : phase'[p] = "write" /\ Inside(q)' => ~SameId(q, p)'
  BY <1>1, <1>9 DEF ReleaseFails, Crash, fileVars, MoveTo, Terminal
<1>10. ASSUME NEW r \in Run, LeaveEarly(r) PROVE
             /\ \A p \in Run : Inside(p)' => Holds(p)'
             /\ \A q, p \in Run : phase'[p] = "write" /\ Inside(q)' => ~SameId(q, p)'
  BY <1>1, <1>10 DEF LeaveEarly, MoveTo, fileVars
<1>11. ASSUME NEW r \in Run, EnterTry(r) PROVE
             /\ \A p \in Run : Inside(p)' => Holds(p)'
             /\ \A q, p \in Run : phase'[p] = "write" /\ Inside(q)' => ~SameId(q, p)'
  BY <1>1, <1>11 DEF EnterTry, MoveTo, fileVars
<1>12. CASE UNCHANGED lockVars
  BY <1>1, <1>12 DEF lockVars
<1> QED
  BY <1>2, <1>3, <1>4, <1>5, <1>6, <1>7, <1>8, <1>9, <1>10, <1>11, <1>12 DEF LockNext, LockStep

\* The inductive invariant holds throughout.
LEMMA LockInvariant == LockSpec => []LockInv
<1>1. LockInit => LockInv
  BY LockTypeInit DEF LockInit, LockInv, Inside
<1>2. LockInv /\ LockTypeOK' /\ [LockNext]_lockVars => LockInv'
  BY LockInvStep
<1>3. LockSpec => []LockTypeOK
  BY LockTyping
<1> QED BY <1>1, <1>2, <1>3, PTL DEF LockSpec

\* At most one process per request id is past try_acquire, as long as no two
\* processes raced between look and write and none outlived the TTL.
THEOREM SafetyBeltHolds == LockSpec => []SafetyBelt
<1>1. LockInv => SafetyBelt
  BY DEF LockInv, SafetyBelt, Holds, SameId, LockTypeOK
<1> QED BY <1>1, LockInvariant, PTL

\* Under the same condition a process inside owns the fresh file of its id, so
\* the unlink in its `finally` deletes no other process's lock.
THEOREM OwnLockHeld == LockSpec => []HoldsOwnLock
<1>1. LockInv => HoldsOwnLock
  BY DEF LockInv, HoldsOwnLock, Holds, LockTypeOK
<1> QED BY <1>1, LockInvariant, PTL

\* Where the latest author of a file that still exists can be.
Accounted == {"acquired", "inside", "raised", "abandoned", "leaked", "crashed"}

\* A step never leaves a file behind a process that was skipped or released.
LEMMA NoLeftoversStep ==
    LockTypeOK /\ NoLeftovers /\ [LockNext]_lockVars => NoLeftovers'
<1> DEFINE Kept == \A id \in lockFiles : writer[id] # Nobody =>
                       rid[writer[id]] = id /\ phase[writer[id]] \in Accounted
<1>1. NoLeftovers <=> Kept
  BY DEF NoLeftovers, Inside, Accounted
<1>2. NoLeftovers' <=> Kept'
  BY DEF NoLeftovers, Inside, Accounted
<1> SUFFICES ASSUME LockTypeOK, Kept, [LockNext]_lockVars PROVE Kept'
  BY <1>1, <1>2
<1> USE LockAssumption DEF LockAssumption, LockTypeOK, MoveTo, Accounted
<1>3. CASE Tick
  BY <1>3 DEF Tick
<1>4. ASSUME NEW r \in Run, NEW id \in RequestId, Launch(r, id) PROVE Kept'
  BY <1>4 DEF Launch, Orphan
<1>5. ASSUME NEW r \in Run, LookForFile(r) \/ StatFile(r) PROVE Kept'
  <2>1. /\ phase[r] \notin Accounted
        /\ phase' = [phase EXCEPT ![r] = phase'[r]]
        /\ UNCHANGED <<rid, lockFiles, writer>>
    BY <1>5 DEF LookForFile, StatFile, fileVars
  <2> QED BY <2>1
<1>6. ASSUME NEW r \in Run, TakeLock(r) PROVE Kept'
  BY <1>6 DEF TakeLock, WriteFile
<1>7. ASSUME NEW r \in Run, TakeLockFails(r) PROVE Kept'
  <2>1. phase[r] = "write" /\ phase' = [phase EXCEPT ![r] = "raised"] /\ rid' = rid
    BY <1>7 DEF TakeLockFails
  <2>2. CASE UNCHANGED fileVars
    BY <2>1, <2>2 DEF fileVars
  <2>3. CASE WriteFile(r)
    BY <2>1, <2>3 DEF WriteFile
  <2> QED BY <1>7, <2>2, <2>3 DEF TakeLockFails
<1>8. ASSUME NEW r \in Run, Release(r) PROVE Kept'
  BY <1>8 DEF Release, UnlinkFile
<1>9. ASSUME NEW r \in Run, EnterTry(r) \/ LeaveEarly(r) \/ ReleaseFails(r) \/ Crash(r)
      PROVE  Kept'
  <2>1. /\ phase' = [phase EXCEPT ![r] = phase'[r]]
        /\ phase'[r] \in Accounted
        /\ UNCHANGED <<rid, lockFiles, writer>>
    BY <1>9 DEF EnterTry, LeaveEarly, ReleaseFails, Crash, fileVars
  <2> QED BY <2>1
<1>10. CASE UNCHANGED lockVars
  BY <1>10 DEF lockVars
<1> QED
  BY <1>3, <1>4, <1>5, <1>6, <1>7, <1>8, <1>9, <1>10 DEF LockNext, LockStep

\* Neither a skip nor the release leaves a file behind: unconditionally, even when
\* runs raced or outlived their TTL, a file whose author is the latest launch of
\* its slot is that of a process past try_acquire, or of one that ended without
\* its `finally` or in spite of it.
THEOREM NothingLeftBehind == LockSpec => []NoLeftovers
<1>1. LockInit => NoLeftovers
  BY DEF LockInit, NoLeftovers
<1> QED BY <1>1, NoLeftoversStep, LockTyping, PTL DEF LockSpec

=============================================================================
