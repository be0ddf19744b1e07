-------------------------- MODULE Ingestion_proofs --------------------------
(***************************************************************************)
(* What the ingestion Job guarantees for every number of processes, every  *)
(* bound and every choice of backends: it follows the lock protocol, so    *)
(* that what is proved of the lock holds of the Job, and it changes the    *)
(* collection by whole upserts only, whenever they arrive, so that the     *)
(* index stays layered.                                                    *)
(***************************************************************************)
EXTENDS Ingestion, IngestionLock_proofs

(***************************************************************************)
(* The lock protocol.                                                      *)
(***************************************************************************)
\* Every step of the Job is a step of the lock protocol or leaves it alone.
LEMMA StepIsLockStep == [Next]_vars => [LockNext]_lockVars
<1> SUFFICES ASSUME [Next]_vars PROVE [LockNext]_lockVars
  OBVIOUS
<1> USE DEF At, Outside
<1>1. CASE TimePasses
  BY <1>1 DEF TimePasses, LockNext
<1>2. ASSUME NEW r \in Run, NEW id \in RequestId, Begin(r, id) PROVE LockNext
  BY <1>2 DEF Begin, LockNext
<1>3. ASSUME NEW r \in Run, BootstrapFails(r) \/ InterruptInside(r) \/ ArrivesLate(r)
      PROVE  UNCHANGED lockVars
  BY <1>3 DEF BootstrapFails, InterruptInside, ArrivesLate
<1>4. ASSUME NEW r \in Run, Step(r) PROVE [LockNext]_lockVars
  <2>1. CASE \/ AcquireLooks(r) \/ AcquireDecides(r) \/ AcquireTakes(r) \/ AcquireRaises(r)
             \/ EnterPipeline(r)
    BY <2>1 DEF AcquireLooks, AcquireDecides, AcquireTakes, AcquireRaises, EnterPipeline,
                LockNext, LockStep
  <2>2. CASE Finish(r)
    BY <2>2 DEF Finish, LockNext, LockStep
  <2>3. CASE \/ Fetch(r) \/ Clean(r) \/ Validate(r) \/ Analyze(r)
             \/ Chunk(r) \/ Embed(r) \/ Upsert(r)
    BY <2>3 DEF Fetch, Clean, Validate, Analyze, Chunk, Embed, Upsert
  <2> QED BY <1>4, <2>1, <2>2, <2>3 DEF Step, TimedStep
<1>5. ASSUME NEW r \in Run, InterruptOutside(r) \/ InterruptRelease(r) \/ Die(r) PROVE LockNext
  BY <1>5 DEF InterruptOutside, InterruptRelease, Die, LockNext, LockStep
<1>6. CASE UNCHANGED vars
  BY <1>6 DEF vars
<1> QED BY <1>1, <1>2, <1>3, <1>4, <1>5, <1>6 DEF Next

\* Seen from the lock directory, the Job is a client of the lock: the pipeline
\* adds no way in and no way out.
THEOREM FollowsLockProtocol == Spec => ImplementsLock
<1>1. Init => LockInit
  BY DEF Init
<1> QED BY <1>1, StepIsLockStep, PTL DEF Spec, LockSpec, ImplementsLock

\* Two Jobs with one request id are never in the pipeline together, as long as
\* they did not race and none outlived the TTL.
THEOREM JobsExclude == Spec => []SafetyBelt
BY FollowsLockProtocol, SafetyBeltHolds, PTL DEF ImplementsLock

\* The `finally` of a Job deletes no other Job's lock, under the same condition.
THEOREM JobHoldsOwnLock == Spec => []HoldsOwnLock
BY FollowsLockProtocol, OwnLockHeld, PTL DEF ImplementsLock

(***************************************************************************)
(* The collection.                                                         *)
(***************************************************************************)
\* An upsert of n chunks keeps the collection a function on the ordinals, makes
\* the first n of them current and removes nothing.
LEMMA AfterUpsertFacts ==
    ASSUME NEW ix \in [Collection!Ordinal -> Collection!Held], NEW n \in Nat
    PROVE  /\ Collection!AfterUpsert(ix, n) \in [Collection!Ordinal -> Collection!Held]
           /\ \A o \in Collection!Ordinal :
                 /\ o < n => Collection!AfterUpsert(ix, n)[o] = "current"
                 /\ ix[o] # "absent" => Collection!AfterUpsert(ix, n)[o] # "absent"
<1> DEFINE F == Collection!AfterUpsert(ix, n)
<1>1. F = [o \in Collection!Ordinal |->
             CASE o < n -> "current"
               [] o >= n /\ n > 0 /\ ix[o] = "current" -> "stale"
               [] OTHER -> ix[o]]
  BY DEF Collection!AfterUpsert
<1>2. ASSUME NEW o \in Collection!Ordinal
      PROVE  /\ F[o] \in {"current", "stale", ix[o]}
             /\ o < n => F[o] = "current"
  <2>1. o \in Nat
    BY IngestionAssumption DEF IngestionAssumption, Collection!Ordinal
  <2>2. F[o] = CASE o < n -> "current"
                 [] o >= n /\ n > 0 /\ ix[o] = "current" -> "stale"
                 [] OTHER -> ix[o]
    BY <1>1
  <2> QED BY <2>1, <2>2
<1>3. F \in [Collection!Ordinal -> Collection!Held]
  BY <1>1, <1>2 DEF Collection!Held
<1> QED BY <1>2, <1>3

\* Nothing to upsert, nothing changed.
LEMMA AfterUpsertOfNothing ==
    ASSUME NEW ix \in [Collection!Ordinal -> Collection!Held]
    PROVE  Collection!AfterUpsert(ix, 0) = ix
<1>1. \A o \in Collection!Ordinal : Collection!AfterUpsert(ix, 0)[o] = ix[o]
  BY IngestionAssumption DEF Collection!AfterUpsert, Collection!Ordinal, IngestionAssumption
<1> QED BY <1>1, AfterUpsertFacts DEF Collection!AfterUpsert

\* A whole upsert keeps the index layered, whatever was there before.
LEMMA UpsertKeepsLayers ==
    ASSUME index \in [Collection!Ordinal -> Collection!Held], NEW n \in Nat,
           Collection!Layered, index' = Collection!AfterUpsert(index, n)
    PROVE  Collection!Layered'
<1> USE IngestionAssumption DEF IngestionAssumption, Collection!Ordinal
<1> SUFFICES ASSUME NEW o \in Collection!Ordinal, NEW p \in Collection!Ordinal, o < p
             PROVE  /\ index'[o] = "absent" => index'[p] = "absent"
                    /\ index'[p] = "current" => index'[o] = "current"
  BY DEF Collection!Layered
<1>1. /\ index[o] = "absent" => index[p] = "absent"
      /\ index[p] = "current" => index[o] = "current"
  BY DEF Collection!Layered
<1>2. /\ index'[o] = CASE o < n -> "current"
                        [] o >= n /\ n > 0 /\ index[o] = "current" -> "stale"
                        [] OTHER -> index[o]
      /\ index'[p] = CASE p < n -> "current"
                        [] p >= n /\ n > 0 /\ index[p] = "current" -> "stale"
                        [] OTHER -> index[p]
  BY DEF Collection!AfterUpsert
<1> QED BY <1>1, <1>2

(***************************************************************************)
(* The inductive invariant: a process is at a stage of the pipeline while  *)
(* it is in the try block, has written nothing before its upsert, carries  *)
(* no more than MaxChunks chunks into it, and has them all in the          *)
(* collection once it says "ok"; an upsert that is still on its way was    *)
(* sent and did not succeed. Backends that cannot be built launch nothing. *)
(***************************************************************************)
Paired == \A r \in Run : stage[r] = "none" <=> phase[r] # "inside"

WroteNothingYet ==
    \A r \in Run :
        /\ phase[r] \in {"exists", "stat", "write", "acquired"} =>
               outcome[r] = "running" /\ ~wrote[r]
        /\ stage[r] \in Pipeline => outcome[r] = "running" /\ ~wrote[r]
        /\ outcome[r] \in EarlyError \cup {"skipped", "bootstrap_failed"} => ~wrote[r]

CarriesChunks ==
    \A r \in Run : stage[r] \in {"embed", "upsert"} => carried[r] \in 0..MaxChunks

LateWasSent ==
    \A r \in Run : late[r] => wrote[r] /\ outcome[r] # "ok" /\ carried[r] \in 0..MaxChunks

OkMeansStored ==
    \A r \in Run : outcome[r] = "ok" =>
        \A o \in Collection!Ordinal : o < carried[r] => index[o] # "absent"

NoFactoryNoLaunch ==
    config.embedder = "fake" => \A r \in Run : phase[r] = "idle" /\ ~wrote[r]

JobInv ==
    /\ IngestionTypeOK
    /\ Paired
    /\ WroteNothingYet
    /\ CarriesChunks
    /\ LateWasSent
    /\ OkMeansStored
    /\ NoFactoryNoLaunch

LEMMA JobInvInit == Init => JobInv
<1> SUFFICES ASSUME Init PROVE JobInv
  OBVIOUS
<1> USE DEF Init, LockInit
<1>1. IngestionTypeOK
  BY DEF IngestionTypeOK, Stage, Outcome, Collection!Held
<1>2. Paired /\ WroteNothingYet
  BY DEF Paired, WroteNothingYet, Pipeline
<1>3. CarriesChunks /\ LateWasSent /\ OkMeansStored /\ NoFactoryNoLaunch
  BY DEF CarriesChunks, LateWasSent, OkMeansStored, NoFactoryNoLaunch
<1> QED BY <1>1, <1>2, <1>3 DEF JobInv

\* What the upsert of process r does to the collection and to the history.
LEMMA ReachFacts ==
    ASSUME IngestionTypeOK, NEW r \in Run, ReachesCollection(r)
    PROVE  /\ index' \in [Collection!Ordinal -> Collection!Held]
           /\ wrote' \in [Run -> BOOLEAN]
           /\ \A q \in Run \ {r} : wrote'[q] = wrote[q]
           /\ \A o \in Collection!Ordinal :
                 /\ o < carried[r] => index'[o] # "absent"
                 /\ index[o] # "absent" => index'[o] # "absent"
BY AfterUpsertFacts DEF ReachesCollection, IngestionTypeOK

\* What a process can do to the store when it stops waiting for its call: nothing
\* unless it is at the upsert, and then nothing to the chunks that are there, or
\* to what the history says of other processes. It is late only if it was sent.
LEMMA StopFacts ==
    ASSUME JobInv, NEW r \in Run, StopsWaiting(r), UNCHANGED carried
    PROVE  /\ index' \in [Collection!Ordinal -> Collection!Held]
           /\ late' \in [Run -> BOOLEAN]
           /\ wrote' \in [Run -> BOOLEAN]
           /\ \A q \in Run \ {r} : late'[q] = late[q] /\ wrote'[q] = wrote[q]
           /\ \A o \in Collection!Ordinal : index[o] # "absent" => index'[o] # "absent"
           /\ stage[r] # "upsert" => UNCHANGED storeVars
           /\ stage[r] = "upsert" /\ late'[r] => wrote'[r] /\ carried[r] \in 0..MaxChunks
<1> USE DEF JobInv, IngestionTypeOK, storeVars
<1>1. CASE UNCHANGED storeVars
  BY <1>1 DEF LateWasSent
<1>2. CASE stage[r] = "upsert" /\ ReachesCollection(r) /\ UNCHANGED late
  BY <1>2, ReachFacts DEF WroteNothingYet, LateWasSent, Pipeline
<1>3. CASE /\ stage[r] = "upsert" /\ carried[r] > 0
           /\ late' = [late EXCEPT ![r] = TRUE]
           /\ wrote' = [wrote EXCEPT ![r] = TRUE]
           /\ UNCHANGED index
  BY <1>3 DEF CarriesChunks
<1> QED BY <1>1, <1>2, <1>3 DEF StopsWaiting

\* The steps of the lock part preserve the invariant.
LEMMA OutsideStep ==
    ASSUME JobInv, LockTypeOK, NEW r \in Run,
           \/ \E id \in RequestId : Begin(r, id)
           \/ BootstrapFails(r)
           \/ AcquireLooks(r) \/ AcquireDecides(r) \/ AcquireTakes(r) \/ AcquireRaises(r)
           \/ EnterPipeline(r) \/ InterruptOutside(r)
    PROVE  JobInv'
<1> USE DEF JobInv, IngestionTypeOK, LockTypeOK, Paired, WroteNothingYet, CarriesChunks,
        LateWasSent, OkMeansStored, NoFactoryNoLaunch, Stage, Outcome, EarlyError, Pipeline,
        Outside, Proceed, Carry, MoveTo, storeVars
<1>1. ASSUME NEW id \in RequestId, Begin(r, id) PROVE JobInv'
  BY <1>1 DEF Begin, Launch, Terminal
<1>2. CASE BootstrapFails(r)
  BY <1>2 DEF BootstrapFails, lockVars
<1>3. CASE AcquireLooks(r)
  BY <1>3 DEF AcquireLooks, LookForFile, pipelineVars
<1>4. CASE AcquireDecides(r)
  <2>1. /\ phase[r] = "stat"
        /\ phase' = [phase EXCEPT ![r] = phase'[r]]
        /\ phase'[r] \in {"raised", "skipped", "write"}
    BY <1>4 DEF AcquireDecides, StatFile
  <2>2. /\ outcome' = [outcome EXCEPT ![r] = outcome'[r]]
        /\ outcome'[r] \in {"skipped", "FileNotFoundError", "running"}
        /\ phase'[r] = "write" => outcome'[r] = "running"
    BY <2>1, <1>4 DEF AcquireDecides
  <2>3. UNCHANGED <<config, stage, carried, storeVars>>
    BY <1>4 DEF AcquireDecides
  <2> QED BY <2>1, <2>2, <2>3
<1>5. CASE AcquireTakes(r)
  BY <1>5 DEF AcquireTakes, TakeLock, pipelineVars
<1>6. CASE EnterPipeline(r)
  <2>1. /\ phase[r] = "acquired"
        /\ phase' = [phase EXCEPT ![r] = "inside"]
        /\ stage' = [stage EXCEPT ![r] = "fetch"]
        /\ UNCHANGED <<config, carried, outcome, storeVars>>
    BY <1>6 DEF EnterPipeline, EnterTry
  <2> QED BY <2>1
<1>7. CASE AcquireRaises(r)
  BY <1>7 DEF AcquireRaises, TakeLockFails, LeaveEarly
<1>8. CASE InterruptOutside(r)
  <2>1. /\ phase[r] \in {"exists", "stat", "write", "acquired"}
        /\ phase' = [phase EXCEPT ![r] = phase'[r]]
        /\ phase'[r] \in {"raised", "abandoned"}
        /\ outcome' = [outcome EXCEPT ![r] = "KeyboardInterrupt"]
        /\ UNCHANGED <<config, stage, carried, storeVars>>
    BY <1>8 DEF InterruptOutside, LeaveEarly, TakeLockFails
  <2> QED BY <2>1
<1> QED BY <1>1, <1>2, <1>3, <1>4, <1>5, <1>6, <1>7, <1>8

\* Either embedder delivers, or ends the pipeline with one of three errors.
LEMMA EmbedOutcomes ==
    ASSUME NEW r \in Run, Embed(r)
    PROVE  /\ At(r, "embed")
           /\ \/ Proceed(r, "upsert") /\ UNCHANGED <<carried, storeVars>>
              \/ \E e \in {"RuntimeError", "EmbedderUnavailable", "EmbedderError"} : Raise(r, e)
BY DEF Embed, OpenAIEmbeds, LocalEmbeds

\* The stages of the pipeline preserve it.
LEMMA PipelineStep ==
    ASSUME JobInv, LockTypeOK, NEW r \in Run,
           \/ Fetch(r) \/ Clean(r) \/ Validate(r) \/ Analyze(r)
           \/ Chunk(r) \/ Embed(r) \/ Upsert(r) \/ InterruptInside(r)
    PROVE  JobInv'
<1> USE IngestionAssumption
    DEF JobInv, IngestionTypeOK, LockTypeOK, Paired, WroteNothingYet, CarriesChunks,
        LateWasSent, OkMeansStored, NoFactoryNoLaunch, Stage, Outcome, EarlyError, Pipeline,
        At, Proceed, Raise, Carry, lockVars, storeVars, IngestionAssumption
<1>1. CASE Fetch(r)
  BY <1>1 DEF Fetch
<1>2. CASE Clean(r)
  BY <1>2 DEF Clean
<1>3. CASE Validate(r)
  BY <1>3 DEF Validate
<1>4. CASE Analyze(r)
  BY <1>4 DEF Analyze
<1>5. CASE Chunk(r)
  BY <1>5 DEF Chunk
<1>6. CASE Embed(r)
  <2>1. /\ At(r, "embed")
        /\ \/ Proceed(r, "upsert") /\ UNCHANGED <<carried, storeVars>>
           \/ \E e \in {"RuntimeError", "EmbedderUnavailable", "EmbedderError"} : Raise(r, e)
    BY <1>6, EmbedOutcomes
  <2> QED BY <2>1
<1>7. CASE Upsert(r)
  <2>1. CASE ReachesCollection(r) /\ UNCHANGED late /\ outcome' = [outcome EXCEPT ![r] = "ok"]
    BY <1>7, <2>1, ReachFacts DEF Upsert
  <2>2. CASE StopsWaiting(r) /\ outcome' = [outcome EXCEPT ![r] = "VectorStoreUnavailable"]
    <3>1. UNCHANGED carried
      BY <1>7 DEF Upsert
    <3> HIDE DEF storeVars
    <3> QED BY <1>7, <2>2, <3>1, StopFacts DEF Upsert
  <2> QED BY <1>7, <2>1, <2>2 DEF Upsert
<1>8. CASE InterruptInside(r)
  <2>1. StopsWaiting(r) /\ UNCHANGED carried
    BY <1>8 DEF InterruptInside
  <2>2. CASE stage[r] = "upsert"
    <3> HIDE DEF storeVars
    <3> QED BY <1>8, <2>1, <2>2, StopFacts DEF InterruptInside
  <2>3. CASE stage[r] # "upsert"
    <3>1. UNCHANGED storeVars
      BY <2>1, <2>3, StopFacts
    <3> QED BY <1>8, <2>3, <3>1 DEF InterruptInside
  <2> QED BY <2>2, <2>3
<1> QED BY <1>1, <1>2, <1>3, <1>4, <1>5, <1>6, <1>7, <1>8

\* The ways to end, and the upsert that arrives after the end, preserve it.
LEMMA EndStep ==
    ASSUME JobInv, LockTypeOK, NEW r \in Run,
           Finish(r) \/ InterruptRelease(r) \/ Die(r) \/ ArrivesLate(r)
    PROVE  JobInv'
<1> USE DEF JobInv, IngestionTypeOK, LockTypeOK, Paired, WroteNothingYet, CarriesChunks,
        LateWasSent, OkMeansStored, NoFactoryNoLaunch, Stage, Outcome, EarlyError, Pipeline,
        MoveTo
<1>1. CASE Finish(r)
  BY <1>1 DEF Finish, Release, ReleaseFails, storeVars
<1>2. CASE InterruptRelease(r)
  BY <1>2 DEF InterruptRelease, Release, ReleaseFails, storeVars
<1>3. CASE Die(r)
  <2>1. phase[r] \notin Terminal /\ phase' = [phase EXCEPT ![r] = "crashed"]
    BY <1>3 DEF Die, Crash
  <2>2. StopsWaiting(r) /\ UNCHANGED carried
    BY <1>3 DEF Die
  <2>3. CASE stage[r] = "upsert"
    BY <1>3, <2>1, <2>2, <2>3, StopFacts DEF Die, Terminal
  <2>4. CASE stage[r] # "upsert"
    <3>1. UNCHANGED storeVars
      BY <2>2, <2>4, StopFacts
    <3> QED BY <1>3, <2>1, <3>1 DEF Die, Terminal, storeVars
  <2> QED BY <2>3, <2>4
<1>4. CASE ArrivesLate(r)
  <2>1. late[r] /\ late' = [late EXCEPT ![r] = FALSE]
        /\ UNCHANGED <<phase, config, stage, carried, outcome, wrote>>
    BY <1>4 DEF ArrivesLate, lockVars
  <2>2. /\ index' \in [Collection!Ordinal -> Collection!Held]
        /\ \A o \in Collection!Ordinal : index[o] # "absent" => index'[o] # "absent"
    BY <1>4, AfterUpsertFacts DEF ArrivesLate
  <2> QED BY <2>1, <2>2
<1> QED BY <1>1, <1>2, <1>3, <1>4

\* The inductive invariant holds throughout.
LEMMA JobInvariant == Spec => []JobInv
<1>1. JobInv /\ LockTypeOK /\ [Next]_vars => JobInv'
  <2> SUFFICES ASSUME JobInv, LockTypeOK, [Next]_vars PROVE JobInv'
    OBVIOUS
  <2>1. CASE TimePasses \/ UNCHANGED vars
    <3>1. UNCHANGED <<phase, pipelineVars>>
      BY <2>1 DEF TimePasses, Tick, vars, lockVars
    <3> QED
      BY <3>1 DEF pipelineVars, JobInv, IngestionTypeOK, Paired, WroteNothingYet,
                  CarriesChunks, LateWasSent, OkMeansStored, NoFactoryNoLaunch, storeVars
  <2>2. CASE \E r \in Run : \/ \E id \in RequestId : Begin(r, id)
                            \/ BootstrapFails(r) \/ Step(r) \/ InterruptOutside(r)
                            \/ InterruptInside(r) \/ InterruptRelease(r) \/ Die(r)
                            \/ ArrivesLate(r)
    BY <2>2, OutsideStep, PipelineStep, EndStep DEF Step, TimedStep
  <2> QED BY <2>1, <2>2 DEF Next
<1>2. Spec => []LockTypeOK
  BY FollowsLockProtocol, LockTyping, PTL DEF ImplementsLock
<1> QED BY <1>1, <1>2, JobInvInit, PTL DEF Spec

(***************************************************************************)
(* What follows from it.                                                   *)
(***************************************************************************)
\* Types: the collection is a function on the ordinals, every stage and every
\* outcome is one of those named.
THEOREM IngestionTyping == Spec => []IngestionTypeOK
BY JobInvariant, PTL DEF JobInv

\* Exit codes are true of the collection, for any number of Jobs that interleave,
\* fail, are interrupted and die in any way.
THEOREM ReportsAreTruthful == Spec => []ReportIsTruthful
<1>1. JobInv => ReportIsTruthful
  <2> SUFFICES ASSUME JobInv, NEW r \in Run
               PROVE  /\ ExitCode(r) = 0 =>
                            IF outcome[r] = "skipped"
                            THEN ~wrote[r]
                            ELSE /\ \A o \in Collection!Ordinal :
                                       o < carried[r] => index[o] # "absent"
                                 /\ ~late[r]
                      /\ ExitCode(r) = 2 \/ outcome[r] \in EarlyError => ~wrote[r]
    BY DEF ReportIsTruthful
  <2>1. /\ ExitCode(r) = 0 => outcome[r] \in {"ok", "skipped"}
        /\ ExitCode(r) = 2 => outcome[r] = "bootstrap_failed"
    BY DEF ExitCode
  <2> QED BY <2>1 DEF JobInv, WroteNothingYet, OkMeansStored, LateWasSent
<1> QED BY <1>1, JobInvariant, PTL

(***************************************************************************)
(* The collection implements the abstract index. What a process owes it is *)
(* followed from the chunker to the upsert, or to its late arrival.        *)
(***************************************************************************)
DueOf(r) == IF late[r] \/ stage[r] \in {"embed", "upsert"} THEN carried[r] ELSE 0

\* What one process can do to the collection and to what it owes.
Makes(r) == index' = index /\ DueOf(r) = 0 /\ DueOf(r)' \in 0..MaxChunks
GivesUp(r) == index' = index /\ DueOf(r)' = 0
Keeps(r) == index' = index /\ DueOf(r)' = DueOf(r)
Stores(r) == index' = Collection!AfterUpsert(index, DueOf(r)) /\ DueOf(r)' = 0

\* Each of these is a step of the abstract index, or none.
LEMMA DueStep ==
    ASSUME JobInv, NEW r \in Run,
           \A q \in Run \ {r} : DueOf(q)' = DueOf(q),
           Makes(r) \/ GivesUp(r) \/ Keeps(r) \/ Stores(r)
    PROVE  [Collection!IndexNext]_(Collection!indexVars)
<1>1. DueOf(r) \in 0..MaxChunks
  BY IngestionAssumption DEF DueOf, JobInv, CarriesChunks, LateWasSent, IngestionAssumption
<1>2. Due = [q \in Run |-> DueOf(q)] /\ Due' = [q \in Run |-> DueOf(q)']
  BY DEF Due, DueOf
<1>3. Due' = [Due EXCEPT ![r] = DueOf(r)'] /\ Due[r] = DueOf(r)
  BY <1>2
<1>4. CASE index' = index /\ DueOf(r)' = DueOf(r)
  <2>1. Due' = Due
    BY <1>2, <1>4
  <2> QED BY <1>4, <2>1 DEF Collection!indexVars
<1>5. CASE Makes(r) /\ DueOf(r)' # DueOf(r)
  <2>1. DueOf(r)' \in 1..MaxChunks
    BY <1>1, <1>5, IngestionAssumption DEF Makes, IngestionAssumption
  <2>2. Collection!Makes(r, DueOf(r)')
    BY <1>3, <1>5 DEF Makes, Collection!Makes, Collection!Owes
  <2> QED BY <2>1, <2>2 DEF Collection!IndexNext
<1>6. CASE GivesUp(r) /\ DueOf(r)' # DueOf(r)
  <2>1. Collection!GivesUp(r)
    BY <1>1, <1>3, <1>6 DEF GivesUp, Collection!GivesUp, Collection!Owes
  <2> QED BY <2>1 DEF Collection!IndexNext
<1>7. CASE Stores(r) /\ DueOf(r) # 0
  <2>1. Collection!Stores(r)
    BY <1>1, <1>3, <1>7 DEF Stores, Collection!Stores, Collection!Owes
  <2> QED BY <2>1 DEF Collection!IndexNext
<1>8. CASE Stores(r) /\ DueOf(r) = 0
  <2>1. index' = index
    BY <1>8, AfterUpsertOfNothing DEF Stores, JobInv, IngestionTypeOK
  <2> QED BY <1>4, <1>8, <2>1 DEF Stores
<1> QED BY <1>4, <1>5, <1>6, <1>7, <1>8 DEF Makes, GivesUp, Keeps

\* What is not part of r's own record of the run does not change what others owe.
LEMMA OthersOwe ==
    ASSUME NEW r \in Run,
           \A q \in Run \ {r} : late'[q] = late[q] /\ stage'[q] = stage[q] /\ carried'[q] = carried[q]
    PROVE  \A q \in Run \ {r} : DueOf(q)' = DueOf(q)
BY DEF DueOf

\* A process that stops waiting at its upsert has stored, given up, or still owes.
LEMMA StopOwes ==
    ASSUME JobInv, NEW r \in Run, StopsWaiting(r), UNCHANGED carried, stage[r] = "upsert",
           stage' \in [Run -> Stage], stage'[r] \notin {"embed", "upsert"},
           \A q \in Run \ {r} : stage'[q] = stage[q]
    PROVE  /\ GivesUp(r) \/ Keeps(r) \/ Stores(r)
           /\ \A q \in Run \ {r} : DueOf(q)' = DueOf(q)
<1>1. ~late[r] /\ DueOf(r) = carried[r]
  BY DEF DueOf, JobInv, WroteNothingYet, LateWasSent, Pipeline
<1>2. \A q \in Run \ {r} : late'[q] = late[q]
  BY StopFacts
<1>3. \A q \in Run \ {r} : DueOf(q)' = DueOf(q)
  BY <1>2, OthersOwe
<1>4. CASE UNCHANGED storeVars
  BY <1>1, <1>4 DEF GivesUp, DueOf, storeVars
<1>5. CASE ReachesCollection(r) /\ UNCHANGED late
  BY <1>1, <1>5 DEF Stores, DueOf, ReachesCollection
<1>6. CASE late' = [late EXCEPT ![r] = TRUE] /\ UNCHANGED index
  BY <1>1, <1>6 DEF Keeps, DueOf, JobInv, IngestionTypeOK
<1> QED BY <1>3, <1>4, <1>5, <1>6 DEF StopsWaiting

\* The steps around the pipeline leave the collection and what is owed to it alone.
LEMMA OutsideOwes ==
    ASSUME JobInv, LockTypeOK, NEW r \in Run,
           \/ \E id \in RequestId : Begin(r, id)
           \/ BootstrapFails(r)
           \/ AcquireLooks(r) \/ AcquireDecides(r) \/ AcquireTakes(r) \/ AcquireRaises(r)
           \/ EnterPipeline(r) \/ InterruptOutside(r) \/ Finish(r) \/ InterruptRelease(r)
    PROVE  Keeps(r) /\ \A q \in Run \ {r} : DueOf(q)' = DueOf(q)
<1> USE DEF JobInv, IngestionTypeOK, Outside, storeVars
<1>1. CASE \E id \in RequestId : Begin(r, id)
  <2>1. ~late[r] /\ phase[r] # "inside"
    BY <1>1 DEF Begin, Launch, Terminal
  <2>2. DueOf(r) = 0
    BY <2>1 DEF DueOf, Paired
  <2>3. /\ UNCHANGED <<index, late, stage>>
        /\ \A q \in Run \ {r} : carried'[q] = carried[q]
    BY <1>1 DEF Begin, Carry
  <2>4. DueOf(r)' = 0
    BY <2>1, <2>3 DEF DueOf, Paired
  <2> QED BY <2>2, <2>3, <2>4, OthersOwe DEF Keeps
<1>2. CASE \/ BootstrapFails(r) \/ AcquireLooks(r) \/ AcquireDecides(r) \/ AcquireTakes(r)
           \/ AcquireRaises(r) \/ InterruptOutside(r)
  <2>1. UNCHANGED <<stage, carried, index, late>>
    BY <1>2 DEF BootstrapFails, AcquireLooks, AcquireDecides, AcquireTakes, AcquireRaises,
                InterruptOutside, pipelineVars
  <2> QED BY <2>1 DEF Keeps, DueOf
<1>3. CASE EnterPipeline(r)
  <2>1. stage[r] = "none" /\ stage' = [stage EXCEPT ![r] = "fetch"] /\ UNCHANGED <<carried, index, late>>
    BY <1>3 DEF EnterPipeline, EnterTry, Proceed, Paired
  <2> QED BY <2>1 DEF Keeps, DueOf
<1>4. CASE Finish(r) \/ InterruptRelease(r)
  <2>1. stage[r] = "finally" /\ stage' = [stage EXCEPT ![r] = "none"] /\ UNCHANGED <<carried, index, late>>
    BY <1>4 DEF Finish, InterruptRelease
  <2> QED BY <2>1 DEF Keeps, DueOf
<1> QED BY <1>1, <1>2, <1>3, <1>4

\* The stages before the upsert store nothing.
LEMMA StageOwes ==
    ASSUME JobInv, LockTypeOK, NEW r \in Run,
           Fetch(r) \/ Clean(r) \/ Validate(r) \/ Analyze(r) \/ Chunk(r) \/ Embed(r)
    PROVE  /\ Makes(r) \/ GivesUp(r) \/ Keeps(r)
           /\ \A q \in Run \ {r} : DueOf(q)' = DueOf(q)
<1> USE DEF JobInv, IngestionTypeOK, storeVars, At, Proceed, Raise, Carry
<1>1. stage[r] \in Pipeline /\ ~late[r]
  BY DEF Fetch, Clean, Validate, Analyze, Chunk, Embed, Pipeline, WroteNothingYet, LateWasSent
<1>2. UNCHANGED <<index, late>>
  <2>1. CASE Embed(r)
    BY <2>1, EmbedOutcomes
  <2>2. CASE Fetch(r) \/ Clean(r) \/ Validate(r) \/ Analyze(r) \/ Chunk(r)
    BY <2>2 DEF Fetch, Clean, Validate, Analyze, Chunk
  <2> QED BY <2>1, <2>2
<1>3. CASE Fetch(r) \/ Clean(r) \/ Validate(r) \/ Analyze(r)
  <2>1. /\ stage[r] \notin {"embed", "upsert"}
        /\ stage' = [stage EXCEPT ![r] = stage'[r]] /\ stage'[r] \notin {"embed", "upsert"}
        /\ \A q \in Run \ {r} : carried'[q] = carried[q]
    BY <1>3 DEF Fetch, Clean, Validate, Analyze
  <2>2. Keeps(r)
    BY <1>1, <1>2, <2>1 DEF Keeps, DueOf
  <2> QED BY <1>2, <2>1, <2>2, OthersOwe
<1>4. CASE Chunk(r)
  <2>1. stage[r] = "chunk" /\ DueOf(r) = 0
    BY <1>1, <1>4 DEF Chunk, DueOf
  <2>2. CASE stage' = [stage EXCEPT ![r] = "finally"] /\ UNCHANGED carried
    BY <1>1, <1>2, <2>1, <2>2 DEF GivesUp, DueOf
  <2>3. CASE stage' = [stage EXCEPT ![r] = "embed"] /\ \E n \in 0..MaxChunks : Carry(r, n)
    BY <1>2, <2>1, <2>3 DEF Makes, DueOf
  <2> QED BY <1>4, <2>2, <2>3 DEF Chunk
<1>5. CASE Embed(r)
  <2>1. UNCHANGED carried /\ stage[r] = "embed"
        /\ \E to \in {"upsert", "finally"} : stage' = [stage EXCEPT ![r] = to]
    BY <1>5, EmbedOutcomes
  <2> QED BY <1>1, <1>2, <2>1 DEF Keeps, GivesUp, DueOf
<1> QED BY <1>3, <1>4, <1>5

\* The upsert and what may become of it.
LEMMA UpsertOwes ==
    ASSUME JobInv, LockTypeOK, NEW r \in Run,
           Upsert(r) \/ InterruptInside(r) \/ Die(r) \/ ArrivesLate(r)
    PROVE  /\ GivesUp(r) \/ Keeps(r) \/ Stores(r)
           /\ \A q \in Run \ {r} : DueOf(q)' = DueOf(q)
<1> USE DEF JobInv, IngestionTypeOK, Stage
<1>1. CASE Upsert(r) /\ ~StopsWaiting(r)
  <2>1. /\ stage[r] = "upsert" /\ stage' = [stage EXCEPT ![r] = "finally"]
        /\ UNCHANGED <<carried, late>> /\ ReachesCollection(r)
    BY <1>1 DEF Upsert, At
  <2>2. ~late[r]
    BY <2>1 DEF WroteNothingYet, LateWasSent, Pipeline
  <2> QED BY <2>1, <2>2 DEF Stores, DueOf, ReachesCollection
<1>2. CASE (Upsert(r) /\ StopsWaiting(r)) \/ ((InterruptInside(r) \/ Die(r)) /\ stage[r] = "upsert")
  <2>1. StopsWaiting(r) /\ UNCHANGED carried /\ stage[r] = "upsert"
    BY <1>2 DEF Upsert, At, InterruptInside, Die
  <2>2. \E to \in {"finally", "none"} : stage' = [stage EXCEPT ![r] = to]
    BY <1>2 DEF Upsert, InterruptInside, Die
  <2>3. /\ stage' \in [Run -> Stage] /\ stage'[r] \notin {"embed", "upsert"}
        /\ \A q \in Run \ {r} : stage'[q] = stage[q]
    BY <2>2
  <2> QED BY <2>1, <2>3, StopOwes
<1>3. CASE (InterruptInside(r) \/ Die(r)) /\ stage[r] # "upsert"
  <2>1. UNCHANGED <<carried, index, late>>
    BY <1>3, StopFacts DEF InterruptInside, Die, storeVars
  <2>2. \E to \in {"finally", "none"} : stage' = [stage EXCEPT ![r] = to]
    BY <1>3 DEF InterruptInside, Die
  <2> QED BY <1>3, <2>1, <2>2 DEF Keeps, GivesUp, DueOf
<1>4. CASE ArrivesLate(r)
  <2>1. /\ late[r] /\ late' = [late EXCEPT ![r] = FALSE]
        /\ index' = Collection!AfterUpsert(index, carried[r])
        /\ UNCHANGED <<stage, carried>>
    BY <1>4 DEF ArrivesLate
  <2>2. stage[r] \notin {"embed", "upsert"}
    BY <2>1 DEF WroteNothingYet, LateWasSent, Pipeline
  <2> QED BY <2>1, <2>2 DEF Stores, DueOf
<1> QED BY <1>1, <1>2, <1>3, <1>4

\* Whatever the Jobs do, seen from the collection it is a step of the index.
LEMMA StepIsIndexStep ==
    JobInv /\ LockTypeOK /\ [Next]_vars => [Collection!IndexNext]_(Collection!indexVars)
<1> SUFFICES ASSUME JobInv, LockTypeOK, [Next]_vars
             PROVE  [Collection!IndexNext]_(Collection!indexVars)
  OBVIOUS
<1>1. CASE TimePasses \/ UNCHANGED vars
  BY <1>1 DEF TimePasses, vars, pipelineVars, storeVars, Collection!indexVars, Due
<1>2. CASE \E r \in Run : \/ \E id \in RequestId : Begin(r, id)
                          \/ BootstrapFails(r) \/ Step(r) \/ InterruptOutside(r)
                          \/ InterruptInside(r) \/ InterruptRelease(r) \/ Die(r)
                          \/ ArrivesLate(r)
  BY <1>2, OutsideOwes, StageOwes, UpsertOwes, DueStep DEF Step, TimedStep
<1> QED BY <1>1, <1>2 DEF Next

\* Nothing is stored, and nobody owes, at first.
LEMMA IndexInitially == Init => Collection!IndexInit
BY DEF Init, Collection!IndexInit, Due

\* The Job implements the abstract index: every version of the page that some
\* process makes is stored whole, by one step and once, or not at all, whatever
\* fails, is interrupted, dies or arrives late; and nothing else is stored.
THEOREM VersionsAreWhole == Spec => ImplementsIndex
<1>1. Init => Collection!IndexInit
  BY IndexInitially
<1>2. Spec => []LockTypeOK
  BY FollowsLockProtocol, LockTyping, PTL DEF ImplementsLock
<1> QED
  BY <1>1, <1>2, StepIsIndexStep, JobInvariant, PTL DEF Spec, ImplementsIndex, Collection!IndexSpec

\* The index never has a hole, and an older version shows only behind the
\* current one.
THEOREM IndexStaysLayered == Spec => []IndexLayered
<1>1. Init => Collection!Layered
  BY DEF Init, Collection!Layered
<1>2. JobInv /\ LockTypeOK /\ Collection!Layered /\ [Next]_vars => Collection!Layered'
  <2> SUFFICES ASSUME JobInv, LockTypeOK, Collection!Layered, [Next]_vars
               PROVE  Collection!Layered'
    OBVIOUS
  <2>1. CASE Collection!IndexNext /\ index' # index
    <3>1. PICK w \in Run : Collection!Stores(w)
      BY <2>1 DEF Collection!IndexNext, Collection!Makes, Collection!GivesUp
    <3>2. Due[w] = DueOf(w) /\ Due[w] > 0 /\ index' = Collection!AfterUpsert(index, Due[w])
      BY <3>1 DEF Collection!Stores, Due, DueOf
    <3>3. Due[w] \in Nat
      BY <3>2 DEF DueOf, JobInv, IngestionTypeOK
    <3> QED BY <3>2, <3>3, UpsertKeepsLayers DEF JobInv, IngestionTypeOK
  <2>2. CASE UNCHANGED index
    BY <2>2 DEF Collection!Layered
  <2> QED BY <2>1, <2>2, StepIsIndexStep DEF Collection!indexVars
<1>3. Spec => []LockTypeOK
  BY FollowsLockProtocol, LockTyping, PTL DEF ImplementsLock
<1> QED BY <1>1, <1>2, <1>3, JobInvariant, PTL DEF Spec, IndexLayered

(***************************************************************************)
(* Writes are sent under the lock.                                         *)
(***************************************************************************)
\* A step of a process that changes the collection or leaves an upsert on its way
\* is its upsert, or an end of its waiting for it; or it is the late arrival.
LEMMA ChangeIsSent ==
    ASSUME JobInv, [Next]_vars
    PROVE  \/ UNCHANGED <<index, late>>
           \/ \E r \in Run : ArrivesLate(r)
           \/ \E r \in Run : /\ stage[r] = "upsert"
                             /\ ReachesCollection(r) /\ UNCHANGED late
           \/ \E r \in Run : /\ stage[r] = "upsert"
                             /\ late' = [late EXCEPT ![r] = TRUE]
                             /\ wrote' = [wrote EXCEPT ![r] = TRUE]
                             /\ UNCHANGED index
<1>1. CASE UNCHANGED storeVars
  BY <1>1 DEF storeVars
<1>2. ASSUME NEW r \in Run, Upsert(r) \/ InterruptInside(r) \/ Die(r)
      PROVE  \/ UNCHANGED <<index, late>>
             \/ stage[r] = "upsert" /\ ReachesCollection(r) /\ UNCHANGED late
             \/ /\ stage[r] = "upsert"
                /\ late' = [late EXCEPT ![r] = TRUE]
                /\ wrote' = [wrote EXCEPT ![r] = TRUE]
                /\ UNCHANGED index
  BY <1>2 DEF Upsert, At, InterruptInside, Die, StopsWaiting, storeVars
<1>3. ASSUME NEW r \in Run, \E id \in RequestId : Begin(r, id) PROVE UNCHANGED <<index, late>>
  BY <1>3 DEF Begin
<1>4. ASSUME NEW r \in Run,
             \/ BootstrapFails(r) \/ TimedStep(r) \/ InterruptOutside(r) \/ InterruptRelease(r)
      PROVE  UNCHANGED storeVars
  <2>1. CASE Embed(r)
    BY <2>1, EmbedOutcomes DEF Raise
  <2>2. CASE \/ BootstrapFails(r) \/ InterruptOutside(r) \/ InterruptRelease(r) \/ Finish(r)
             \/ AcquireLooks(r) \/ AcquireDecides(r) \/ AcquireTakes(r) \/ AcquireRaises(r)
             \/ EnterPipeline(r)
    BY <2>2 DEF BootstrapFails, InterruptOutside, InterruptRelease, Finish, AcquireLooks,
                AcquireDecides, AcquireTakes, AcquireRaises, EnterPipeline, Outside, pipelineVars
  <2>3. CASE Fetch(r) \/ Clean(r) \/ Validate(r) \/ Analyze(r) \/ Chunk(r)
    BY <2>3 DEF Fetch, Clean, Validate, Analyze, Chunk, Raise
  <2> QED BY <1>4, <2>1, <2>2, <2>3 DEF TimedStep
<1>5. CASE TimePasses \/ UNCHANGED vars
  BY <1>1, <1>5 DEF TimePasses, vars, pipelineVars
<1> QED BY <1>1, <1>2, <1>3, <1>4, <1>5 DEF Next, Step

\* Nobody sends to the collection without the lock, or twice: the stage of the
\* process that sends says that it is inside, and what is proved of the lock
\* says what that is worth.
THEOREM WritesAreSentLockedHolds == Spec => WritesAreSentLocked
<1> DEFINE Body ==
        /\ index' # index => \E r \in Run : SendsUnderLock(r) \/ (late[r] /\ ~late'[r])
        /\ \A r \in Run : late'[r] /\ ~late[r] => SendsUnderLock(r)
<1>1. JobInv /\ SafetyBelt /\ HoldsOwnLock /\ [Next]_vars => Body
  <2> SUFFICES ASSUME JobInv, SafetyBelt, HoldsOwnLock, [Next]_vars PROVE Body
    OBVIOUS
  <2>1. ASSUME NEW r \in Run, stage[r] = "upsert", wrote'[r] PROVE SendsUnderLock(r)
    <3>1. Inside(r) /\ ~wrote[r]
      BY <2>1 DEF JobInv, Paired, WroteNothingYet, Pipeline, Inside
    <3> QED BY <2>1, <3>1 DEF SendsUnderLock, SafetyBelt, HoldsOwnLock
  <2>2. CASE UNCHANGED <<index, late>>
    BY <2>2
  <2>3. ASSUME NEW r \in Run, ArrivesLate(r) PROVE Body
    BY <2>3 DEF ArrivesLate, JobInv, IngestionTypeOK
  <2>4. ASSUME NEW r \in Run, stage[r] = "upsert", ReachesCollection(r), UNCHANGED late
        PROVE  Body
    <3>1. CASE carried[r] = 0
      BY <2>4, <3>1, AfterUpsertOfNothing DEF ReachesCollection, JobInv, IngestionTypeOK
    <3>2. CASE carried[r] # 0
      <4>1. carried[r] > 0
        BY <2>4, <3>2, IngestionAssumption DEF JobInv, CarriesChunks, IngestionAssumption
      <4>2. wrote'[r]
        BY <2>4, <4>1 DEF ReachesCollection, JobInv, IngestionTypeOK
      <4> QED BY <2>1, <2>4, <4>2
    <3> QED BY <3>1, <3>2
  <2>5. ASSUME NEW r \in Run, stage[r] = "upsert", UNCHANGED index,
               late' = [late EXCEPT ![r] = TRUE], wrote' = [wrote EXCEPT ![r] = TRUE]
        PROVE  Body
    <3>1. wrote'[r] /\ \A q \in Run \ {r} : late'[q] = late[q]
      BY <2>5 DEF JobInv, IngestionTypeOK
    <3>2. SendsUnderLock(r)
      BY <2>1, <2>5, <3>1
    <3> QED BY <2>5, <3>1, <3>2
  <2> QED BY <2>2, <2>3, <2>4, <2>5, ChangeIsSent
<1> QED BY <1>1, JobInvariant, JobsExclude, JobHoldsOwnLock, PTL DEF Spec, WritesAreSentLocked

(***************************************************************************)
(* Why every launch ends.                                                  *)
(***************************************************************************)
\* What is left to a process, as a function of where it is.
LeftAt(p, s) == IF p \in Terminal THEN 0 ELSE Left[IF p = "inside" THEN s ELSE p]

LEMMA LeftWhere ==
    ASSUME NEW r \in Run
    PROVE  /\ StagesLeft(r) = LeftAt(phase[r], stage[r])
           /\ StagesLeft(r)' = LeftAt(phase'[r], stage'[r])
BY DEF StagesLeft, LeftAt

\* Who stays where it is has as much left as before.
LEMMA LeftStays ==
    ASSUME NEW r \in Run, phase'[r] = phase[r], stage'[r] = stage[r]
    PROVE  StagesLeft(r)' = StagesLeft(r)
BY LeftWhere

\* Each place before the end, in the order in which a process meets them.
LEMMA LeftValues ==
    /\ \A s : /\ \A p \in Terminal : LeftAt(p, s) = 0
              /\ LeftAt("exists", s) = 12
              /\ LeftAt("stat", s) = 11
              /\ LeftAt("write", s) = 10
              /\ LeftAt("acquired", s) = 9
    /\ LeftAt("inside", "fetch") = 8
    /\ LeftAt("inside", "clean") = 7
    /\ LeftAt("inside", "validate") = 6
    /\ LeftAt("inside", "analyze") = 5
    /\ LeftAt("inside", "chunk") = 4
    /\ LeftAt("inside", "embed") = 3
    /\ LeftAt("inside", "upsert") = 2
    /\ LeftAt("inside", "finally") = 1
BY DEF LeftAt, Left, Terminal

\* Nobody but r moves.
OthersStay(r) == \A q \in Run \ {r} : phase'[q] = phase[q] /\ stage'[q] = stage[q]

\* Raising, from wherever, leads to `finally`.
LEMMA RaiseAdvances ==
    ASSUME JobInv, LockTypeOK, NEW r \in Run, stage[r] \in Pipeline,
           phase' = phase, stage' = [stage EXCEPT ![r] = "finally"]
    PROVE  StagesLeft(r)' < StagesLeft(r) /\ OthersStay(r)
<1>1. phase[r] = "inside" /\ stage'[r] = "finally" /\ OthersStay(r)
  BY DEF JobInv, IngestionTypeOK, Paired, Pipeline, OthersStay
<1> QED BY <1>1, LeftWhere, LeftValues DEF Pipeline

\* A stage that succeeds hands over to a later one.
LEMMA StageAdvances ==
    ASSUME JobInv, LockTypeOK, NEW r \in Run,
           \/ Fetch(r) \/ Clean(r) \/ Validate(r) \/ Analyze(r)
           \/ Chunk(r) \/ Embed(r) \/ Upsert(r) \/ InterruptInside(r)
    PROVE  StagesLeft(r)' < StagesLeft(r) /\ OthersStay(r)
<1>1. phase' = phase /\ stage[r] \in Pipeline
  BY DEF Fetch, Clean, Validate, Analyze, Chunk, Embed, Upsert, InterruptInside, At, lockVars,
         Pipeline
<1>2. phase[r] = "inside"
  BY <1>1 DEF JobInv, Paired, Pipeline
<1>3. CASE stage' = [stage EXCEPT ![r] = "finally"]
  BY <1>1, <1>3, RaiseAdvances
<1>4. CASE stage' # [stage EXCEPT ![r] = "finally"]
  <2>1. \/ stage[r] = "fetch" /\ stage' = [stage EXCEPT ![r] = "clean"]
        \/ stage[r] = "clean" /\ stage' = [stage EXCEPT ![r] = "validate"]
        \/ stage[r] = "validate" /\ \E s \in {"analyze", "chunk"} : stage' = [stage EXCEPT ![r] = s]
        \/ stage[r] = "analyze" /\ stage' = [stage EXCEPT ![r] = "chunk"]
        \/ stage[r] = "chunk" /\ stage' = [stage EXCEPT ![r] = "embed"]
        \/ stage[r] = "embed" /\ stage' = [stage EXCEPT ![r] = "upsert"]
    BY <1>4, EmbedOutcomes
       DEF Fetch, Clean, Validate, Analyze, Chunk, Upsert, InterruptInside, At, Proceed, Raise
  <2>2. \/ stage[r] = "fetch" /\ stage'[r] = "clean"
        \/ stage[r] = "clean" /\ stage'[r] = "validate"
        \/ stage[r] = "validate" /\ stage'[r] \in {"analyze", "chunk"}
        \/ stage[r] = "analyze" /\ stage'[r] = "chunk"
        \/ stage[r] = "chunk" /\ stage'[r] = "embed"
        \/ stage[r] = "embed" /\ stage'[r] = "upsert"
    BY <2>1 DEF JobInv, IngestionTypeOK
  <2>3. OthersStay(r)
    BY <1>1, <2>1 DEF JobInv, IngestionTypeOK, OthersStay
  <2> QED BY <1>1, <1>2, <2>2, <2>3, LeftWhere, LeftValues
<1> QED BY <1>3, <1>4

\* So does everything before the pipeline and after it.
LEMMA LockStepAdvances ==
    ASSUME JobInv, LockTypeOK, NEW r \in Run,
           \/ AcquireLooks(r) \/ AcquireDecides(r) \/ AcquireTakes(r) \/ AcquireRaises(r)
           \/ EnterPipeline(r) \/ Finish(r) \/ InterruptOutside(r) \/ InterruptRelease(r) \/ Die(r)
    PROVE  StagesLeft(r)' < StagesLeft(r) /\ OthersStay(r)
<1> DEFINE Ends == phase[r] \notin Terminal /\ phase'[r] \in Terminal
<1> USE DEF LockTypeOK, JobInv, IngestionTypeOK, MoveTo, Outside, OthersStay, Terminal
<1>1. CASE AcquireLooks(r)
  <2>1. /\ phase[r] = "exists" /\ phase'[r] \in {"stat", "write"}
        /\ OthersStay(r)
    BY <1>1 DEF AcquireLooks, LookForFile, pipelineVars
  <2> QED BY <2>1, LeftWhere, LeftValues
<1>2. CASE AcquireDecides(r)
  <2>1. /\ phase[r] = "stat" /\ phase'[r] \in {"raised", "skipped", "write"}
        /\ OthersStay(r)
    BY <1>2 DEF AcquireDecides, StatFile
  <2> QED BY <2>1, LeftWhere, LeftValues
<1>3. CASE AcquireTakes(r)
  <2>1. phase[r] = "write" /\ phase'[r] = "acquired" /\ OthersStay(r)
    BY <1>3 DEF AcquireTakes, TakeLock, pipelineVars
  <2> QED BY <2>1, LeftWhere, LeftValues
<1>4. CASE EnterPipeline(r)
  <2>1. /\ phase[r] = "acquired" /\ phase'[r] = "inside" /\ stage'[r] = "fetch"
        /\ OthersStay(r)
    BY <1>4 DEF EnterPipeline, EnterTry, Proceed
  <2> QED BY <2>1, LeftWhere, LeftValues
<1>5. CASE \/ AcquireRaises(r) \/ Finish(r) \/ InterruptOutside(r) \/ InterruptRelease(r)
           \/ Die(r)
  <2>1. Ends /\ OthersStay(r)
    BY <1>5 DEF AcquireRaises, TakeLockFails, LeaveEarly, Finish, Release, ReleaseFails,
                InterruptOutside, InterruptRelease, Die, Crash
  <2>2. phase[r] \in {"exists", "stat", "write", "acquired", "inside"}
    BY <2>1 DEF Phase
  <2>3. phase[r] = "inside" => stage[r] \in Pipeline \cup {"finally"}
    BY DEF Paired, Stage
  <2>4. LeftAt(phase[r], stage[r]) \in 1..12
    BY <2>2, <2>3, LeftValues DEF Pipeline
  <2>5. LeftAt(phase'[r], stage'[r]) = 0
    BY <2>1, LeftValues
  <2> QED BY <2>1, <2>4, <2>5, LeftWhere
<1> QED BY <1>1, <1>2, <1>3, <1>4, <1>5

\* A process only goes forward, and with each step of its own it does: no error,
\* interrupt or decision of the lock leads back to something already done, so
\* that a launch takes at most twelve steps.
THEOREM JobsAdvanceHolds == Spec => JobsAdvance
<1> DEFINE Body ==
        \A r \in Run : StagesLeft(r) > 0 =>
           \/ StagesLeft(r)' < StagesLeft(r)
           \/ StagesLeft(r)' = StagesLeft(r) /\ ~Step(r)
<1>1. JobInv /\ LockTypeOK /\ [Next]_vars => Body
  <2> SUFFICES ASSUME JobInv, LockTypeOK, [Next]_vars, NEW r \in Run, StagesLeft(r) > 0
               PROVE  \/ StagesLeft(r)' < StagesLeft(r)
                      \/ StagesLeft(r)' = StagesLeft(r) /\ ~Step(r)
    OBVIOUS
  <2>1. CASE Step(r) \/ InterruptOutside(r) \/ InterruptInside(r) \/ InterruptRelease(r) \/ Die(r)
    BY <2>1, StageAdvances, LockStepAdvances DEF Step, TimedStep
  <2>2. CASE UNCHANGED <<phase, stage>> /\ ~Step(r)
    BY <2>2, LeftStays
  <2>3. phase[r] \notin Terminal
    BY LeftWhere, LeftValues
  <2>4. ASSUME NEW q \in Run \ {r}, ~Step(r),
               \/ \E id \in RequestId : Begin(q, id)
               \/ BootstrapFails(q) \/ Step(q) \/ InterruptOutside(q)
               \/ InterruptInside(q) \/ InterruptRelease(q) \/ Die(q) \/ ArrivesLate(q)
        PROVE  StagesLeft(r)' = StagesLeft(r)
    <3>1. CASE \E id \in RequestId : Begin(q, id)
      BY <3>1, LeftStays DEF Begin, Launch, MoveTo, LockTypeOK
    <3>2. CASE BootstrapFails(q)
      BY <3>2, LeftStays DEF BootstrapFails, Outside, lockVars
    <3>3. CASE \/ Step(q) \/ InterruptOutside(q) \/ InterruptInside(q) \/ InterruptRelease(q)
               \/ Die(q)
      <4>1. OthersStay(q)
        BY <3>3, StageAdvances, LockStepAdvances DEF Step, TimedStep
      <4> QED BY <4>1, LeftStays DEF OthersStay
    <3>4. CASE ArrivesLate(q)
      BY <3>4, LeftStays DEF ArrivesLate, lockVars
    <3> QED BY <2>4, <3>1, <3>2, <3>3, <3>4
  <2>5. CASE TimePasses \/ UNCHANGED vars
    BY <2>1, <2>2, <2>5 DEF TimePasses, Tick, vars, lockVars, pipelineVars
  <2>6. CASE \E q \in Run : \/ \E id \in RequestId : Begin(q, id)
                            \/ BootstrapFails(q) \/ Step(q) \/ InterruptOutside(q)
                            \/ InterruptInside(q) \/ InterruptRelease(q) \/ Die(q)
                            \/ ArrivesLate(q)
    <3>1. PICK q \in Run : \/ \E id \in RequestId : Begin(q, id)
                           \/ BootstrapFails(q) \/ Step(q) \/ InterruptOutside(q)
                           \/ InterruptInside(q) \/ InterruptRelease(q) \/ Die(q)
                           \/ ArrivesLate(q)
      BY <2>6
    <3>2. CASE q = r
      <4>1. CASE ArrivesLate(r)
        BY <2>1, <2>2, <4>1 DEF ArrivesLate, lockVars
      <4> QED BY <2>1, <2>3, <3>1, <3>2, <4>1 DEF Begin, Launch, BootstrapFails
    <3>3. CASE q # r
      BY <2>1, <2>4, <3>1, <3>3
    <3> QED BY <3>2, <3>3
  <2> QED BY <2>5, <2>6 DEF Next
<1>2. Spec => []LockTypeOK
  BY FollowsLockProtocol, LockTyping, PTL DEF ImplementsLock
<1> QED BY <1>1, <1>2, JobInvariant, PTL DEF Spec, JobsAdvance

=============================================================================
