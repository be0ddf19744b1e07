----------------------------- MODULE Ingestion -----------------------------
(***************************************************************************)
(* The ingestion Job: processes that each run IngestionService.run once    *)
(* against the same source URL, the same lock directory and the same       *)
(* Chroma collection. The lock steps are those of IngestionLock; while a   *)
(* process is inside, its pipeline goes                                    *)
(*                                                                         *)
(*   fetch -> clean -> validate -> analyze -> chunk -> embed -> upsert     *)
(*                                                                         *)
(* and whatever stage raises goes to `finally`, which releases the lock.   *)
(***************************************************************************)
EXTENDS IngestionLock

CONSTANTS
    MaxChunks,   \* bound on the number of chunks a page yields
    MaxText,     \* bound on the length of the cleaned text
    MinText,     \* min_text_length of the cleaner and of the validator
    Backends     \* the [chunker, analyzer, embedder] settings to consider

ASSUME IngestionAssumption ==
    /\ MaxChunks \in Nat
    /\ MaxText \in Nat
    /\ MinText \in Nat
    /\ Backends \subseteq [chunker : {"hybrid", "fixed_size"},
                           analyzer : {"openai", "none"},
                           embedder : {"openai", "local", "fake"}]

VARIABLES
    config,   \* the deployment's settings; they do not change
    stage,    \* where each process is in run()
    carried,  \* length of the cleaned text, then number of chunks in hand
    outcome,  \* what run() returned, or the exception in flight
    index,    \* the collection: the chunks of the source URL
    late,     \* the process's upsert is on its way and nobody waits for it
    wrote     \* history: whether its upsert has reached the collection or may yet

storeVars == <<index, late, wrote>>
pipelineVars == <<config, stage, carried, outcome, storeVars>>
vars == <<lockVars, pipelineVars>>

\* What a process has made and not stored: its chunks, until the upsert has
\* reached the collection or never will.
Due == [r \in Run |-> IF late[r] \/ stage[r] \in {"embed", "upsert"} THEN carried[r] ELSE 0]

Collection == INSTANCE SourceIndex WITH
                  MaxChunks <- MaxChunks, Writer <- Run, index <- index, due <- Due

Pipeline == {"fetch", "clean", "validate", "analyze", "chunk", "embed", "upsert"}
Stage == Pipeline \cup {"none", "finally"}

\* Raised before the vector store is called ...
EarlyError == {"SourcePageUnreachable", "SourcePageGarbage", "LLMUnavailable",
               "ConfigurationError", "TypeError", "EmbedderUnavailable",
               "EmbedderError", "RuntimeError"}
\* ... by the call, by the lock, and while the service is being built.
Outcome == EarlyError \cup
    {"running", "ok", "skipped", "VectorStoreUnavailable", "KeyboardInterrupt",
     "FileNotFoundError", "OSError", "bootstrap_failed"}

IngestionTypeOK ==
    /\ config \in Backends
    /\ stage \in [Run -> Stage]
    /\ carried \in [Run -> Nat]
    /\ outcome \in [Run -> Outcome]
    /\ index \in [Collection!Ordinal -> Collection!Held]
    /\ late \in [Run -> BOOLEAN]
    /\ wrote \in [Run -> BOOLEAN]

Init ==
    /\ LockInit
    /\ config \in Backends
    /\ stage = [r \in Run |-> "none"]
    /\ carried = [r \in Run |-> 0]
    /\ outcome = [r \in Run |-> "skipped"]
    /\ index = [o \in Collection!Ordinal |-> "absent"]
    /\ late = [r \in Run |-> FALSE]
    /\ wrote = [r \in Run |-> FALSE]

(***************************************************************************)
(* Moves inside run(). They are steps of the process, not of the lock.     *)
(***************************************************************************)
At(r, s) == stage[r] = s /\ UNCHANGED <<lockVars, config>>

Proceed(r, s) == stage' = [stage EXCEPT ![r] = s] /\ UNCHANGED outcome

Raise(r, e) ==
    /\ stage' = [stage EXCEPT ![r] = "finally"]
    /\ outcome' = [outcome EXCEPT ![r] = e]
    /\ UNCHANGED <<carried, storeVars>>

Carry(r, n) == carried' = [carried EXCEPT ![r] = n]

Outside(r, e) ==
    /\ outcome' = [outcome EXCEPT ![r] = e]
    /\ UNCHANGED <<config, stage, carried, storeVars>>

(***************************************************************************)
(* Seeded faults: variants of the definitions below, each with a mistake a *)
(* change to the code could make. No action uses them.                     *)
(***************************************************************************)
\* Garbage is worth another download.
CleanRefetches(r) ==
    /\ At(r, "clean")
    /\ \/ \E n \in MinText..MaxText :
            Proceed(r, "validate") /\ Carry(r, n) /\ UNCHANGED storeVars
       \/ Proceed(r, "fetch") /\ UNCHANGED <<carried, storeVars>>

\* The chunks are stored before they have vectors, to be updated later.
EmbedStoresFirst(r) ==
    /\ At(r, "embed")
    /\ index' = Collection!AfterUpsert(index, carried[r])
    /\ wrote' = [wrote EXCEPT ![r] = carried[r] > 0]
    /\ UNCHANGED <<carried, late>>
    /\ \/ Proceed(r, "upsert")
       \/ /\ stage' = [stage EXCEPT ![r] = "finally"]
          /\ outcome' = [outcome EXCEPT ![r] = "EmbedderUnavailable"]

\* Ordinals are numbered from one.
ReachesFromOne(r) ==
    /\ index' = [o \in 1..MaxChunks |-> IF o <= carried[r] THEN "current" ELSE "absent"]
    /\ wrote' = [wrote EXCEPT ![r] = carried[r] > 0]

\* The payload is split into batches, and a failure stops between two of them.
ReachesInBatches(r) ==
    /\ \E n \in 0..carried[r] : index' = Collection!AfterUpsert(index, n)
    /\ wrote' = [wrote EXCEPT ![r] = carried[r] > 0]

\* collection.add in place of upsert: ids that exist keep their old chunk.
ReachesByAdd(r) ==
    /\ index' = [o \in DOMAIN index |->
                    CASE index[o] = "absent" /\ o < carried[r] -> "current"
                      [] index[o] = "current" /\ carried[r] > 0 -> "stale"
                      [] OTHER -> index[o]]
    /\ wrote' = [wrote EXCEPT ![r] = carried[r] > 0]

\* release only after a run that went well.
FinishReleasesOnSuccess(r) ==
    /\ stage[r] = "finally"
    /\ IF outcome[r] = "ok"
       THEN Release(r)
       ELSE /\ phase' = [phase EXCEPT ![r] = "released"]
            /\ UNCHANGED <<rid, fileVars, stay, raced, overstayed>>
    /\ stage' = [stage EXCEPT ![r] = "none"]
    /\ UNCHANGED <<config, carried, outcome, storeVars>>

(***************************************************************************)
(* main(): parse, build the service, call run().                           *)
(***************************************************************************)
\* A slot holds a process and its request: it is reused when both are done with.
Begin(r, id) ==
    /\ config.embedder # "fake"
    /\ ~late[r]
    /\ Launch(r, id)
    /\ outcome' = [outcome EXCEPT ![r] = "running"]
    /\ wrote' = [wrote EXCEPT ![r] = FALSE]
    /\ Carry(r, 0)
    /\ UNCHANGED <<config, stage, index, late>>

\* build_service raises (the fake embedder has no factory outside the tests):
\* exit code 2, the lock is never looked at.
BootstrapFails(r) ==
    /\ config.embedder = "fake"
    /\ phase[r] \in Terminal
    /\ Outside(r, "bootstrap_failed")
    /\ UNCHANGED lockVars

(***************************************************************************)
(* try_acquire, called before run()'s try block.                           *)
(***************************************************************************)
AcquireLooks(r) == LookForFile(r) /\ UNCHANGED pipelineVars

AcquireDecides(r) ==
    /\ StatFile(r)
    /\ Outside(r, CASE phase'[r] = "skipped" -> "skipped"
                    [] phase'[r] = "raised" -> "FileNotFoundError"
                    [] OTHER -> "running")

AcquireTakes(r) == TakeLock(r) /\ UNCHANGED pipelineVars

AcquireRaises(r) ==
    /\ TakeLockFails(r) \/ (phase[r] \in {"exists", "stat"} /\ LeaveEarly(r))
    /\ Outside(r, "OSError")

\* `if not acquired` has not returned: on to the try block and its first stage.
EnterPipeline(r) ==
    /\ EnterTry(r)
    /\ Proceed(r, "fetch")
    /\ UNCHANGED <<config, carried, storeVars>>

(***************************************************************************)
(* The pipeline.                                                           *)
(***************************************************************************)
\* RequestsPageScraper.fetch: one GET; timeout, connection error, status 400
\* and above and an empty body all raise the same error.
Fetch(r) ==
    /\ At(r, "fetch")
    /\ \/ Proceed(r, "clean") /\ UNCHANGED <<carried, storeVars>>
       \/ Raise(r, "SourcePageUnreachable")

\* BoilerplatePageCleaner.clean: the text it extracts may be too short.
Clean(r) ==
    /\ At(r, "clean")
    /\ \/ \E n \in MinText..MaxText :
            Proceed(r, "validate") /\ Carry(r, n) /\ UNCHANGED storeVars
       \/ MinText > 0 /\ Raise(r, "SourcePageGarbage")

\* PreEmbedValidator.validate repeats the cleaner's test on the same text.
Validate(r) ==
    /\ At(r, "validate")
    /\ IF carried[r] < MinText
       THEN Raise(r, "SourcePageGarbage")
       ELSE /\ Proceed(r, IF config.analyzer = "openai" THEN "analyze" ELSE "chunk")
            /\ UNCHANGED <<carried, storeVars>>

\* OpenAIPageAnalyzer.analyze: LLMUnavailable after the retries; what is not
\* in its except clauses (a reply without content) passes through.
Analyze(r) ==
    /\ At(r, "analyze")
    /\ \/ Proceed(r, "chunk") /\ UNCHANGED <<carried, storeVars>>
       \/ \E e \in {"LLMUnavailable", "TypeError"} : Raise(r, e)

\* run() passes structure= to every chunker. FixedSizeChunker.chunk has no such
\* parameter. HybridChunker wants a structure, for the same URL string: pydantic
\* may have normalised the one in the structure.
Chunk(r) ==
    /\ At(r, "chunk")
    /\ \/ /\ config.chunker = "fixed_size"
          /\ Raise(r, "TypeError")
       \/ /\ config.chunker = "hybrid"
          /\ Raise(r, "ConfigurationError")
       \/ /\ config.chunker = "hybrid"
          /\ config.analyzer = "openai"
          /\ \E n \in 0..MaxChunks : Carry(r, n)
          /\ Proceed(r, "embed")
          /\ UNCHANGED storeVars

\* Embedder.embed of n texts: nothing is sent, or loaded, for none. A provider
\* may reply with another number of vectors.
OpenAIEmbeds(n) ==
    {"vectors"} \cup (IF n = 0 THEN {} ELSE {"miscount", "EmbedderUnavailable"})

\* The local model raises whatever its library raises.
LocalEmbeds(n) ==
    {"vectors"} \cup (IF n = 0 THEN {} ELSE {"miscount", "EmbedderError"})

\* Stage 6, and the count check of stage 7.
Embed(r) ==
    /\ At(r, "embed")
    /\ \E e \in IF config.embedder = "openai" THEN OpenAIEmbeds(carried[r])
                                            ELSE LocalEmbeds(carried[r]) :
        CASE e = "vectors" -> Proceed(r, "upsert") /\ UNCHANGED <<carried, storeVars>>
          [] e = "miscount" -> Raise(r, "RuntimeError")
          [] OTHER -> Raise(r, e)

ReachesCollection(r) ==
    /\ index' = Collection!AfterUpsert(index, carried[r])
    /\ wrote' = [wrote EXCEPT ![r] = carried[r] > 0]

\* What may have become of the upsert when the process stops waiting for it: it
\* never reaches the collection, it has, or it is on its way and still may.
StopsWaiting(r) ==
    \/ UNCHANGED storeVars
    \/ stage[r] = "upsert" /\ ReachesCollection(r) /\ UNCHANGED late
    \/ /\ stage[r] = "upsert" /\ carried[r] > 0
       /\ late' = [late EXCEPT ![r] = TRUE]
       /\ wrote' = [wrote EXCEPT ![r] = TRUE]
       /\ UNCHANGED index

\* ChromaVectorStore.upsert: one call to the collection, tried once. When it fails
\* the adapter cannot tell what became of it. An empty batch is refused by Chroma,
\* or changes nothing.
Upsert(r) ==
    /\ At(r, "upsert")
    /\ stage' = [stage EXCEPT ![r] = "finally"]
    /\ UNCHANGED carried
    /\ \/ /\ ReachesCollection(r) /\ UNCHANGED late
          /\ outcome' = [outcome EXCEPT ![r] = "ok"]
       \/ /\ StopsWaiting(r)
          /\ outcome' = [outcome EXCEPT ![r] = "VectorStoreUnavailable"]

\* Chroma applies an upsert that nobody waits for any more. The process may have
\* released its lock by then, or be gone.
ArrivesLate(r) ==
    /\ late[r]
    /\ index' = Collection!AfterUpsert(index, carried[r])
    /\ late' = [late EXCEPT ![r] = FALSE]
    /\ UNCHANGED <<lockVars, config, stage, carried, outcome, wrote>>

\* finally: release, whose own failure is logged and swallowed.
Finish(r) ==
    /\ stage[r] = "finally"
    /\ Release(r) \/ ReleaseFails(r)
    /\ stage' = [stage EXCEPT ![r] = "none"]
    /\ UNCHANGED <<config, carried, outcome, storeVars>>

(***************************************************************************)
(* SIGINT raises KeyboardInterrupt at the current point (the upsert may    *)
(* already be on its way); any other death skips `finally`.                *)
(***************************************************************************)
\* write_text may be cut short, too.
InterruptOutside(r) ==
    /\ LeaveEarly(r) \/ TakeLockFails(r)
    /\ Outside(r, "KeyboardInterrupt")

\* In `finally` it is not an Exception: it ends the run, before or after the unlink.
InterruptRelease(r) ==
    /\ stage[r] = "finally"
    /\ Release(r) \/ ReleaseFails(r)
    /\ stage' = [stage EXCEPT ![r] = "none"]
    /\ outcome' = [outcome EXCEPT ![r] = "KeyboardInterrupt"]
    /\ UNCHANGED <<config, carried, storeVars>>

InterruptInside(r) ==
    /\ stage[r] \in Pipeline
    /\ UNCHANGED <<lockVars, config, carried>>
    /\ stage' = [stage EXCEPT ![r] = "finally"]
    /\ outcome' = [outcome EXCEPT ![r] = "KeyboardInterrupt"]
    /\ StopsWaiting(r)

Die(r) ==
    /\ Crash(r)
    /\ stage' = [stage EXCEPT ![r] = "none"]
    /\ UNCHANGED <<config, carried, outcome>>
    /\ StopsWaiting(r)

TimePasses == Tick /\ UNCHANGED pipelineVars

\* Everything that is local or has a time limit of its own. The Chroma client is
\* given none.
TimedStep(r) ==
    \/ AcquireLooks(r) \/ AcquireDecides(r) \/ AcquireTakes(r) \/ AcquireRaises(r)
    \/ EnterPipeline(r)
    \/ Fetch(r) \/ Clean(r) \/ Validate(r) \/ Analyze(r) \/ Chunk(r) \/ Embed(r)
    \/ Finish(r)

Step(r) == TimedStep(r) \/ Upsert(r)

Next ==
    \/ TimePasses
    \/ \E r \in Run :
        \/ \E id \in RequestId : Begin(r, id)
        \/ BootstrapFails(r)
        \/ Step(r)
        \/ InterruptOutside(r)
        \/ InterruptInside(r)
        \/ InterruptRelease(r)
        \/ Die(r)
        \/ ArrivesLate(r)

Spec == Init /\ [][Next]_vars

FairSpec == Spec /\ WF_vars(TimePasses) /\ \A r \in Run : WF_vars(TimedStep(r))

(***************************************************************************)
(* What main() makes of it.                                                *)
(***************************************************************************)
ExitCode(r) ==
    CASE outcome[r] \in {"ok", "skipped"} -> 0
      [] outcome[r] = "bootstrap_failed" -> 2
      [] outcome[r] = "KeyboardInterrupt" -> 130
      [] OTHER -> 1

(***************************************************************************)
(* Properties.                                                             *)
(***************************************************************************)
\* What a process tells the Job controller is true of the collection, whatever
\* other processes did meanwhile: exit code 0 means that every chunk the process
\* counted is there and nothing of it is still to come, or that it was skipped and
\* wrote nothing; after an error of the bootstrap or of a stage before the upsert
\* it wrote nothing either, and never will.
ReportIsTruthful ==
    \A r \in Run :
        /\ ExitCode(r) = 0 =>
               IF outcome[r] = "skipped"
               THEN ~wrote[r]
               ELSE /\ \A o \in Collection!Ordinal : o < carried[r] => index[o] # "absent"
                    /\ ~late[r]
        /\ ExitCode(r) = 2 \/ outcome[r] \in EarlyError => ~wrote[r]

\* The index has no hole and never mixes two versions other than as a current
\* prefix before an older tail, in whatever order the upserts of several processes
\* reach the collection, those included that nobody waited for.
IndexLayered == Collection!Layered

\* Each version of the page is stored whole and once, or not at all: no upsert is
\* torn, repeated or made of other chunks than the chunker made, by an error, a
\* lost or late call, an interrupt or a crash, and nothing else is ever stored.
ImplementsIndex == Collection!IndexSpec

\* The pipeline respects the lock protocol: seen from the lock directory a run
\* is one stay inside, ended by release, by a failed release or by death.
ImplementsLock == LockSpec

\* r hands its chunks to Chroma, which stores them now or later; unless two
\* processes raced or one outlived the TTL, the lock file under its id is its own
\* at that moment, and no other process with that id is past try_acquire.
SendsUnderLock(r) ==
    /\ stage[r] = "upsert" /\ ~wrote[r] /\ wrote'[r]
    /\ Sane => /\ rid[r] \in lockFiles /\ writer[rid[r]] = r
               /\ \A q \in Run \ {r} : Inside(q) => ~SameId(q, r)

\* Nobody sends without the lock, or twice: what changes the collection is the
\* first upsert of a process in its pipeline, or a late one, and the late one was
\* sent under the lock. (That it also arrives under it is not true.)
WritesAreSentLocked ==
    [][/\ index' # index => \E r \in Run : SendsUnderLock(r) \/ (late[r] /\ ~late'[r])
       /\ \A r \in Run : late'[r] /\ ~late[r] => SendsUnderLock(r)]_vars

\* Why every launch ends: a process only goes forward through the lock and the
\* stages, and with each step of its own it does. Whatever is raised, by whom and
\* wherever, leads to `finally` or out, and nothing is done again.
Left == [exists |-> 12, stat |-> 11, write |-> 10, acquired |-> 9,
         fetch |-> 8, clean |-> 7, validate |-> 6, analyze |-> 5, chunk |-> 4,
         embed |-> 3, upsert |-> 2, finally |-> 1]

StagesLeft(r) ==
    IF phase[r] \in Terminal THEN 0 ELSE Left[IF phase[r] = "inside" THEN stage[r] ELSE phase[r]]

JobsAdvance ==
    [][\A r \in Run : StagesLeft(r) > 0 =>
           \/ StagesLeft(r)' < StagesLeft(r)
           \/ StagesLeft(r)' = StagesLeft(r) /\ ~Step(r)]_vars

\* No launch hangs but in the upsert, for as long as Chroma does not reply: every
\* process that starts comes to an end (what may stay behind: NoLeftovers).
EveryLaunchEnds ==
    \A r \in Run : []<>(phase[r] \in Terminal) \/ <>[](stage[r] = "upsert")

\* UC7, FR-003 scenario 2 and the VectorStore docstring: re-ingesting a changed
\* page clears its old chunks. run() never calls delete_by_source.
NoStaleChunks == \A o \in Collection!Ordinal : index[o] # "stale"

=============================================================================
