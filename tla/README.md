# support-agent: TLA+ models and proofs

This directory models the two programs of the repository, the **ingestion Job**
(`support_bot.composition.ingestion_main`) and the **API**
(`support_bot.composition.api_app`), and an installation in which both run
around one Chroma collection, as TLA+ modules. TLC checks them on small
instances, and TLAPS proves their safety results for every instance.
Paths below are relative to `src/support_bot/` unless they start otherwise.

## 1. Inventory

### Ingestion Job (one process per run, started by Helm hooks, compose or hand)

| Part | State it keeps | Operations | Talks to |
|---|---|---|---|
| `application/ingestion/ingestion_lock.py` | one file `<lock_dir>/<request_id>.lock`; its mtime is the time of acquisition | `try_acquire`, `release`, `is_held` | the lock directory, shared by processes |
| `application/ingestion/ingestion_service.py` | the local variables of `run()` | `run`: lock, fetch, clean, validate, analyze, chunk, embed, upsert, `finally` release | every port below, synchronously |
| `composition/ingestion_main.py` | none | parse, select backends, build, run, exit code 0 / 1 / 2 / 130 | the service |
| `adapters/http_source.py`, `cleaner.py`, `pre_embed_validator.py` | none | `fetch`, `clean`, `validate` | the web page |
| `adapters/llm_page_analyzer.py` | cached client | `analyze`: windows of `max_input_chars`, up to `max_retries` calls each | the chat provider |
| `adapters/hybrid_chunker.py`, `chunker.py` | none | `chunk` | |
| `adapters/embedding_openai.py`, `embedding_local.py` | cached client or model | `embed` | the embedding provider |
| `adapters/vectorstore_chroma.py` | cached client and collection handle | `upsert`, `query`, `delete_by_source`, `count` | Chroma |

### API (one event loop, many requests)

| Part | State it keeps | Operations | Talks to |
|---|---|---|---|
| `composition/api_app.py`, `application/api/*` | none per process; one task per request | `POST /ask`, `GET /healthz`, `GET /metrics`, two middlewares, the exception handler | the answering service |
| `application/answering/answering_service.py`, `graph.py` | `AgentState` per request; the graph is compiled for each | retrieve, guard, generate or refuse | retriever, policy, generator |
| `adapters/lexical_rerank_retriever.py`, `ChromaRetriever` | the cached collection handle of the store | `retrieve` | embedder, Chroma |
| `adapters/low_confidence_policy.py` | none | `should_refuse` | |
| `adapters/answerer_openai.py` | cached client | `generate` | the chat provider |

### Installation

| Part | State it keeps | Operations | Talks to |
|---|---|---|---|
| the collection `support_bot` in Chroma | its id and chunks | create, upsert, get, delete, query, count, drop | every process, through its own adapter |
| what a process read when it started (`production_factory.py`, `settings.py`) | `OPENAI_API_KEY`, models and sizes, the clients and the handle cached with them | start, end | |
| the operator (`README.md`, `infra/README.md`, the chart) | the Secret, the settings, the keys that are valid | rotate and revoke a key, edit settings, delete the collection, restart pods | all of them |

The programs share the collection and nothing else; the environment of each is
fixed when it starts.

### What is hard, and what makes it correct

*Lock.* Three file-system calls without atomicity, a TTL instead of an owner,
an unlink that does not look at who wrote the file, processes that die before
`finally`. Correct: exclusion per request id up to the cases the scheme gives
up, nobody's lock stolen, no lock left behind by a run that ended, no id wedged
forever.

*Job.* Any stage may raise, any process may die or be interrupted anywhere,
an upsert may be applied although its reply is lost, or long after the Job gave
up on it, two Jobs may run at once under different ids. Correct: the exit code is
true of the collection, each version of the page is stored whole and once or not
at all, nothing is sent without the lock, the lock protocol is kept, every launch
ends unless Chroma leaves it waiting.

*Page to chunks.* Three loops with boundaries. Correct: windows tile the page,
retries are bounded per window, no sentence is lost, doubled or reordered,
chunks fit and are not split needlessly, the loops end.

*API.* Synchronous work on the event loop, a handle cached over restarts of
Chroma, scores replaced between retrieval, guard and report, exceptions that
change type and pass around the middlewares. Correct: confidence agrees with
the similarity reported, the context is the best of what was found, failures
end with their cause, no request starves.

*Installation.* Clients and handles cached for the life of a process, while the
collection, the key and the settings change under it; `delete_by_source`, which
is a read and a write; old Jobs that are still under way when the settings have
changed. Correct: what the documents prescribe (restart, delete and ingest
again) cures what it is meant to cure, and no interleaving leaves part of a page.

`PROJECT.json` lists each hazard at its line with the properties that watch it.

## 2. Modules

```
IngestionLock  <--extends--  Ingestion  --refines-->  SourceIndex
                                                     (and IngestionLock)
Retrieval      <--extends--  Answering  --refines-->  AskContract

PageAnalyzer   <--extends--  PageChunking

ChromaVectorStore  <--instance--  Deployment

MCIngestionLock, MCIngestion, MCAnswering, MCPageChunking: values for TLC
IngestionLock_proofs, Ingestion_proofs, Retrieval_proofs, Answering_proofs,
PageChunking_proofs, Deployment_proofs: theorems
```

**IngestionLock**: `FileLockIngestionRunLock` between processes. `phase[r]` is
where process `r` is: before `exists()`, before `stat()`, before `write_text()`,
with the file written but not yet in the `try` of `run()` (`acquired`), inside
that `try`, or ended in one of several ways. `lockFiles` and `age`
are the directory; the age saturates at `Ttl`, since the code only compares it
with `ttl_seconds`, so time needs no bound. `writer`, `stay`, `raced` and
`overstayed` are history that no action reads. `LookForFile`, `StatFile` and
`TakeLock` are the three calls of `try_acquire`, `EnterTry` the way from its return
to the `try` whose `finally` releases; `TakeLockFails`, `LeaveEarly`, `ReleaseFails`
and `Crash` are the failures; `Tick` passes time. An exception or SIGINT between
the write and the `try` ends in the phase `abandoned`, with the file kept.

**SourceIndex**: what the `VectorStore` port promises about the chunks of one
URL. Chunk ids are `sha1(url:ordinal)`, so the chunks are their ordinals, each
absent, current (of the last upsert) or stale (of an earlier one). A writer makes
a version (`Makes`), which `due` holds until it is stored whole by one step
(`Stores`) or never will be (`GivesUp`): a part of it, another length or a second
time is no step of this module. `Ingestion` instantiates it `WITH` its own `index`
and with `Due`, the chunks a process has and has not stored, and implements it.

**Ingestion**: the Job. Extends the lock; `stage[r]` walks through `run()`,
`outcome[r]` is what it returned or the exception in flight, `carried[r]` is
the datum handed from stage to stage (length of the text, then number of
chunks), `index` the collection. One action per stage, `Finish` for the
`finally` block, `InterruptOutside/Inside/Release` for SIGINT, `Die` for every
death that skips `finally`, `BootstrapFails` for exit code 2. `Backends` is the
set of settings a deployment may choose from. A process that stops waiting for its
upsert, because the call failed, SIGINT came or it died, does not know what became
of the call (`StopsWaiting`): it never arrives, it has arrived, or it is `late` and
Chroma applies it at any time from then on (`ArrivesLate`), or never does. That
Chroma applies one upsert as a whole is an assumption (the port demands it,
`domain/ingestion/ports.py:217`; Chroma is not in this repository); that the code
makes one call of a page, and not several, is modelled.

**PageAnalyzer, PageChunking**: `analyze` call by call, `_split_oversized`
sentence by sentence, `FixedSizeChunker.chunk` window by window. Text is its
length. Of a region there is what the chunker looks at: where each sentence ends
once `" ".join` has put one blank between two of them (`ends`), the length of the
region as it stands, where there may be more blanks (`chars`), and what `strip()`
takes off a joined piece that reaches its first or its last sentence (`lead`,
`trail`). A last sentence without text is what `re.split` leaves behind blanks at
the end. `RegionAssumption` says just that.

**Retrieval**: pure operators for fetch size, query result, re-ranking, policy
and report. Similarities and overlaps are integers up to `Full`; a retrieved
similarity counts half units, so that the blend with `alpha = 0.5` is exact.
The sort is given by each candidate's place (better score first, ties by
arrival, as Python's stable sort does).

**Answering**: the event loop as a FIFO `ready` of requests that can go on,
each of which takes its turn three times (into the middlewares, into the route,
out again). An `answer()` that started holds the loop (`running`) until it
returns; between its calls (`step`) only Chroma and the arrival of requests
move. `handle` is the cached collection handle; it is `stale` when Chroma came
back without its data (`durable = FALSE`). That the loop serves first come, first
served, is asyncio's doing and taken from there; the properties are about what the
routes, the workflow and the adapters do with it.

**AskContract**: what a client of the API is promised: every request it has open
gets exactly one verdict, of those its route allows, and is told that one,
whatever happens to other requests meanwhile. `Answering` implements it: a
request is `asked` from `Receive` to `Leave`, its verdict is decided when its
route returns or raises, and told on the way out through the middlewares.

**ChromaVectorStore**: the adapter and the collection, call by call.
`_ensure_collection` (`Ensure`) makes a collection if there is none and keeps
the handle; `Reaches` is whether a call with that handle finds it; then
`UpsertChunks`, `Read` (query and count), and the two calls of
`delete_by_source`, `GetIds` and `DeleteIds`. `DropCollection` is what the
operator does, `Forget` the end of a process. An id is never given twice.

**Deployment**: pods, Jobs, processes that call `delete_by_source` and `count`
("sweepers": no production code calls them, the adapter's tests do), and the
operator. `key` and `made_with` are what each process read when it started;
`trouble` says which of the pod's own things (key, handle, settings) spoilt its
last question. The pipelines are reduced to their calls to Chroma and the
provider; what is between the calls is in `Ingestion` and `Answering`. `fresh`
and `clean` are history. Upserts that arrive late need no action of their own here:
the call names the id of the collection its Job had opened, so that one that
arrives after the Job ended does to the collection what it would have done had the
Job still been waiting for it, and nothing once that collection is gone.

Modules contain *seeded faults*: variants of a definition, each with a mistake
that a change to the code could make. No action uses them. Substituting one
for the definition makes TLC find the property named beside it in
`PROJECT.json` violated, which shows that the property depends on that code.

## 3. Runs

| cfg | instance | checks | states |
|---|---|---|---|
| `lock` | 2 slots, 2 ids, TTL 2 | `LockTypeOK SafetyBelt HoldsOwnLock NoLeftovers NeverWedged` | 92 k |
| `ingestion_safety` | 2 slots, 1 id, TTL 1, 0..2 chunks, four backend settings | `IngestionTypeOK ReportIsTruthful IndexLayered ImplementsIndex ImplementsLock WritesAreSentLocked JobsAdvance` | 670 k |
| `ingestion_liveness` | the same, 0..1 chunks, shipped backends | `EveryLaunchEnds` | 315 k |
| `answering` | 2 requests, 2 of up to 3 candidates, scores 0 and 0.5 | `AnsweringTypeOK ConfidenceMatchesReport ContextIsBest NobodyOvertaken ImplementsContract HealsWithChroma EveryRequestAnswered` | 56 k |
| `page_chunking` | pages of 0..4 characters in windows of 2, 3 attempts, regions of 1..3 sentences of 1 or 5 characters with a cap of 4, windows of 3 with overlap 1 | `ChunkingTypeOK WholePageAnalyzed GivesUpAfterMaxRetries NothingLost ChunksFit ChunksAreFull WindowsCover WorkRunsOut PageIsDone` | 64 k |
| `deployment` | a pod, a Job, a sweeper, 2 chunks, 3 collections, 2 keys, 2 versions of the settings | `DeploymentTypeOK RestartCures ResetRebuilds PageHasNoHoles StaleStaysStale` | 1.45 M |

Six more runs show where the code does something else than a document or a
comment of the repository says. TLC finds a counterexample to each.

| cfg | property | what happens |
|---|---|---|
| `lock_overlap` | `OneRunAtATime` | runs under different request ids do not exclude each other (FR-012, `docs/c4/4-deep-dive-ingestion.md:66`) |
| `lock_takeover` | `FreshHolderIsAlone` | a run that outlived the TTL unlinks its successor's lock and a third run joins that one |
| `stale_chunks` | `NoStaleChunks` | a page that shrank keeps the tail of its old version: `run()` never calls `delete_by_source` |
| `healthz_blocked` | `HealthNeedsNoChroma` | `/healthz` waits for an `/ask` that waits for a Chroma that hangs (FR-002) |
| `unobserved_errors` | `EveryResponseCounted` | responses made from exceptions are neither counted nor given their `X-Request-Id` |
| `key_rotation` | `RotationNeedsNoRestart` | a pod goes on with the key it started with (`infra/README.md` says that no restart is required; the `README.md` of the repository, under "Secrets rotation", restarts) |

Where a document disagrees with what a passing run shows, no run of its own is
needed. Each of these is listed under "findings", with the run and the property:

| property | what the code does | who says otherwise |
|---|---|---|
| `NoLeftovers` (`lock`) | SIGINT between the write of the lock file and the `try` of `run()` leaves the file: exit code 130, phase `abandoned` | `docs/c4/4-deep-dive-ingestion.md:167`, `docs/architecture/architecture.md:548`: "always released in `finally`" |
| `WritesAreSentLocked` (`ingestion_safety`) | upserts are sent under the lock, but one that its Job gave up on may arrive when the lock is free or another's | `ingestion_lock.py:5`: "to prevent concurrent ingestion runs from racing on the vector store" |
| `ImplementsIndex` (`ingestion_safety`) | a page is stored by one call, which is made once | the deep dive, line 150 (batches of at most 400 chunks) and line 151 and `docs/architecture/local-flow.md:126` (retries after `Retry-After` inside the adapter) |
| `ImplementsContract` (`answering`) | an empty question is a 422 | `README.md:586` of the repository: 200 and "Ik weet het niet." |
| `ImplementsContract` (`answering`) | a failure of the embedder is a 503, because the re-ranker wraps it | `error_mapper.py:14`: 502 |
| `GivesUpAfterMaxRetries` (`page_chunking`) | an invalid reply to the stricter prompt is followed by a third call | `llm_page_analyzer.py:14`, `domain/ingestion/ports.py:152`, the deep dive, line 159: one retry, then `LLMUnavailable` |

What the runs show together. *Exclusion*: two Jobs under one request id exclude
each other unless one outlives the TTL or both look for the file before either
writes it. *Lock files*: whatever happens, a file that stays behind is that of a
process that died, could not unlink it, could only half write it, or was interrupted
just after writing it; the TTL deals with all four. *Truth of the exit code*:
whatever fails in whatever order, a Job that reports success has put all its chunks
into the collection, and one that was skipped or failed before its upsert has put
none and never will. *Writes*: whoever sends chunks to the collection does it once,
and holds its own lock at that moment, with the same two exceptions. An upsert that
nobody waits for may be applied after that, but whole, once and only
as one of its versions (`ImplementsIndex`). *Progress*: each step of a Job, of the event loop and of the chunkers
brings something nearer to its end (`JobsAdvance`, `NobodyOvertaken`,
`WorkRunsOut`), which is why the liveness properties hold. *Isolation of requests*: no client is
told another's verdict. *Recovery*: the API answers again when Chroma is back
with its data; without the data, or after a reset, it needs the restart that
`RestartCures` shows to be enough. *Resets*: after the collection was deleted, no
Job that had opened the old one can write to the new one, since the handle names
an id, and stays useless until its process ends (`StaleStaysStale`); a Job from before the edit that had not opened it yet still can, which is
why `ResetRebuilds` asks that none is left.

### Seen while modelling, without a run

- The `fixed_size` chunker is selectable (`ingestion_main.py:189`), but `run()`
  passes `structure=` to it (`ingestion_service.py:437`), which its `chunk` does not
  take: `TypeError`. In `Ingestion` this is one of the settings; it ends with
  exit code 1.
- `--collection-name` is parsed and not used. The CLI's embedder defaults to
  `local`, `Settings`' to `openai`.
- `set_retrieval_top1` and `observe_adapter` are called by no production code, so
  their metrics stay empty.
- `init_tracing` says that later calls replace the global provider;
  OpenTelemetry lets it be set once.
- After the reset that the `README.md` of the repository documents for
  re-ingestion, a running API pod keeps a handle to the deleted collection and
  answers 503 until it is restarted; the section does not say so.

### Bounds, and why they are enough

*Lock.* Slots are reused, so two of them already give unboundedly many
processes, two at a time: enough for every race between an old and a new
holder, and for a third process after either ended. Two ids show that ids do not
interact. TTL 2 lets a file be seen fresh, half-way and stale. The safety
properties are proved for all values besides.

*Job.* One id, since the lock run shows that ids do not interact and processes
under different ids differ from processes under one id only in that nobody is
skipped. Two chunks tell whole upserts from torn ones and a shorter version
from a longer one. A slot is a process together with its request: `Begin` uses it
again when the process has ended and its upsert is not under way any more, so two
slots give a late upsert beside a new Job. A late upsert that never arrives keeps its
slot for good; nothing is missed by that, because a request that is lost does what
`StopsWaiting` allows without one, and the slot is then free. `MinText = MaxText = 1` leaves one text that is long enough;
`Clean` raises for the shorter ones. Slots are interchangeable, which is the
symmetry used in `ingestion_safety`; the liveness run uses none. The safety
properties are proved for all values besides.

*Answering.* Two requests give every overlap of a probe with an `/ask` and of
two `/ask`s; slots are reused. Three candidates for two places exercise both ways
of the re-ranker and a candidate left behind. Scores 0 and 0.5 meet the
threshold exactly with and without the blend.

*Installation.* One process of each kind, whose slot is reused: any number after
another, and each interleaved with the others at every call. Three collections
allow a reset of a collection that was rebuilt. Two keys and two versions tell
old from new. More processes of a kind meet only through the collection; the
proofs cover them. The operator's counters are bounded in the guards of
`RotateKey`, `EditSettings` and `Ensure`; the theorems do not depend on the bounds.

*Page.* Two windows at most, so that a retry count could leak from one to the
next (the mutant of `GivesUpAfterMaxRetries` does just that), and an empty page, pages of exactly one and two windows, and those between.
Sentences of 1 and 5 with a cap of 4: two fit, three do not, one is too long by
itself. Some regions begin or end with blanks, some are too long only because of a
wide gap. The safety properties are proved for all values besides.

Deadlock is checked everywhere except in `page_chunking`, which models code
that returns.

### Fairness, and why the code justifies it

- `IngestionLock.LockFairSpec`: weak fairness of time and of each live
  process's own steps. A process is straight-line code whose file-system calls
  return. There is none for `Launch`, `Crash` or `LeaveEarly`.
- `Ingestion.FairSpec`: the same for the steps that are local or have a time
  limit (`requests` is given one, the OpenAI SDK has one). The upsert is owed
  nothing: the Chroma client is built without a timeout, so `EveryLaunchEnds`
  allows a Job to wait in it for as long as Chroma does not reply.
- `Answering.FairSpec`: the loop never rests while something in it can go on.
  Chroma is owed nothing, and a call to a Chroma that hangs is no step of the
  loop. `EveryRequestAnswered` and `HealsWithChroma` therefore say what they
  need of Chroma; `HealsWithChroma` also assumes that Chroma keeps its data
  (`persistence.enabled` in every values file of the chart).
- `Deployment.FairSpec`: pods are asked again and again and work on what they are
  asked. Nobody owes a Job, a restart or a step of the operator. It serves to
  show that `RotationNeedsNoRestart` fails although pods are busy.
- `PageChunking.FairSpec`: weak fairness of the only loop there is.

## 4. Proofs

`IngestionLock_proofs` (constants: any `Run`, `RequestId`, `Nobody`, with
`LockAssumption`: `Ttl` is positive and `Nobody` is no run):

- `LockTyping`, `SafetyBeltHolds`, `OwnLockHeld`, `NothingLeftBehind`. The last is
  inductive, but for where an author can be (`Accounted`): only `Release` and
  `Launch` take a process out of there, and both make its file somebody else's or
  nobody's. It needs no `Sane`. It names the interrupt between the write and the
  `try` among the ways a file stays.
- `SafetyBelt` is not inductive. It only says that two processes are not
  past `try_acquire`, and not why the second one was refused. `LockInv` adds the
  reason: while `Sane`, whoever is past it has a file of its own making whose age is the
  time since it entered, and nobody who already decided to write shares its id.
  A process that looks and decides to write found no file or a stale one; by the
  first part nobody was inside under that id; the second part carries this to
  the write, unless two were on their way at once, which is `raced`.

`Ingestion_proofs` (in addition `IngestionAssumption`: the bounds are naturals,
the settings are those `Settings` allows):

- `FollowsLockProtocol`: every step of the Job is a lock step or leaves the lock
  alone. So the lock's theorems carry over: `JobsExclude`, `JobHoldsOwnLock`.
- `IngestionTyping`, `ReportsAreTruthful`, `VersionsAreWhole` (refinement of
  `SourceIndex!IndexSpec`) and `IndexStaysLayered`, from `JobInv`. For the refinement
  each action is shown to change what its own process owes by making, storing or
  giving up its version, or not at all (`StageOwes`, `UpsertOwes`, `StopOwes`,
  `OutsideOwes`), and to leave what the others owe (`OthersOwe`).
- `ReportIsTruthful` speaks of processes that ended; `JobInv` says what is true
  on the way: a process is at a stage exactly while inside the lock, has no
  outcome and has written nothing before its upsert, carries at most `MaxChunks`
  chunks into it, and from "ok" on finds them all in the collection, because
  upserts never remove a chunk, late ones included; a process whose upsert is late
  did send it and did not report "ok".
- `WritesAreSentLockedHolds`: a step that changes the collection or leaves an upsert
  on its way is the upsert of a process, the end of its waiting for it, or a late
  arrival (`ChangeIsSent`); by `JobInv` the process that sends is inside and has not
  sent before; being inside, it has its own file and excludes its id, by the two
  theorems carried over from the lock. It says nothing of the moment of a late
  arrival, when the lock may be another's.
- `JobsAdvanceHolds`: `StagesLeft` numbers the places from launch to end. Each
  action is shown to lower it for its process and to leave the others where they
  are (`StageAdvances`, `LockStepAdvances`, `OthersStay`). `JobInv` is needed to know
  that a process at a stage is inside, so that its phase and stage agree.

`Retrieval_proofs` (`RetrievalAssumption`: the sizes are naturals, the scale is
positive):

- `RerankIsBest`: for any list of candidates and any scores, what the re-ranker
  returns is the best of what it got, in order. The argument: "scores better, or
  equal and earlier" is a strict total order, so the place of a candidate (one
  more than those before it) is a permutation, by counting; the places up to k
  are then the k best.

`Answering_proofs` (in addition `RequestAssumption`: `NoRequest` is no request):

- `AnsweringTyping`, `ConfidenceMatchesReportHolds`, `ContextIsBestHolds`,
  `ImplementsContractHolds`, from `AnsweringInv`; `NobodyOvertakenHolds`.
- `AgentInv` says what the `answer()` that holds the loop knows at each step:
  before the query it has nothing; at the guard its chunks are the re-ranking of
  a possible query result; where it refuses or generates, the guard said so. The
  guard looks at every similarity and the report at the first, so the chunks have
  to be sorted, which `RerankIsBest` gives. `ResultsInv` says that what a route
  returned is allowed for it until it is told.
- `NobodyOvertaken` needs that each open request is in the queue once, so that it has
  one place in it (`QueuedOnceHolds`, a lemma about the modelled queue), and goes by
  the kind of step: a step that takes the first request from the queue moves the
  others up by one and sends that one, at most, to the back with one pass less ahead of it; a
  step inside `answer()` lowers the calls left; arrivals join at the back, behind
  all who wait.

`PageChunking_proofs` (`AnalyzerAssumption`, `ChunkingAssumption`,
`RegionAssumption`: sizes are naturals, window and chunk size are positive, the
overlap is smaller than the window, regions are as described in section 2):

- `GivesUpHolds`, `WholePageHolds` from `AnalyzerInv`: the windows analyzed are
  the first ones, and the number of calls for the last is one less than the
  attempt at hand. That the windows end where the page ends is arithmetic of the
  rounding division (`WindowFacts`).
- `NothingLostHolds` from `HybridInv`: the chunks are laid up to a sentence
  (`Laid`: inside the regions, in order, with all text before that sentence in
  one of them), and that sentence is the first of `current`. Each way on
  preserves it: a piece is emitted from that sentence on (`LaidAppend`), what is
  skipped is blank (`LaidBlank`), past the end of a region is before the next
  (`LaidNext`). A region that is short enough is never begun.
- `WindowsCoverHolds` from `WindowsInv`: the last window ends where the next
  begins plus the overlap, or at the end of the text, which is exactly when the
  loop stops.
- `ChunksFitHolds` and `ChunksAreFullHolds` from `SizesInv`: every chunk so far has
  text and fits, no two neighbours would have fitted into one, what is in `current`
  fits or is one sentence, and the last chunk, if it is of the region at hand,
  was closed because it did not fit together with the sentence `current` begins
  with. A region emitted as it stands fits because joining only removes blanks
  (`RegionFacts`).
- `WorkRunsOutHolds`: of the windows to analyze, the attempts for this one, the
  regions or characters to split and the sentences of this one, the first that
  changes goes down, and none is ever negative (`WorkIsNat`). This order is
  well-founded, so no run of the loops is infinite. For the sliding window it is
  where `Overlap < ChunkSize` is needed.
- `ChunkingTyping`.

`Deployment_proofs` (`DeploymentAssumption`: processes are of one kind):

- `DeploymentTyping`, `PageHasNoHolesHolds`, `RestartCuresHolds`,
  `ResetRebuildsHolds`, `StaleStaysStaleHolds`. Every step is, for the collection, a call of the adapter,
  a drop or nothing (`EveryStepIsStoreStep`), so the parts about the collection
  need only these cases.
- `PageInv`: whoever got the ids of a page and was not overtaken by an upsert
  got all there are, or has a handle that does not reach them any more.
- `StaleInv`: no handle is newer than the newest collection, so that one that
  stopped working never works again; a fresh pod carries what a new one would
  read and a handle that works; while the collection is clean, a Job with older
  settings holds a handle that does not.

- `StaleStaysStale`: a process changes its handle only when it has none, when it
  ends or when it is restarted (`HandleSteps`), and one that has ended has none
  (`OffInv`). A collection made later has an id
  larger than any given before (`NewIdsAreNew`), and no handle is larger than
  those, so that it is not the one an old handle names.

Model-checked only: liveness (`NeverWedged`, `EveryLaunchEnds`,
`EveryRequestAnswered`, `HealsWithChroma`, `PageIsDone`), which is out of reach of
TLAPS under fairness. What most of it rests on is proved: for `EveryLaunchEnds`,
`EveryRequestAnswered` and `PageIsDone` the step that fairness forces lowers a
measure (`JobsAdvance`, `NobodyOvertaken`, `WorkRunsOut`). What is left to TLC is that
such a step is enabled, and the conclusion from the measure to the end.

## 5. Not modelled

- What text is: HTML, boilerplate, prompts, tokens, embeddings, hashing.
- `Bs4TextExtractor` (wired nowhere) and `is_held` (changes nothing, called by
  tests).
- Metrics internals, logging, scrubbing, tracing: output without control. Whether
  a response reaches the counters at all is in `Answering`.
- Charts, compose files and infrastructure themselves. What they do to the
  programs appears as actions of the operator and as assumptions: persistence of
  Chroma, the liveness probe, restarts of Jobs.
- Parsing of settings and the shape of response bodies.

## 6. What could follow

1. Several pages (`source_url`) in one collection. Today every upsert, delete and
   stale tail concerns one page, and a query filters by none, so that a second
   page would add data but no control.
2. The values of the metrics, once `set_retrieval_top1` and `observe_adapter` have
   callers.
