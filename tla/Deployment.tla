------------------------------ MODULE Deployment ------------------------------
(***************************************************************************)
(* The processes of one installation around the things they share: API     *)
(* pods that live long, ingestion Jobs that start afresh for every run,    *)
(* processes that call the rest of the adapter's operations (the port      *)
(* foresees delete_by_source for re-ingestion, and the adapter's tests     *)
(* call it; no production code does), and the operator, who rotates the    *)
(* OpenAI key, edits the settings the chunks are made with, and deletes    *)
(* the collection to have it rebuilt.                                      *)
(*                                                                         *)
(* What a process has read from its environment, and the collection it has *)
(* looked up, stay as they are until the process ends. The backends are    *)
(* the shipped ones (openai for embedder, analyzer and answers). What      *)
(* happens inside a call, or inside the pipeline between two of them, is   *)
(* in Answering and Ingestion; any call may also fail for reasons of its   *)
(* own.                                                                    *)
(***************************************************************************)
EXTENDS Naturals

CONSTANTS
    Pod,             \* API processes
    Job,             \* slots for ingestion processes
    Sweeper,         \* slots for processes that call delete_by_source or count
    MaxChunks,       \* bound on the number of chunks of one page
    MaxCollections,  \* bound on the number of collections ever made
    MaxKeys,         \* bound on the number of OpenAI keys ever issued
    MaxModels        \* bound on the number of versions of the settings

Process == Pod \cup Job \cup Sweeper

ASSUME DeploymentAssumption ==
    /\ Pod \cap Job = {} /\ Pod \cap Sweeper = {} /\ Job \cap Sweeper = {}
    /\ MaxChunks \in Nat

VARIABLES
    collection, made, index, handle, seen, overtaken, torn,  \* ChromaVectorStore
    secret,    \* OPENAI_API_KEY in the Secret or in .env
    accepted,  \* the keys the provider accepts
    model,     \* version of the settings that decide what chunks look like
    at,        \* where each process is
    key,       \* the key each process started with
    made_with, \* the version of the settings each process started with
    trouble,   \* what of the pod itself spoilt its last question
    fresh,     \* history: pods without anything stale since they started
    clean      \* history: deleted since the last edit, with no older Job to come

Store == INSTANCE ChromaVectorStore WITH Client <- Process

store == <<collection, made, index, handle, seen, overtaken, torn>>
settings == <<secret, accepted, model>>
environment == <<key, made_with>>
history == <<fresh, clean>>
vars == <<store, settings, at, environment, trouble, history>>

Stage == {"off", "idle", "analyze", "embed", "open", "query", "generate",
          "upsert", "get", "delete", "count", "done"}
Trouble == {"none", "key", "handle", "vectors"}

DeploymentTypeOK ==
    /\ Store!StoreTypeOK
    /\ secret \in Nat \ {0} /\ accepted \in SUBSET (Nat \ {0}) /\ model \in Nat \ {0}
    /\ at \in [Process -> Stage]
    /\ key \in [Process -> Nat]
    /\ made_with \in [Process -> Nat]
    /\ trouble \in [Pod -> Trouble]
    /\ fresh \in SUBSET Pod
    /\ clean \in BOOLEAN

Init ==
    /\ Store!StoreInit
    /\ secret = 1 /\ accepted = {1} /\ model = 1
    /\ at = [c \in Process |-> IF c \in Pod THEN "idle" ELSE "off"]
    /\ key = [c \in Process |-> IF c \in Pod THEN 1 ELSE 0]
    /\ made_with = [c \in Process |-> IF c \in Pod THEN 1 ELSE 0]
    /\ trouble = [p \in Pod |-> "none"]
    /\ fresh = Pod
    /\ clean = TRUE

(***************************************************************************)
(* Seeded faults: variants of the definitions below, each with a mistake a *)
(* change to the code could make. No action uses them.                     *)
(***************************************************************************)
\* The key is part of the image.
StartsWithOldKey(c) ==
    /\ UNCHANGED key
    /\ made_with' = [made_with EXCEPT ![c] = model]
    /\ Store!Forget(c)

(***************************************************************************)
(* Steps of a process.                                                     *)
(***************************************************************************)
Moves(c, from, to) == at[c] = from /\ at' = [at EXCEPT ![c] = to]

Still == UNCHANGED <<settings, environment, history>>

\* os.environ is what the container was started with, and is read once.
Starts(c) ==
    /\ key' = [key EXCEPT ![c] = secret]
    /\ made_with' = [made_with EXCEPT ![c] = model]
    /\ Store!Forget(c)

\* The end of a process, wherever it is: done, failed, killed or interrupted.
Ends(c) ==
    /\ at[c] # "off"
    /\ at' = [at EXCEPT ![c] = "off"]
    /\ key' = [key EXCEPT ![c] = 0]
    /\ made_with' = [made_with EXCEPT ![c] = 0]
    /\ Store!Forget(c)
    /\ UNCHANGED <<settings, trouble, history>>

\* A call to the provider: it needs the key.
KeyWorks(c) == key[c] \in accepted

\* _ensure_collection, which does not call Chroma when there is a handle.
Opens(c, next) ==
    /\ Moves(c, "open", next)
    /\ Store!Ensure(c) \/ (handle[c] # 0 /\ UNCHANGED store)
    /\ UNCHANGED trouble
    /\ Still

(***************************************************************************)
(* An API pod: POST /ask from the first call to the last.                  *)
(***************************************************************************)
Replies(p, from, cause) ==
    /\ Moves(p, from, "idle")
    /\ trouble' = [trouble EXCEPT ![p] = cause]
    /\ Still

Ask(p) ==
    /\ Moves(p, "idle", "embed")
    /\ trouble' = [trouble EXCEPT ![p] = "none"]
    /\ UNCHANGED store
    /\ Still

EmbedQuestion(p) ==
    /\ UNCHANGED store
    /\ \/ KeyWorks(p) /\ Moves(p, "embed", "open") /\ UNCHANGED trouble /\ Still
       \/ ~KeyWorks(p) /\ Replies(p, "embed", "key")

OpenForQuery(p) == Opens(p, "query")

\* The vector of the question is compared with what the stored ones are made of.
Comparable(p) == \A o \in Store!Ordinal : index[o] \in {0, made_with[p]}

\* Too little similarity ends in a refusal, without a call to the chat provider.
QueryCollection(p) ==
    \/ /\ Store!Read(p)
       /\ Comparable(p)
       /\ \/ Moves(p, "query", "generate") /\ UNCHANGED trouble /\ Still
          \/ Replies(p, "query", "none")
    \/ Store!Read(p) /\ ~Comparable(p) /\ Replies(p, "query", "vectors")
    \/ ~Store!Reaches(p) /\ UNCHANGED store /\ Replies(p, "query", "handle")

Generate(p) ==
    /\ UNCHANGED store
    /\ Replies(p, "generate", IF KeyWorks(p) THEN "none" ELSE "key")

\* The provider or Chroma fails a call for a reason that passes.
Outage(p) ==
    /\ \E s \in {"embed", "open", "query", "generate"} : Replies(p, s, "none")
    /\ UNCHANGED store

PodStep(p) ==
    EmbedQuestion(p) \/ OpenForQuery(p) \/ QueryCollection(p) \/ Generate(p) \/ Outage(p)

(***************************************************************************)
(* An ingestion Job.                                                       *)
(***************************************************************************)
Launch(j) ==
    /\ Moves(j, "off", "analyze")
    /\ Starts(j)
    /\ UNCHANGED <<settings, trouble, history>>

\* The windows of the analyzer, then the batches of the embedder, all with the
\* key: this is the last of them.
UseKey(j) ==
    /\ KeyWorks(j)
    /\ Moves(j, "analyze", "open")
    /\ UNCHANGED <<store, trouble>>
    /\ Still

OpenForUpsert(j) == Opens(j, "upsert")

\* A page without chunks changes nothing.
Upsert(j) ==
    /\ \E n \in 1..MaxChunks : Store!UpsertChunks(j, n, made_with[j])
    /\ Moves(j, "upsert", "done")
    /\ UNCHANGED trouble
    /\ Still

JobStep(j) == Launch(j) \/ UseKey(j) \/ OpenForUpsert(j) \/ Upsert(j)

(***************************************************************************)
(* delete_by_source and count, one after another with the same adapter.    *)
(* They need neither key nor settings.                                     *)
(***************************************************************************)
Begin(s) ==
    /\ Moves(s, "off", "open")
    /\ UNCHANGED <<store, trouble>>
    /\ Still

OpenForSweep(s) == \E op \in {"get", "count"} : Opens(s, op)

GetIds(s) == Moves(s, "get", "delete") /\ Store!GetIds(s) /\ UNCHANGED trouble /\ Still

DeleteIds(s) == Moves(s, "delete", "open") /\ Store!DeleteIds(s) /\ UNCHANGED trouble /\ Still

Count(s) == Moves(s, "count", "open") /\ Store!Read(s) /\ UNCHANGED trouble /\ Still

SweepStep(s) == Begin(s) \/ OpenForSweep(s) \/ GetIds(s) \/ DeleteIds(s) \/ Count(s)

(***************************************************************************)
(* The operator.                                                           *)
(***************************************************************************)
Same == UNCHANGED <<at, environment, trouble>>

RotateKey ==
    /\ secret < MaxKeys
    /\ secret' = secret + 1
    /\ accepted' = accepted \cup {secret + 1}
    /\ fresh' = {}
    /\ UNCHANGED <<store, model, clean>> /\ Same

RevokeKey(k) ==
    /\ k \in accepted \ {secret}
    /\ accepted' = accepted \ {k}
    /\ UNCHANGED <<store, secret, model, history>> /\ Same

EditSettings ==
    /\ model < MaxModels
    /\ model' = model + 1
    /\ fresh' = {}
    /\ clean' = FALSE
    /\ UNCHANGED <<store, secret, accepted>> /\ Same

\* A Job that has opened the old collection cannot reach the next one.
ResetCollection ==
    /\ Store!DropCollection
    /\ fresh' = {p \in fresh : handle[p] = 0}
    /\ clean' = (\A j \in Job : at[j] = "off" \/ made_with[j] = model \/ handle[j] # 0)
    /\ UNCHANGED settings /\ Same

\* kubectl rollout restart, or a pod that died and is replaced.
RestartPod(p) ==
    /\ at' = [at EXCEPT ![p] = "idle"]
    /\ trouble' = [trouble EXCEPT ![p] = "none"]
    /\ Starts(p)
    /\ fresh' = fresh \cup {p}
    /\ UNCHANGED <<settings, clean>>

OperatorStep ==
    \/ RotateKey
    \/ \E k \in accepted : RevokeKey(k)
    \/ EditSettings
    \/ ResetCollection

Next ==
    \/ \E p \in Pod : Ask(p) \/ PodStep(p) \/ RestartPod(p)
    \/ \E j \in Job : JobStep(j)
    \/ \E s \in Sweeper : SweepStep(s)
    \/ \E c \in Job \cup Sweeper : Ends(c)
    \/ OperatorStep

Spec == Init /\ [][Next]_vars

\* Clients keep asking, and a pod works on what it was asked. Nobody owes a
\* restart, a Job or a step of the operator.
FairSpec == Spec /\ \A p \in Pod : WF_vars(Ask(p)) /\ WF_vars(PodStep(p))

(***************************************************************************)
(* Properties.                                                             *)
(***************************************************************************)
\* A restart cures: a pod that was started after the last rotation of the key
\* and the last edit of the settings, and that has not had the collection
\* deleted under it since, never spoils a question with its key or its cached
\* handle, nor, once the collection was rebuilt, by comparing vectors of
\* different models, whatever Jobs, other pods, sweepers and revocations do.
RestartCures ==
    \A p \in fresh :
        /\ trouble[p] \notin {"key", "handle"}
        /\ clean => trouble[p] # "vectors"

\* The documented way to re-ingest: if the collection is deleted after the
\* settings were edited, when no Job from before the edit has still to open the
\* collection, it holds only chunks made with the new settings from then on,
\* although a Job that opened the old collection may be about to upsert.
ResetRebuilds == clean => \A o \in Store!Ordinal : index[o] \in {0, model}

\* No part of a page is left over, but by a delete that an upsert overtook.
PageHasNoHoles == Store!NoHoles

\* Only a restart cures: a handle to a collection that is gone fails for good. No
\* collection made later, by whomever, is the one it names, so a process from
\* before a reset neither reads nor writes what was rebuilt after it.
StaleStaysStale ==
    [][\A c \in Process : handle[c] \notin {0, collection} =>
           \/ IF c \in Pod THEN RestartPod(c) ELSE Ends(c)
           \/ handle'[c] = handle[c] /\ handle'[c] # collection']_vars

\* "Update the secret in AWS Secrets Manager; ESO picks up the new value [...]
\* No pod restart required." (infra/README.md; 002 spec, user story 2)
RotationNeedsNoRestart ==
    \A k \in 1..MaxKeys : secret = k ~> (secret # k \/ \A p \in Pod : key[p] = k)

=============================================================================
