--------------------------- MODULE ChromaVectorStore ---------------------------
(***************************************************************************)
(* The collection "support_bot" in the Chroma service, and the adapter     *)
(* ChromaVectorStore that each process uses to reach it.                   *)
(*                                                                         *)
(* An operation of the adapter is one call after another: the collection   *)
(* is looked up by name once per process, get_or_create_collection, and    *)
(* its handle is cached; every later call names the collection by the id   *)
(* in that handle. Other processes, and an operator who deletes the        *)
(* collection, act between the calls.                                      *)
(***************************************************************************)
EXTENDS Naturals

CONSTANTS
    Client,          \* the processes that hold an adapter
    MaxChunks,       \* bound on the number of chunks of one page
    MaxCollections   \* bound on the number of collections ever made

VARIABLES
    collection,  \* id of the collection of that name, 0 if there is none
    made,        \* number of collections ever made
    index,       \* its chunks by ordinal: what each was made with, 0 if absent
    handle,      \* ChromaVectorStore._collection of each process, 0 for None
    seen,        \* the ids delete_by_source has got and not yet deleted
    overtaken,   \* history: clients with an upsert of others since their get
    torn         \* history: one of them went on to delete

storeVars == <<collection, made, index, handle, seen, overtaken, torn>>
historyVars == <<overtaken, torn>>

Ordinal == 0..(MaxChunks - 1)
Stored == {o \in Ordinal : index[o] # 0}

StoreTypeOK ==
    /\ collection \in Nat
    /\ made \in Nat
    /\ index \in [Ordinal -> Nat]
    /\ handle \in [Client -> Nat]
    /\ seen \in [Client -> SUBSET Ordinal]
    /\ overtaken \in SUBSET Client
    /\ torn \in BOOLEAN

StoreInit ==
    /\ collection = 0
    /\ made = 0
    /\ index = [o \in Ordinal |-> 0]
    /\ handle = [c \in Client |-> 0]
    /\ seen = [c \in Client |-> {}]
    /\ overtaken = {}
    /\ torn = FALSE

(***************************************************************************)
(* Seeded faults: variants of the definitions below, each with a mistake a *)
(* change to the code could make. No action uses them.                     *)
(***************************************************************************)
\* Only the first page of ids is fetched.
GetFirstIds(c) ==
    /\ handle[c] = collection /\ collection # 0
    /\ seen' = [seen EXCEPT ![c] = Stored \cap {0}]
    /\ overtaken' = overtaken \ {c}
    /\ UNCHANGED <<collection, made, index, handle, torn>>

\* The collection is looked up again when the handle does not work any more, so
\* that the chunks go to whatever collection there is.
UpsertByName(c, n, m) ==
    /\ collection # 0
    /\ index' = [o \in Ordinal |-> IF o < n THEN m ELSE index[o]]
    /\ overtaken' = {d \in Client : seen[d] # {}}
    /\ UNCHANGED <<collection, made, handle, seen, torn>>

\* Ordinals are numbered from one.
UpsertFromOne(c, n, m) ==
    /\ handle[c] = collection /\ collection # 0
    /\ index' = [o \in 1..MaxChunks |-> IF o <= n THEN m ELSE 0]
    /\ overtaken' = {d \in Client : seen[d] # {}}
    /\ UNCHANGED <<collection, made, handle, seen, torn>>

\* The collection is looked up before every operation, handle or not.
EnsureEveryTime(c) ==
    /\ \/ collection # 0 /\ UNCHANGED <<collection, made>>
       \/ /\ collection = 0
          /\ made < MaxCollections
          /\ made' = made + 1
          /\ collection' = made + 1
    /\ handle' = [handle EXCEPT ![c] = collection']
    /\ UNCHANGED <<index, seen, historyVars>>

(***************************************************************************)
(* The calls.                                                              *)
(***************************************************************************)
\* _ensure_collection on a process that has no handle yet. Readers and writers
\* alike create the collection when it is missing.
Ensure(c) ==
    /\ handle[c] = 0
    /\ \/ collection # 0 /\ UNCHANGED <<collection, made>>
       \/ /\ collection = 0
          /\ made < MaxCollections
          /\ made' = made + 1
          /\ collection' = made + 1
    /\ handle' = [handle EXCEPT ![c] = collection']
    /\ UNCHANGED <<index, seen, historyVars>>

\* A call that names a collection which is gone raises, and so does the adapter.
Reaches(c) == handle[c] = collection /\ collection # 0

\* collection.upsert of n chunks made with m: all of them or none.
UpsertChunks(c, n, m) ==
    /\ Reaches(c)
    /\ index' = [o \in Ordinal |-> IF o < n THEN m ELSE index[o]]
    /\ overtaken' = {d \in Client : seen[d] # {}}
    /\ UNCHANGED <<collection, made, handle, seen, torn>>

\* delete_by_source, first call: collection.get(where=...).
GetIds(c) ==
    /\ Reaches(c)
    /\ seen' = [seen EXCEPT ![c] = Stored]
    /\ overtaken' = overtaken \ {c}
    /\ UNCHANGED <<collection, made, index, handle, torn>>

\* Second call: collection.delete(ids=...), if there are any.
DeleteIds(c) ==
    /\ Reaches(c) \/ seen[c] = {}
    /\ index' = [o \in Ordinal |-> IF o \in seen[c] THEN 0 ELSE index[o]]
    /\ seen' = [seen EXCEPT ![c] = {}]
    /\ torn' = (torn \/ (c \in overtaken /\ seen[c] # {}))
    /\ overtaken' = overtaken \ {c}
    /\ UNCHANGED <<collection, made, handle>>

\* query and count read in one call.
Read(c) == Reaches(c) /\ UNCHANGED storeVars

\* The process is gone, and its adapter with it.
Forget(c) ==
    /\ handle' = [handle EXCEPT ![c] = 0]
    /\ seen' = [seen EXCEPT ![c] = {}]
    /\ overtaken' = overtaken \ {c}
    /\ UNCHANGED <<collection, made, index, torn>>

\* client.delete_collection("support_bot"), or a Chroma that comes back without
\* its volume.
DropCollection ==
    /\ collection # 0
    /\ collection' = 0
    /\ index' = [o \in Ordinal |-> 0]
    /\ torn' = FALSE
    /\ UNCHANGED <<made, handle, seen, overtaken>>

\* Everything that ever happens to the collection and the adapters.
StoreNext ==
    \/ \E c \in Client :
        \/ Ensure(c) \/ GetIds(c) \/ DeleteIds(c) \/ Read(c) \/ Forget(c)
        \/ \E n \in 1..MaxChunks, m \in Nat \ {0} : UpsertChunks(c, n, m)
    \/ DropCollection

StoreSpec == StoreInit /\ [][StoreNext]_storeVars

(***************************************************************************)
(* Properties.                                                             *)
(***************************************************************************)
\* The chunks of the page are always a gapless prefix: delete_by_source takes
\* two calls, and cannot leave a part of a page unless an upsert came between
\* them, whoever else deletes, fails, restarts or drops the collection.
NoHoles ==
    torn \/ \A o, p \in Ordinal : o < p /\ index[o] = 0 => index[p] = 0

=============================================================================
