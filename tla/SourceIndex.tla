---------------------------- MODULE SourceIndex ----------------------------
(***************************************************************************)
(* What the vector store promises about the chunks of one source URL       *)
(* (VectorStore in domain/ingestion/ports.py, as the code uses it). Each   *)
(* writer makes a version of the page, which is stored whole, by one step  *)
(* and once, or not at all; nothing else ever changes the collection.      *)
(*                                                                         *)
(* A chunk id is sha1(source_url:ordinal), so the chunks of one source are *)
(* their ordinals. What matters about a stored chunk is whether it comes   *)
(* from the latest upsert ("current") or from an earlier one ("stale").    *)
(***************************************************************************)
EXTENDS Naturals

CONSTANTS
    MaxChunks,  \* bound on the number of chunks of one page
    Writer      \* who makes versions of the page

VARIABLES
    index,      \* the chunks in the collection
    due         \* how many chunks each writer has made and not stored yet

indexVars == <<index, due>>

Ordinal == 0..(MaxChunks - 1)
Held == {"absent", "current", "stale"}

IndexInit ==
    /\ index = [o \in Ordinal |-> "absent"]
    /\ due = [w \in Writer |-> 0]

\* The collection after an upsert of chunks 0 .. n-1. An upsert of nothing
\* leaves it as it is.
AfterUpsert(ix, n) ==
    [o \in Ordinal |->
        CASE o < n -> "current"
          [] o >= n /\ n > 0 /\ ix[o] = "current" -> "stale"
          [] OTHER -> ix[o]]

Owes(w, n) == due' = [due EXCEPT ![w] = n]

\* w has a version of n chunks to store.
Makes(w, n) == due[w] = 0 /\ Owes(w, n) /\ UNCHANGED index

\* The version of w is in the collection, all of it.
Stores(w) == due[w] > 0 /\ Owes(w, 0) /\ index' = AfterUpsert(index, due[w])

\* The version of w will never be in the collection, not a chunk of it.
GivesUp(w) == due[w] > 0 /\ Owes(w, 0) /\ UNCHANGED index

IndexNext ==
    \E w \in Writer : (\E n \in 1..MaxChunks : Makes(w, n)) \/ Stores(w) \/ GivesUp(w)

IndexSpec == IndexInit /\ [][IndexNext]_indexVars

(***************************************************************************)
(* Properties.                                                             *)
(***************************************************************************)
\* The index never has a hole, and what the latest run wrote precedes what
\* earlier runs left behind: a reader finds a prefix of one version of the
\* page, followed at most by the tail of older, longer versions.
Layered ==
    \A o, p \in Ordinal : o < p =>
        /\ index[o] = "absent" => index[p] = "absent"
        /\ index[p] = "current" => index[o] = "current"

=============================================================================
