------------------------------ MODULE Retrieval ------------------------------
(***************************************************************************)
(* The retrieval path of POST /ask as functions: what the collection may   *)
(* return, the lexical re-ranking of it, and the test that decides between *)
(* an answer and a refusal.                                                *)
(*                                                                         *)
(* Scores are integers: a similarity or an overlap of x in [0, 1] is       *)
(* x * Full, and the similarity of a retrieved chunk is kept in half       *)
(* units, so that the blend with alpha = 1/2 is exact.                     *)
(***************************************************************************)
EXTENDS Integers, FiniteSets, Sequences

CONSTANTS
    RetrieveK,   \* RETRIEVE_K of the graph
    Multiplier,  \* candidate_k_multiplier of the re-ranker
    FetchFloor,  \* and the least number of candidates it asks for
    Full,        \* the score that stands for 1.0
    Level        \* the scores similarities and overlaps are drawn from

ASSUME RetrievalAssumption ==
    /\ RetrieveK \in Nat \ {0}
    /\ Multiplier \in Nat \ {0}
    /\ FetchFloor \in Nat
    /\ Full \in Nat \ {0}
    /\ Level \subseteq 0..Full

Larger(m, n) == IF m < n THEN n ELSE m

\* fetch_k: how many candidates the inner retriever is asked for.
FetchK == Larger(RetrieveK * Multiplier, FetchFloor)

\* A stored chunk, as one question sees it: the similarity _clamp01(1 - distance)
\* of its vector, and the share of the question's words found in its text.
Candidate == [similarity : Level, overlap : Level]

\* query(): at most FetchK chunks, the most similar first.
QueryResult ==
    {s \in UNION {[1..n -> Candidate] : n \in 0..FetchK} :
        \A i, j \in DOMAIN s : i < j => s[i].similarity >= s[j].similarity}

\* What the workflow gets: which candidate, with the similarity put on it.
Retrieved == [candidate : 1..FetchK, similarity : 0..(2 * Full)]

(***************************************************************************)
(* LexicalRerankRetriever.retrieve. Few candidates pass through with their *)
(* vector similarity; otherwise sort() orders them by the blended score,   *)
(* best first and ties in the order they came, and the first k are kept.   *)
(***************************************************************************)
Blended(c) == c.similarity + c.overlap

Unblended(c) == 2 * c.similarity

\* The sort: does candidate i come before candidate j?
Precedes(s, i, j) ==
    \/ Blended(s[i]) > Blended(s[j])
    \/ Blended(s[i]) = Blended(s[j]) /\ i < j

Place(s, i) == 1 + Cardinality({j \in DOMAIN s : Precedes(s, j, i)})

AtPlace(s, p) == CHOOSE i \in DOMAIN s : Place(s, i) = p

\* Seeded fault: the blended scores are put on the chunks, the sort is lost.
RerankUnsorted(s) ==
    [p \in 1..(IF Len(s) <= RetrieveK THEN Len(s) ELSE RetrieveK) |->
        [candidate |-> p, similarity |-> Blended(s[p])]]

Rerank(s) ==
    IF Len(s) <= RetrieveK
    THEN [i \in DOMAIN s |-> [candidate |-> i, similarity |-> Unblended(s[i])]]
    ELSE [p \in 1..RetrieveK |->
            [candidate |-> AtPlace(s, p), similarity |-> Blended(s[AtPlace(s, p)])]]

(***************************************************************************)
(* ThresholdLowConfidencePolicy.should_refuse: nothing retrieved, or the   *)
(* best similarity below 0.5.                                              *)
(***************************************************************************)
Threshold == Full

\* Seeded fault: a similarity of exactly 0.5 is refused.
RefusesAtThreshold(chunks) == \A i \in DOMAIN chunks : chunks[i].similarity <= Threshold

ShouldRefuse(chunks) == \A i \in DOMAIN chunks : chunks[i].similarity < Threshold

\* Seeded fault: no chunk is reported as a similarity of -1.
TopOrMinusOne(chunks) == IF chunks = <<>> THEN -1 ELSE chunks[1].similarity

\* AnsweringService.answer reports the similarity of the first chunk.
TopSimilarity(chunks) == IF chunks = <<>> THEN 0 ELSE chunks[1].similarity

(***************************************************************************)
(* What re-ranking promises, said without a sort: as many chunks as asked  *)
(* for and available, none twice, best first, and none left behind that    *)
(* beats one that was kept.                                                *)
(***************************************************************************)
IsBestOf(chunks, s) ==
    LET kept == {chunks[p].candidate : p \in DOMAIN chunks}
    IN /\ kept \subseteq DOMAIN s
       /\ Cardinality(kept) = Len(chunks)
       /\ Len(chunks) = IF Len(s) < RetrieveK THEN Len(s) ELSE RetrieveK
       /\ \A p, q \in DOMAIN chunks : p < q => chunks[p].similarity >= chunks[q].similarity
       /\ \A i \in kept, j \in DOMAIN s \ kept : Blended(s[i]) >= Blended(s[j])

=============================================================================
