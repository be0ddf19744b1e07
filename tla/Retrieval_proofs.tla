-------------------------- MODULE Retrieval_proofs --------------------------
(***************************************************************************)
(* The re-ranking, for every number of candidates, every k, every scale    *)
(* and all scores: the places of a stable sort are a permutation, so that  *)
(* the retriever returns the best of what it was given.                    *)
(***************************************************************************)
EXTENDS Retrieval, FiniteSetTheorems, TLAPS

(***************************************************************************)
(* The order of the sort.                                                  *)
(***************************************************************************)
LEMMA ScoresAreNaturals ==
    ASSUME NEW s \in Seq(Candidate), NEW i \in DOMAIN s
    PROVE  /\ i \in 1..Len(s) /\ Len(s) \in Nat
           /\ s[i].similarity \in 0..Full /\ s[i].overlap \in 0..Full /\ Full \in Nat \ {0}
           /\ Blended(s[i]) \in 0..(2 * Full) /\ Unblended(s[i]) \in 0..(2 * Full)
<1>1. s[i] \in Candidate /\ i \in 1..Len(s) /\ Len(s) \in Nat
  OBVIOUS
<1>2. s[i].similarity \in 0..Full /\ s[i].overlap \in 0..Full /\ Full \in Nat \ {0}
  BY <1>1, RetrievalAssumption DEF Candidate, RetrievalAssumption
<1> QED BY <1>1, <1>2 DEF Blended, Unblended

\* Precedes is a strict total order of the candidates.
LEMMA PrecedesOrder ==
    ASSUME NEW s \in Seq(Candidate), NEW i \in DOMAIN s, NEW j \in DOMAIN s, NEW k \in DOMAIN s
    PROVE  /\ ~Precedes(s, i, i)
           /\ Precedes(s, i, j) /\ Precedes(s, j, k) => Precedes(s, i, k)
           /\ i # j => Precedes(s, i, j) \/ Precedes(s, j, i)
<1>1. /\ i \in Nat /\ j \in Nat /\ k \in Nat
      /\ Blended(s[i]) \in Int /\ Blended(s[j]) \in Int /\ Blended(s[k]) \in Int
  <2>1. \A x \in DOMAIN s : x \in Nat /\ Blended(s[x]) \in Int
    BY ScoresAreNaturals, RetrievalAssumption DEF RetrievalAssumption
  <2> QED BY <2>1
<1> QED BY <1>1 DEF Precedes

Before(s, i) == {j \in DOMAIN s : Precedes(s, j, i)}

LEMMA PlaceFacts ==
    ASSUME NEW s \in Seq(Candidate), NEW i \in DOMAIN s
    PROVE  /\ IsFiniteSet(DOMAIN s) /\ Cardinality(DOMAIN s) = Len(s)
           /\ IsFiniteSet(Before(s, i)) /\ Cardinality(Before(s, i)) \in Nat
           /\ Place(s, i) = 1 + Cardinality(Before(s, i))
           /\ Place(s, i) \in 1..Len(s)
<1>1. DOMAIN s = 1..Len(s) /\ Len(s) \in Nat /\ Len(s) >= 1
  OBVIOUS
<1>2. IsFiniteSet(DOMAIN s) /\ Cardinality(DOMAIN s) = Len(s)
  BY <1>1, FS_Interval
<1>3. /\ IsFiniteSet(DOMAIN s \ {i})
      /\ Cardinality(DOMAIN s \ {i}) = Len(s) - 1
  BY <1>2, FS_RemoveElement
<1>4. Before(s, i) \in SUBSET (DOMAIN s \ {i})
  BY PrecedesOrder DEF Before
<1>5. /\ IsFiniteSet(Before(s, i))
      /\ Cardinality(Before(s, i)) <= Len(s) - 1
      /\ Cardinality(Before(s, i)) \in Nat
  BY <1>3, <1>4, FS_Subset, FS_CardinalityType
<1> QED BY <1>1, <1>2, <1>5 DEF Place, Before

\* Who comes first gets the smaller place.
LEMMA PlaceIsMonotonic ==
    ASSUME NEW s \in Seq(Candidate), NEW i \in DOMAIN s, NEW j \in DOMAIN s, Precedes(s, i, j)
    PROVE  Place(s, i) < Place(s, j)
<1>1. Before(s, i) \in SUBSET Before(s, j)
  BY PrecedesOrder DEF Before
<1>2. i \in Before(s, j) /\ i \notin Before(s, i)
  BY PrecedesOrder DEF Before
<1>3. Cardinality(Before(s, i)) <= Cardinality(Before(s, j))
      /\ Cardinality(Before(s, i)) # Cardinality(Before(s, j))
  BY <1>1, <1>2, PlaceFacts, FS_Subset
<1> QED BY <1>3, PlaceFacts

\* No two candidates share a place.
LEMMA PlaceIsInjective ==
    ASSUME NEW s \in Seq(Candidate), NEW i \in DOMAIN s, NEW j \in DOMAIN s,
           Place(s, i) = Place(s, j)
    PROVE  i = j
<1>1. Place(s, i) \in Int
  BY PlaceFacts
<1> QED BY <1>1, PlaceIsMonotonic, PrecedesOrder

\* And none is empty: AtPlace finds a candidate for every place there is.
LEMMA AtPlaceFacts ==
    ASSUME NEW s \in Seq(Candidate), NEW p \in 1..Len(s)
    PROVE  AtPlace(s, p) \in DOMAIN s /\ Place(s, AtPlace(s, p)) = p
<1> DEFINE N == 1..Len(s)
           f == [i \in N |-> Place(s, i)]
<1>1. DOMAIN s = N /\ Len(s) \in Nat
  OBVIOUS
<1>2. f \in [N -> N]
  BY <1>1, PlaceFacts
<1>3. \A i, j \in N : f[i] = f[j] => i = j
  BY <1>1, PlaceIsInjective
<1>4. f \in Injection(N, N)
  BY <1>2, <1>3 DEF Injection, IsInjective
<1>5. IsFiniteSet(N)
  BY <1>1, FS_Interval
<1>6. f \in Surjection(N, N)
  BY <1>4, <1>5, FS_Injection
<1>7. \E i \in N : f[i] = p
  BY <1>6 DEF Surjection
<1>8. \E i \in DOMAIN s : Place(s, i) = p
  BY <1>1, <1>7
<1> QED BY <1>8 DEF AtPlace

\* Later places have no better score.
LEMMA AtPlaceIsSorted ==
    ASSUME NEW s \in Seq(Candidate), NEW i \in DOMAIN s, NEW j \in DOMAIN s,
           Place(s, i) < Place(s, j)
    PROVE  Blended(s[i]) >= Blended(s[j])
<1>1. Place(s, i) \in Int /\ Place(s, j) \in Int
  BY PlaceFacts
<1>2. ~Precedes(s, j, i)
  BY <1>1, PlaceIsMonotonic
<1>3. Blended(s[i]) \in Int /\ Blended(s[j]) \in Int
  BY ScoresAreNaturals, RetrievalAssumption DEF RetrievalAssumption
<1> QED BY <1>2, <1>3 DEF Precedes

(***************************************************************************)
(* What the re-ranker returns.                                             *)
(***************************************************************************)
LEMMA FunctionIsSequence ==
    ASSUME NEW S, NEW T, S \subseteq T, NEW n \in Nat, NEW f \in [1..n -> S]
    PROVE  f \in Seq(T) /\ Len(f) = n /\ DOMAIN f = 1..n
OBVIOUS

Lesser(m, n) == IF m < n THEN m ELSE n

LEMMA LesserOf ==
    ASSUME NEW m \in Int, NEW n \in Int
    PROVE  /\ m <= n => Lesser(m, n) = m
           /\ m > n => Lesser(m, n) = n
BY DEF Lesser

Kept(s) == Lesser(Len(s), RetrieveK)

LEMMA RerankShape ==
    ASSUME NEW s \in Seq(Candidate)
    PROVE  /\ Kept(s) \in 0..Len(s)
           /\ Rerank(s) \in [1..Kept(s) -> [candidate : 1..Len(s), similarity : 0..(2 * Full)]]
<1>1. Len(s) \in Nat /\ RetrieveK \in Nat \ {0} /\ DOMAIN s = 1..Len(s)
  BY RetrievalAssumption DEF RetrievalAssumption
<1>2. CASE Len(s) <= RetrieveK
  <2>1. Rerank(s) = [i \in 1..Len(s) |-> [candidate |-> i, similarity |-> Unblended(s[i])]]
    BY <1>1, <1>2 DEF Rerank
  <2>2. Kept(s) = Len(s)
    BY <1>1, <1>2, LesserOf DEF Kept
  <2>3. \A i \in 1..Len(s) : Unblended(s[i]) \in 0..(2 * Full)
    BY <1>1, ScoresAreNaturals
  <2> QED BY <1>1, <2>1, <2>2, <2>3
<1>3. CASE Len(s) > RetrieveK
  <2>1. Rerank(s) = [p \in 1..RetrieveK |->
            [candidate |-> AtPlace(s, p), similarity |-> Blended(s[AtPlace(s, p)])]]
    BY <1>1, <1>3 DEF Rerank
  <2>2. Kept(s) = RetrieveK
    BY <1>1, <1>3, LesserOf DEF Kept
  <2>3. \A p \in 1..RetrieveK :
            AtPlace(s, p) \in 1..Len(s) /\ Blended(s[AtPlace(s, p)]) \in 0..(2 * Full)
    BY <1>1, <1>3, AtPlaceFacts, ScoresAreNaturals
  <2> QED BY <1>1, <1>3, <2>1, <2>2, <2>3
<1> QED BY <1>1, <1>2, <1>3

\* What the collection returns is a sequence of at most FetchK candidates.
LEMMA QueryResultFacts ==
    ASSUME NEW s \in QueryResult
    PROVE  /\ s \in Seq(Candidate) /\ DOMAIN s \subseteq 1..FetchK
           /\ \A i, j \in DOMAIN s : i < j => s[i].similarity >= s[j].similarity
<1>1. PICK n \in 0..FetchK : s \in [1..n -> Candidate]
  BY DEF QueryResult
<1>2. n \in Nat /\ FetchK \in Nat
  BY <1>1, RetrievalAssumption DEF FetchK, Larger, RetrievalAssumption
<1>3. s \in Seq(Candidate) /\ DOMAIN s = 1..n
  BY <1>1, <1>2
<1> QED BY <1>1, <1>2, <1>3 DEF QueryResult

\* Nothing found is nothing returned.
LEMMA NothingFound == <<>> \in QueryResult /\ Rerank(<<>>) = <<>>
<1>1. FetchK \in Nat /\ 0 \in 0..FetchK
  BY RetrievalAssumption DEF FetchK, Larger, RetrievalAssumption
<1>2. <<>> \in [1..0 -> Candidate]
  OBVIOUS
<1>3. <<>> \in QueryResult
  BY <1>1, <1>2 DEF QueryResult
<1>4. <<>> \in Seq(Candidate) /\ Len(<<>>) = 0
  OBVIOUS
<1>5. Kept(<<>>) = 0
  BY <1>4, RetrievalAssumption, LesserOf DEF Kept, RetrievalAssumption
<1>6. Rerank(<<>>) \in [1..0 -> [candidate : 1..Len(<<>>), similarity : 0..(2 * Full)]]
  BY <1>4, <1>5, RerankShape
<1> QED BY <1>3, <1>6

\* Whatever the collection returns, the workflow gets the best of it: as many as
\* asked for and available, none twice, best first, none better left behind.
THEOREM RerankIsBest ==
    ASSUME NEW s \in QueryResult
    PROVE  IsBestOf(Rerank(s), s)
<1> DEFINE R == Rerank(s)
           kept == {R[p].candidate : p \in DOMAIN R}
<1>1. /\ s \in Seq(Candidate)
      /\ \A i, j \in DOMAIN s : i < j => s[i].similarity >= s[j].similarity
  BY QueryResultFacts
<1>2. /\ Len(R) = Kept(s) /\ Kept(s) \in 0..Len(s) /\ Len(s) \in Nat
      /\ DOMAIN R = 1..Kept(s) /\ DOMAIN s = 1..Len(s) /\ RetrieveK \in Nat \ {0}
      /\ \A p \in 1..Kept(s) : R[p].candidate \in DOMAIN s
  <2>1. R \in [1..Kept(s) -> [candidate : 1..Len(s), similarity : 0..(2 * Full)]]
        /\ Kept(s) \in 0..Len(s)
    BY <1>1, RerankShape
  <2>2. Len(s) \in Nat /\ DOMAIN s = 1..Len(s) /\ Kept(s) \in Nat
    BY <1>1, <2>1
  <2>3. Len(R) = Kept(s) /\ DOMAIN R = 1..Kept(s)
    <3> DEFINE S == [candidate : 1..Len(s), similarity : 0..(2 * Full)]
    <3>1. R \in [1..Kept(s) -> S]
      BY <2>1
    <3> HIDE DEF R, S
    <3> QED BY <2>2, <3>1
  <2> QED BY <2>1, <2>2, <2>3, RetrievalAssumption DEF RetrievalAssumption
<1>3. kept \subseteq DOMAIN s
  BY <1>2
<1>4. \A p, q \in DOMAIN R : R[p].candidate = R[q].candidate => p = q
  <2>1. CASE Len(s) <= RetrieveK
    BY <1>2, <2>1 DEF Rerank
  <2>2. CASE Len(s) > RetrieveK
    <3>1. \A p \in DOMAIN R : R[p].candidate = AtPlace(s, p) /\ p \in 1..Len(s)
      BY <1>2, <2>2 DEF Rerank
    <3>2. \A p \in DOMAIN R : Place(s, R[p].candidate) = p
      BY <1>1, <3>1, AtPlaceFacts
    <3> QED BY <3>2
  <2> QED BY <1>2, <2>1, <2>2
<1>5. Cardinality(kept) = Len(R)
  <2> DEFINE f == [p \in 1..Kept(s) |-> R[p].candidate]
  <2>1. f \in Bijection(1..Kept(s), kept)
    BY <1>2, <1>4 DEF Bijection, Injection, Surjection, IsInjective
  <2>2. ExistsBijection(1..Kept(s), kept)
    BY <2>1 DEF ExistsBijection
  <2>3. Kept(s) \in Nat
    BY <1>2
  <2> QED BY <1>2, <2>2, <2>3, FS_CountingElements
<1>6. Len(R) = IF Len(s) < RetrieveK THEN Len(s) ELSE RetrieveK
  BY <1>2 DEF Kept, Lesser
<1>7. \A p, q \in DOMAIN R : p < q => R[p].similarity >= R[q].similarity
  <2> SUFFICES ASSUME NEW p \in DOMAIN R, NEW q \in DOMAIN R, p < q
               PROVE  R[p].similarity >= R[q].similarity
    OBVIOUS
  <2>1. CASE Len(s) <= RetrieveK
    <3>1. R[p].similarity = Unblended(s[p]) /\ R[q].similarity = Unblended(s[q])
          /\ p \in DOMAIN s /\ q \in DOMAIN s
      BY <1>2, <2>1 DEF Rerank
    <3>2. s[p].similarity >= s[q].similarity
      BY <1>1, <3>1
    <3>3. s[p].similarity \in Int /\ s[q].similarity \in Int
      BY <1>1, <3>1, ScoresAreNaturals
    <3> QED BY <3>1, <3>2, <3>3 DEF Unblended
  <2>2. CASE Len(s) > RetrieveK
    <3>1. /\ R[p].similarity = Blended(s[AtPlace(s, p)])
          /\ R[q].similarity = Blended(s[AtPlace(s, q)])
          /\ p \in 1..Len(s) /\ q \in 1..Len(s)
      BY <1>2, <2>2 DEF Rerank
    <3>2. /\ AtPlace(s, p) \in DOMAIN s /\ AtPlace(s, q) \in DOMAIN s
          /\ Place(s, AtPlace(s, p)) < Place(s, AtPlace(s, q))
      BY <1>1, <3>1, AtPlaceFacts
    <3> QED BY <1>1, <3>1, <3>2, AtPlaceIsSorted
  <2> QED BY <1>2, <2>1, <2>2
<1>8. ASSUME NEW i \in kept, NEW j \in DOMAIN s \ kept
      PROVE  Blended(s[i]) >= Blended(s[j])
  <2>1. CASE Len(s) <= RetrieveK
    <3>1. R[j].candidate = j /\ j \in DOMAIN R
      BY <1>2, <2>1 DEF Rerank, Kept, Lesser
    <3> QED BY <3>1
  <2>2. CASE Len(s) > RetrieveK
    <3>1. /\ DOMAIN R = 1..RetrieveK
          /\ \A p \in 1..RetrieveK : R[p].candidate = AtPlace(s, p) /\ p \in 1..Len(s)
      BY <1>2, <2>2 DEF Rerank, Kept, Lesser
    <3>2. PICK p \in 1..RetrieveK : i = AtPlace(s, p) /\ i \in DOMAIN s
      BY <1>3, <3>1
    <3>3. Place(s, i) = p
      BY <1>1, <3>1, <3>2, AtPlaceFacts
    <3>4. Place(s, j) \in 1..Len(s)
      BY <1>1, PlaceFacts
    <3>5. Place(s, j) \notin 1..RetrieveK
      <4> SUFFICES ASSUME Place(s, j) \in 1..RetrieveK PROVE FALSE
        OBVIOUS
      <4>1. AtPlace(s, Place(s, j)) = j
        BY <1>1, <3>4, AtPlaceFacts, PlaceIsInjective
      <4>2. R[Place(s, j)].candidate = j
        BY <3>1, <4>1
      <4> QED BY <3>1, <4>2
    <3>6. Place(s, i) < Place(s, j)
      BY <1>2, <3>2, <3>3, <3>4, <3>5
    <3> QED BY <1>1, <3>2, <3>6, AtPlaceIsSorted
  <2> QED BY <1>2, <2>1, <2>2
<1> QED BY <1>3, <1>5, <1>6, <1>7, <1>8 DEF IsBestOf

\* The retriever's result, as the rest of the workflow sees it.
LEMMA RerankFacts ==
    ASSUME NEW s \in QueryResult
    PROVE  /\ Rerank(s) \in Seq(Retrieved)
           /\ \A p, q \in DOMAIN Rerank(s) :
                 p < q => Rerank(s)[p].similarity >= Rerank(s)[q].similarity
<1>1. s \in Seq(Candidate) /\ DOMAIN s \subseteq 1..FetchK
  BY QueryResultFacts
<1>2. [candidate : 1..Len(s), similarity : 0..(2 * Full)] \subseteq Retrieved
  BY <1>1 DEF Retrieved
<1>3. /\ Kept(s) \in Nat
      /\ Rerank(s) \in [1..Kept(s) -> [candidate : 1..Len(s), similarity : 0..(2 * Full)]]
  BY <1>1, RerankShape
<1>4. Rerank(s) \in Seq(Retrieved)
  BY <1>2, <1>3, FunctionIsSequence, Zenon
<1>5. IsBestOf(Rerank(s), s)
  BY RerankIsBest
<1> QED BY <1>4, <1>5 DEF IsBestOf

=============================================================================
