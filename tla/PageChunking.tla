---------------------------- MODULE PageChunking ----------------------------
(***************************************************************************)
(* From the cleaned page to chunks. HybridChunker.chunk takes the regions  *)
(* the analyzer found and splits those that are too long at sentence       *)
(* boundaries; FixedSizeChunker.chunk slides a window over the text. The   *)
(* loops of both are state machines here, one iteration per step, so that  *)
(* every intermediate state can be looked at.                              *)
(*                                                                         *)
(* A chunk is the part of the page it carries: sentences first .. last of  *)
(* a region, or characters from .. to of the text. Its ordinal, and with   *)
(* it the chunk id, is its place in the list of chunks.                    *)
(***************************************************************************)
EXTENDS PageAnalyzer

CONSTANTS
    MaxChunkChars,  \* max_chunk_chars of the HybridChunker
    ChunkSize,      \* chunk_size of the FixedSizeChunker
    Overlap         \* and its overlap

ASSUME ChunkingAssumption ==
    /\ MaxChunkChars \in Nat
    /\ ChunkSize \in Nat \ {0}
    /\ Overlap \in 0..(ChunkSize - 1)

VARIABLES
    chunker,  \* "hybrid" or "fixed_size"
    chunks,   \* the chunks emitted so far
    region,   \* hybrid: the region being split ...
    first,    \* ... the first sentence of `current` ...
    next,     \* ... and the sentence after it
    start,    \* fixed_size: where the next window begins
    finished

chunkerVars == <<chunker, chunks, region, first, next, start, finished>>
vars == <<analyzerVars, chunkerVars>>

Piece(k, a, b) == [region |-> k, first |-> a, last |-> b]
Slice(a, b) == [from |-> a, to |-> b]

ChunkingTypeOK ==
    /\ text \in 0..MaxText
    /\ verdict \in {"running", "structured", "LLMUnavailable", "TypeError"}
    /\ attempt \in 1..MaxRetries
    /\ chunker \in {"hybrid", "fixed_size"}
    /\ chunker = "hybrid" =>
           \A c \in {chunks[i] : i \in DOMAIN chunks} :
               c.region \in DOMAIN regions /\ 1 <= c.first /\ c.last <= Len(regions[c.region].ends)
    /\ chunker = "fixed_size" =>
           \A c \in {chunks[i] : i \in DOMAIN chunks} : c \in [from : 0..text, to : 1..text]
    /\ finished \in BOOLEAN

Init ==
    /\ AnalyzerInit
    /\ chunker \in {"hybrid", "fixed_size"}
    /\ chunks = <<>>
    /\ region = 1
    /\ first = 1
    /\ next = 1
    /\ start = 0
    /\ finished = FALSE

(***************************************************************************)
(* Lengths of text.                                                        *)
(***************************************************************************)
Start(r, i) == IF i = 1 THEN 0 ELSE r.ends[i - 1] + 1

Blank(r, i) == r.ends[i] = Start(r, i)

\* Is there any text in sentences a .. b?
Holds(r, a, b) == \E i \in a..b : ~Blank(r, i)

\* Sentences a .. b of region r, joined by blanks and stripped; a sentence alone
\* is left as it is.
Joined(r, a, b) ==
    r.ends[b] - Start(r, a)
    - (IF a = 1 /\ a < b THEN r.lead ELSE 0)
    - (IF b = Len(r.ends) /\ a < b THEN r.trail ELSE 0)

Emit(c) == chunks' = Append(chunks, c)

(***************************************************************************)
(* Seeded faults.                                                          *)
(***************************************************************************)
\* The sentence that did not fit is dropped with the piece it closed.
TakeDropsSentence(k) ==
    /\ next <= Len(regions[k].ends)
    /\ IF Joined(regions[k], first, next) <= MaxChunkChars
       THEN UNCHANGED <<chunks, first>>
       ELSE /\ first' = next + 1
            /\ IF Holds(regions[k], first, next - 1)
               THEN Emit(Piece(k, first, next - 1)) ELSE UNCHANGED chunks
    /\ next' = next + 1
    /\ UNCHANGED region

\* Every sentence is compared with the limit alone.
TakeComparesSentence(k) ==
    /\ next <= Len(regions[k].ends)
    /\ IF Joined(regions[k], next, next) <= MaxChunkChars
       THEN UNCHANGED <<chunks, first>>
       ELSE /\ first' = next
            /\ IF Holds(regions[k], first, next - 1)
               THEN Emit(Piece(k, first, next - 1)) ELSE UNCHANGED chunks
    /\ next' = next + 1
    /\ UNCHANGED region

\* A piece is closed after every sentence.
TakeClosesPiece(k) ==
    /\ next <= Len(regions[k].ends)
    /\ Emit(Piece(k, next, next))
    /\ first' = next + 1
    /\ next' = next + 1
    /\ UNCHANGED region

\* The split starts counting at zero.
WholeFromZero(k) ==
    /\ Emit(Piece(k, 0, Len(regions[k].ends)))
    /\ region' = k + 1
    /\ first' = 1
    /\ next' = 1

\* Without the break, the loop goes on to the end of range().
SlideOn ==
    /\ Emit(Slice(start, Smaller(start + ChunkSize, text)))
    /\ start' = start + ChunkSize - Overlap
    /\ finished' = (start' >= text)

\* A sentence that does not fit closes the piece and is looked at again.
TakeRetriesSentence(k) ==
    /\ next <= Len(regions[k].ends)
    /\ IF Joined(regions[k], first, next) <= MaxChunkChars
       THEN next' = next + 1 /\ UNCHANGED <<chunks, first>>
       ELSE /\ first' = next
            /\ IF Holds(regions[k], first, next - 1)
               THEN Emit(Piece(k, first, next - 1)) ELSE UNCHANGED chunks
            /\ UNCHANGED next
    /\ UNCHANGED region

(***************************************************************************)
(* HybridChunker: _split_oversized, region by region.                      *)
(***************************************************************************)
NextRegion(k) == region' = k + 1 /\ first' = 1 /\ next' = 1

\* The region is short enough as it stands.
EmitWhole(k) ==
    /\ Emit(Piece(k, 1, Len(regions[k].ends)))
    /\ NextRegion(k)

\* One sentence: it is added to `current`, or starts a new one. A sentence that
\* is too long by itself is kept whole.
TakeSentence(k) ==
    /\ next <= Len(regions[k].ends)
    /\ IF Joined(regions[k], first, next) <= MaxChunkChars
       THEN UNCHANGED <<chunks, first>>
       ELSE /\ first' = next
            /\ IF Holds(regions[k], first, next - 1)
               THEN Emit(Piece(k, first, next - 1)) ELSE UNCHANGED chunks
    /\ next' = next + 1
    /\ UNCHANGED region

\* After the last sentence, what is left in `current`.
EmitRest(k) ==
    /\ next > Len(regions[k].ends)
    /\ IF Holds(regions[k], first, next - 1)
       THEN Emit(Piece(k, first, next - 1)) ELSE UNCHANGED chunks
    /\ NextRegion(k)

SplitRegion ==
    /\ chunker = "hybrid" /\ verdict = "structured" /\ ~finished
    /\ IF region > Len(regions)
       THEN finished' = TRUE /\ UNCHANGED <<chunks, region, first, next>>
       ELSE /\ IF regions[region].chars <= MaxChunkChars
               THEN EmitWhole(region)
               ELSE TakeSentence(region) \/ EmitRest(region)
            /\ UNCHANGED finished
    /\ UNCHANGED <<analyzerVars, chunker, start>>

(***************************************************************************)
(* FixedSizeChunker, which needs no structure.                             *)
(***************************************************************************)
Slide ==
    /\ Emit(Slice(start, Smaller(start + ChunkSize, text)))
    /\ start' = start + ChunkSize - Overlap
    /\ finished' = (start + ChunkSize >= text)

SlideWindow ==
    /\ chunker = "fixed_size" /\ ~finished
    /\ \/ text = 0 /\ finished' = TRUE /\ UNCHANGED <<chunks, start>>
       \/ text > 0 /\ Slide
    /\ UNCHANGED <<analyzerVars, chunker, region, first, next>>

AnalyzePage == chunker = "hybrid" /\ Call /\ UNCHANGED chunkerVars

Next == AnalyzePage \/ SplitRegion \/ SlideWindow

Spec == Init /\ [][Next]_vars

\* Straight-line code: it goes on while it can.
FairSpec == Spec /\ WF_vars(Next)

(***************************************************************************)
(* Properties.                                                             *)
(***************************************************************************)
\* The chunks of a page carry the text of all its regions, once, in order: each
\* chunk continues where the one before it stopped, and what no chunk carries
\* is blank.
NothingLost ==
    chunker = "hybrid" /\ finished =>
        /\ \A k \in DOMAIN regions : \A i \in DOMAIN regions[k].ends :
              Cardinality({n \in DOMAIN chunks :
                  chunks[n].region = k /\ i \in chunks[n].first .. chunks[n].last})
              = 1 \/ Blank(regions[k], i)
        /\ \A m, n \in DOMAIN chunks : m < n =>
              \/ chunks[m].region < chunks[n].region
              \/ /\ chunks[m].region = chunks[n].region
                 /\ chunks[m].last < chunks[n].first

\* "so no single chunk exceeds max_chunk_chars", but for a single sentence that
\* does; and no chunk is empty, which Chunk would refuse. A region that is short
\* enough as it stands is one chunk, blanks and all.
ChunksFit ==
    chunker = "hybrid" => \A n \in DOMAIN chunks :
        LET c == chunks[n]
        IN /\ Holds(regions[c.region], c.first, c.last)
           /\ Joined(regions[c.region], c.first, c.last) <= MaxChunkChars \/ c.first = c.last

\* Splitting is not overdone: two neighbours of one region never fit into one.
ChunksAreFull ==
    chunker = "hybrid" => \A n \in 1..(Len(chunks) - 1) :
        LET c == chunks[n]
            d == chunks[n + 1]
        IN c.region = d.region => Joined(regions[c.region], c.first, d.first) > MaxChunkChars

\* The fixed windows cover the text with the overlap asked for, and none but
\* the last reaches its end: there is no last window inside the one before it.
WindowsCover ==
    chunker = "fixed_size" /\ finished /\ text > 0 =>
        /\ chunks[1].from = 0
        /\ chunks[Len(chunks)].to = text
        /\ \A n \in 1..(Len(chunks) - 1) :
              /\ chunks[n].to - chunks[n + 1].from = Overlap
              /\ chunks[n].to < text

\* Why the loops end: every step uses up some of the work there is, the first of
\* these numbers that changes going down. They are the windows to analyze, the
\* attempts left for this one, the regions (or characters) to split and the
\* sentences left in this one, and what reduces one may raise those behind it.
WorkLeft ==
    <<IF verdict = "running" THEN 1 + WindowCount(text) - Len(analyzed) ELSE 0,
      MaxRetries - attempt,
      IF finished THEN 0
      ELSE IF chunker = "hybrid" THEN 2 + Len(regions) - region ELSE 1 + text - start,
      IF region \in DOMAIN regions THEN 1 + Len(regions[region].ends) - next ELSE 0>>

Less(v, w) == \E i \in 1..4 : v[i] < w[i] /\ \A j \in 1..(i - 1) : v[j] = w[j]

WorkRunsOut ==
    [][(\A i \in 1..4 : WorkLeft[i] \in Nat) /\ Less(WorkLeft', WorkLeft)]_vars

\* Analysis and chunking come to an end, whatever the provider replies.
PageIsDone == <>(finished \/ verdict \in {"LLMUnavailable", "TypeError"})

=============================================================================
