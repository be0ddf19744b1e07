------------------------- MODULE PageChunking_proofs -------------------------
(***************************************************************************)
(* Proofs about PageAnalyzer and PageChunking, for pages, windows, retries *)
(* and chunks of any size, and for any regions the analyzer may find: the  *)
(* windows sent to the analyzer tile the page, no window is tried too      *)
(* often, the chunks of a page carry its sentences once and in order, and  *)
(* the fixed windows cover the text.                                       *)
(***************************************************************************)
EXTENDS PageChunking, SequenceTheorems, FiniteSetTheorems, TLAPS

(***************************************************************************)
(* The analyzer.                                                           *)
(***************************************************************************)
AnalyzerInv ==
    /\ text \in 0..MaxText
    /\ attempt \in 1..MaxRetries
    /\ verdict \in {"running", "structured", "LLMUnavailable", "TypeError"}
    /\ regions \in Seq(Region)
    /\ analyzed \in Seq([from : Int, to : Int])
    /\ \A i \in DOMAIN analyzed : analyzed[i] = Window(i)
    /\ calls \in Seq(Nat) /\ calls # <<>>
    /\ \A i \in DOMAIN calls : calls[i] <= MaxRetries
    /\ verdict = "running" =>
          calls[Len(calls)] = attempt - 1 /\ Len(analyzed) < WindowCount(text)
    /\ verdict = "LLMUnavailable" => calls[Len(calls)] = MaxRetries
    /\ verdict = "structured" => Len(analyzed) = WindowCount(text)

\* Windows are consecutive, start at the beginning, and the last one reaches the
\* end and is not empty but for an empty page.
LEMMA WindowFacts ==
    ASSUME NEW t \in Nat
    PROVE  /\ WindowCount(t) \in Nat \ {0}
           /\ WindowCount(t) * MaxInputChars >= t
           /\ t > 0 => (WindowCount(t) - 1) * MaxInputChars < t
           /\ t = 0 => WindowCount(t) = 1
<1> DEFINE m == MaxInputChars
<1>1. m \in Nat \ {0}
  BY AnalyzerAssumption DEF AnalyzerAssumption
<1>2. CASE t = 0
  BY <1>1, <1>2 DEF WindowCount
<1>3. CASE t > 0
  <2> DEFINE w == (t + m - 1) \div m
  <2>1. WindowCount(t) = w
    BY <1>3 DEF WindowCount
  <2>2. /\ t + m - 1 \in Nat /\ m > 0
    BY <1>1, <1>3
  <2>3. /\ w \in Int /\ (t + m - 1) = m * w + ((t + m - 1) % m)
        /\ (t + m - 1) % m \in 0..(m - 1)
    BY <2>2, <1>1
  <2>4. m * w >= t /\ m * w - m < t
    BY <2>3, <1>1
  <2>5. w > 0
    <3> HIDE DEF w
    <3> SUFFICES ASSUME w <= 0 PROVE FALSE
      BY <2>3
    <3>1. m * w <= 0
      BY <1>1, <2>3
    <3> QED BY <3>1, <2>4, <1>3, <2>3, <1>1
  <2>6. (w - 1) * m = m * w - m /\ w * m = m * w
    <3> HIDE DEF w
    <3> QED BY <2>3, <1>1
  <2> QED BY <2>1, <2>3, <2>4, <2>5, <2>6, <1>3
<1> QED BY <1>2, <1>3

LEMMA AnalyzerInvInit == Init => AnalyzerInv
<1> SUFFICES ASSUME Init PROVE AnalyzerInv
  OBVIOUS
<1>1. MaxText \in Nat /\ MaxInputChars \in Nat \ {0} /\ MaxRetries \in Nat \ {0}
  BY AnalyzerAssumption DEF AnalyzerAssumption
<1>2. text \in 0..MaxText /\ attempt = 1 /\ verdict = "running"
      /\ regions = <<>> /\ analyzed = <<>> /\ calls = <<0>>
  BY DEF Init, AnalyzerInit
<1>3. WindowCount(text) \in Nat \ {0}
  <2>1. text \in Nat
    BY <1>1, <1>2
  <2> QED BY <2>1, WindowFacts
<1>4. /\ calls \in Seq(Nat) /\ calls # <<>> /\ Len(calls) = 1 /\ calls[1] = 0
      /\ \A i \in DOMAIN calls : calls[i] <= MaxRetries
  BY <1>1, <1>2
<1>5. /\ regions \in Seq(Region) /\ analyzed \in Seq([from : Int, to : Int])
      /\ DOMAIN analyzed = {} /\ Len(analyzed) = 0
  BY <1>2
<1> QED BY <1>1, <1>2, <1>3, <1>4, <1>5 DEF AnalyzerInv

\* One more call for the window at hand.
LEMMA CountedCall ==
    ASSUME AnalyzerInv, verdict = "running",
           NEW c, c = [calls EXCEPT ![Len(calls)] = @ + 1]
    PROVE  /\ c \in Seq(Nat) /\ c # <<>> /\ Len(c) = Len(calls)
           /\ \A i \in DOMAIN c : c[i] <= MaxRetries
           /\ c[Len(c)] = attempt
<1>1. calls \in Seq(Nat) /\ Len(calls) \in Nat \ {0} /\ DOMAIN calls = 1..Len(calls)
  BY EmptySeq, LenProperties DEF AnalyzerInv
<1>2. calls[Len(calls)] = attempt - 1 /\ attempt \in 1..MaxRetries /\ MaxRetries \in Nat
      /\ \A i \in DOMAIN calls : calls[i] <= MaxRetries
  BY AnalyzerAssumption DEF AnalyzerInv, AnalyzerAssumption
<1>3. c = [calls EXCEPT ![Len(calls)] = attempt]
  BY <1>2
<1>4. /\ c \in Seq(Nat) /\ Len(c) = Len(calls)
      /\ \A j \in 1..Len(calls) : c[j] = IF j = Len(calls) THEN attempt ELSE calls[j]
  BY <1>1, <1>2, <1>3, ExceptSeq
<1>5. DOMAIN c = 1..Len(calls)
  BY <1>1, <1>3
<1> QED BY <1>1, <1>2, <1>4, <1>5

LEMMA AnalyzerInvStep == AnalyzerInv /\ [Next]_vars => AnalyzerInv'
<1> SUFFICES ASSUME AnalyzerInv, [Next]_vars PROVE AnalyzerInv'
  OBVIOUS
<1>1. CASE UNCHANGED analyzerVars
  BY <1>1 DEF AnalyzerInv, analyzerVars, Window
<1>2. ASSUME Call PROVE AnalyzerInv'
  <2> DEFINE c == [calls EXCEPT ![Len(calls)] = @ + 1]
  <2>1. verdict = "running" /\ text' = text
    BY <1>2 DEF Call, Accept, Retry, Escape
  <2>2. /\ c \in Seq(Nat) /\ c # <<>> /\ Len(c) = Len(calls)
        /\ \A i \in DOMAIN c : c[i] <= MaxRetries
        /\ c[Len(c)] = attempt
    BY <2>1, CountedCall
  <2>3. MaxRetries \in Nat \ {0} /\ MaxText \in Nat /\ attempt \in 1..MaxRetries /\ text \in 0..MaxText
    BY AnalyzerAssumption DEF AnalyzerAssumption, AnalyzerInv
  <2>4. ASSUME NEW n \in 0..MaxRegions, NEW rs \in [1..n -> Region], Accept(rs) PROVE AnalyzerInv'
    <3> HIDE DEF c
    <3>1. n \in Nat /\ rs \in Seq(Region)
      BY <2>4, AnalyzerAssumption DEF AnalyzerAssumption
    <3>2. regions' \in Seq(Region)
      BY <3>1, <2>4, ConcatProperties DEF Accept, AnalyzerInv
    <3>3. Window(Len(analyzed) + 1) \in [from : Int, to : Int]
      BY <2>3, AnalyzerAssumption, LenProperties DEF AnalyzerAssumption, AnalyzerInv, Window, Smaller
    <3>4. /\ analyzed' = Append(analyzed, Window(Len(analyzed) + 1))
          /\ analyzed \in Seq([from : Int, to : Int])
      BY <2>4 DEF Accept, AnalyzerInv
    <3>5. /\ analyzed' \in Seq([from : Int, to : Int]) /\ Len(analyzed') = Len(analyzed) + 1
          /\ \A i \in DOMAIN analyzed' : analyzed'[i] = Window(i)
      <4>1. /\ analyzed' \in Seq([from : Int, to : Int]) /\ Len(analyzed') = Len(analyzed) + 1
            /\ \A i \in 1..Len(analyzed) : analyzed'[i] = analyzed[i]
            /\ analyzed'[Len(analyzed) + 1] = Window(Len(analyzed) + 1)
        BY <3>3, <3>4
      <4>2. Len(analyzed) \in Nat /\ DOMAIN analyzed' = 1..(Len(analyzed) + 1)
            /\ DOMAIN analyzed = 1..Len(analyzed)
        BY <3>4, <4>1, LenProperties
      <4>3. \A i \in 1..Len(analyzed) : analyzed[i] = Window(i)
        BY <4>2 DEF AnalyzerInv
      <4> QED BY <4>1, <4>2, <4>3
    <3>6. \A i : Window(i)' = Window(i)
      BY <2>1 DEF Window
    <3>7. WindowCount(text) \in Nat /\ Len(analyzed) \in Nat /\ Len(analyzed) < WindowCount(text)
      BY <2>1, <2>3, <3>4, WindowFacts, LenProperties DEF AnalyzerInv
    <3>8. CASE Len(analyzed) + 1 = WindowCount(text)
      <4>1. calls' = c /\ verdict' = "structured" /\ attempt' = 1
        BY <2>4, <3>8 DEF Accept, c
      <4>2. Len(analyzed') = WindowCount(text')
        BY <2>1, <3>5, <3>8
      <4>3. /\ calls' \in Seq(Nat) /\ calls' # <<>>
            /\ \A i \in DOMAIN calls' : calls'[i] <= MaxRetries
        BY <2>2, <4>1
      <4>4. /\ text' \in 0..MaxText /\ attempt' \in 1..MaxRetries
            /\ \A i \in DOMAIN analyzed' : analyzed'[i] = Window(i)'
        BY <2>1, <2>3, <3>5, <3>6, <4>1
      <4> QED BY <3>2, <3>5, <4>1, <4>2, <4>3, <4>4 DEF AnalyzerInv
    <3>9. CASE Len(analyzed) + 1 # WindowCount(text)
      <4>1. calls' = Append(c, 0) /\ verdict' = verdict /\ attempt' = 1
        BY <2>4, <3>9 DEF Accept, c
      <4>2. /\ calls' \in Seq(Nat) /\ calls' # <<>> /\ calls'[Len(calls')] = 0
            /\ \A i \in DOMAIN calls' : calls'[i] <= MaxRetries
        BY <2>2, <2>3, <4>1
      <4>3. Len(analyzed') < WindowCount(text')
        BY <2>1, <3>5, <3>7, <3>9
      <4>4. /\ text' \in 0..MaxText /\ attempt' \in 1..MaxRetries /\ attempt' - 1 = 0
            /\ \A i \in DOMAIN analyzed' : analyzed'[i] = Window(i)'
        BY <2>1, <2>3, <3>5, <3>6, <4>1
      <4> QED BY <2>1, <3>2, <3>5, <4>1, <4>2, <4>3, <4>4 DEF AnalyzerInv
    <3> QED BY <3>8, <3>9
  <2>5. ASSUME UNCHANGED <<analyzed, regions>>, calls' = c,
               \/ attempt = MaxRetries /\ verdict' = "LLMUnavailable" /\ attempt' = attempt
               \/ attempt # MaxRetries /\ verdict' = "running" /\ attempt' = attempt + 1
               \/ verdict' = "TypeError" /\ attempt' = attempt
        PROVE  AnalyzerInv'
    <3> HIDE DEF c
    <3>1. \A i : Window(i)' = Window(i)
      BY <2>1 DEF Window
    <3> QED BY <2>1, <2>2, <2>3, <2>5, <3>1 DEF AnalyzerInv
  <2>6. CASE Retry
    BY <2>1, <2>5, <2>6 DEF Retry
  <2>7. CASE Escape
    BY <2>5, <2>7 DEF Escape
  <2> QED BY <1>2, <2>4, <2>6, <2>7 DEF Call
<1>3. [Next]_vars => Call \/ UNCHANGED analyzerVars
  BY DEF Next, AnalyzePage, SplitRegion, SlideWindow, vars
<1> QED BY <1>1, <1>2, <1>3

LEMMA AnalyzerInvHolds == Spec => []AnalyzerInv
BY AnalyzerInvInit, AnalyzerInvStep, PTL DEF Spec

\* Retries: no window is tried more than MaxRetries times, none is given up
\* earlier, for any number of windows and any replies.
THEOREM GivesUpHolds == Spec => []GivesUpAfterMaxRetries
<1>1. AnalyzerInv => GivesUpAfterMaxRetries
  BY DEF AnalyzerInv, GivesUpAfterMaxRetries
<1> QED BY <1>1, AnalyzerInvHolds, PTL

\* The whole page, for any page and any window size.
THEOREM WholePageHolds == Spec => []WholePageAnalyzed
<1>1. AnalyzerInv => WholePageAnalyzed
  <2> SUFFICES ASSUME AnalyzerInv, verdict = "structured"
               PROVE  /\ analyzed[1].from = 0
                      /\ analyzed[Len(analyzed)].to = text
                      /\ \A i \in 1..(Len(analyzed) - 1) : analyzed[i].to = analyzed[i + 1].from
                      /\ text > 0 => \A i \in DOMAIN analyzed : analyzed[i].from < analyzed[i].to
    BY DEF WholePageAnalyzed
  <2> DEFINE w == WindowCount(text)
             m == MaxInputChars
  <2>1. text \in Nat /\ m \in Nat \ {0}
    BY AnalyzerAssumption DEF AnalyzerInv, AnalyzerAssumption
  <2>2. /\ w \in Nat \ {0} /\ w * m >= text
        /\ text > 0 => (w - 1) * m < text
        /\ text = 0 => w = 1
    BY <2>1, WindowFacts
  <2>3. Len(analyzed) = w /\ DOMAIN analyzed = 1..w /\ \A i \in 1..w : analyzed[i] = Window(i)
    BY LenProperties DEF AnalyzerInv
  <2> HIDE DEF w
  <2>4. \A i \in 1..w : analyzed[i].from = (i - 1) * m /\ analyzed[i].to = Smaller(i * m, text)
    BY <2>3 DEF Window
  <2>5. \A i \in Nat \ {0} : i < w => i * m < text
    <3> SUFFICES ASSUME NEW i \in Nat \ {0}, i < w PROVE i * m < text
      OBVIOUS
    <3>1. text > 0
      BY <2>1, <2>2
    <3>2. i * m <= (w - 1) * m
      BY <2>1, <2>2
    <3>3. i * m \in Int /\ (w - 1) * m \in Int
      BY <2>1, <2>2
    <3> QED BY <2>1, <2>2, <3>1, <3>2, <3>3
  <2>6. \A i \in 1..(w - 1) : analyzed[i].to = i * m /\ analyzed[i + 1].from = i * m
    <3> SUFFICES ASSUME NEW i \in 1..(w - 1) PROVE analyzed[i].to = i * m /\ analyzed[i + 1].from = i * m
      OBVIOUS
    <3>1. i \in Nat \ {0} /\ i < w /\ i \in 1..w /\ i + 1 \in 1..w /\ (i + 1) - 1 = i
      BY <2>2
    <3>2. i * m < text /\ i * m \in Int
      BY <2>1, <2>5, <3>1
    <3> QED BY <2>4, <3>1, <3>2 DEF Smaller
  <2>7. analyzed[w].to = text
    <3>1. w \in 1..w /\ w * m \in Int
      BY <2>1, <2>2
    <3> QED BY <2>1, <2>2, <2>4, <3>1 DEF Smaller
  <2>8. analyzed[1].from = 0
    <3>1. 1 \in 1..w /\ (1 - 1) * m = 0
      BY <2>1, <2>2
    <3> QED BY <2>4, <3>1
  <2>9. ASSUME text > 0, NEW i \in 1..w PROVE analyzed[i].from < analyzed[i].to
    <3>1. CASE i = w
      BY <2>2, <2>4, <2>7, <2>9, <3>1
    <3>2. CASE i # w
      <4>1. i \in 1..(w - 1)
        BY <2>2, <3>2
      <4>2. (i - 1) * m < i * m
        BY <2>1
      <4> QED BY <2>4, <2>6, <4>1, <4>2
    <3> QED BY <3>1, <3>2
  <2> QED BY <2>3, <2>6, <2>7, <2>8, <2>9
<1> QED BY <1>1, AnalyzerInvHolds, PTL

(***************************************************************************)
(* The fixed windows.                                                      *)
(***************************************************************************)
\* Where the next window begins, and what the last one before it was.
WindowsInv ==
    chunker = "fixed_size" =>
        /\ chunks \in Seq([from : Nat, to : Nat])
        /\ start \in Nat
        /\ verdict = "running" /\ text \in Nat /\ regions = <<>>
        /\ \A n \in DOMAIN chunks : chunks[n].from < chunks[n].to /\ chunks[n].to <= text
        /\ chunks = <<>> => start = 0
        /\ chunks # <<>> =>
              /\ chunks[1].from = 0
              /\ chunks[Len(chunks)].to = Smaller(start + Overlap, text)
              /\ finished => start + Overlap >= text
              /\ ~finished => start + Overlap < text
        /\ finished /\ text > 0 => chunks # <<>>
        /\ \A n \in 1..(Len(chunks) - 1) :
              chunks[n].to - chunks[n + 1].from = Overlap /\ chunks[n].to < text

LEMMA WindowsInvInit == Init => WindowsInv
<1> SUFFICES ASSUME Init PROVE WindowsInv
  OBVIOUS
<1>1. /\ text \in Nat /\ verdict = "running" /\ regions = <<>>
      /\ chunks = <<>> /\ start = 0 /\ ~finished
  BY AnalyzerAssumption DEF Init, AnalyzerInit, AnalyzerAssumption
<1>2. <<>> \in Seq([from : Nat, to : Nat]) /\ Len(<<>>) = 0 /\ DOMAIN <<>> = {}
  OBVIOUS
<1> QED BY <1>1, <1>2 DEF WindowsInv

LEMMA WindowsInvStep == WindowsInv /\ [Next]_vars => WindowsInv'
<1> SUFFICES ASSUME WindowsInv, [Next]_vars PROVE WindowsInv'
  OBVIOUS
<1>1. CASE UNCHANGED <<chunker, chunks, start, verdict, text, regions, finished>>
  BY <1>1 DEF WindowsInv
<1>2. CASE chunker # "fixed_size" /\ chunker' = chunker
  BY <1>2 DEF WindowsInv
<1>3. CASE SlideWindow
  <2>1. /\ chunker = "fixed_size" /\ ~finished
        /\ chunker' = chunker /\ verdict' = verdict /\ text' = text
        /\ regions' = <<>>
    BY <1>3 DEF SlideWindow, analyzerVars, WindowsInv
  <2>2. /\ ChunkSize \in Nat \ {0} /\ Overlap \in Nat /\ Overlap < ChunkSize
        /\ start \in Nat /\ text \in Nat /\ chunks \in Seq([from : Nat, to : Nat])
        /\ verdict = "running"
    BY <2>1, ChunkingAssumption DEF ChunkingAssumption, WindowsInv
  <2>3. CASE text = 0
    <3>1. chunks' = chunks /\ start' = start /\ text' = 0
      BY <1>3, <2>1, <2>3 DEF SlideWindow, Slide
    <3>2. chunks = <<>>
      BY <2>1, <2>2, <2>3 DEF WindowsInv, Smaller
    <3>3. Len(<<>>) = 0 /\ DOMAIN <<>> = {}
      OBVIOUS
    <3> QED BY <2>1, <2>2, <3>1, <3>2, <3>3 DEF WindowsInv
  <2>4. CASE text > 0
    <3> DEFINE end == Smaller(start + ChunkSize, text)
               c == Slice(start, end)
    <3>1. /\ chunks' = Append(chunks, c) /\ start' = start + ChunkSize - Overlap
          /\ finished' = (start + ChunkSize >= text)
      BY <1>3, <2>2, <2>4 DEF SlideWindow, Slide, Emit
    <3>2. start < text
      BY <2>1, <2>2, <2>4 DEF WindowsInv
    <3>3. /\ end \in Nat /\ start < end /\ end <= text
          /\ c \in [from : Nat, to : Nat] /\ c.from = start /\ c.to = end
      BY <2>2, <3>2 DEF Slice, Smaller
    <3>4. start' \in Nat /\ start' + Overlap = start + ChunkSize
      BY <2>2, <3>1
    <3> HIDE DEF c, end
    <3>5. /\ chunks' \in Seq([from : Nat, to : Nat]) /\ chunks' # <<>>
          /\ Len(chunks') = Len(chunks) + 1 /\ Len(chunks) \in Nat
          /\ DOMAIN chunks' = 1..(Len(chunks) + 1)
          /\ \A n \in 1..Len(chunks) : chunks'[n] = chunks[n]
          /\ chunks'[Len(chunks) + 1] = c
      <4> DEFINE S == [from : Nat, to : Nat]
      <4>1. chunks \in Seq(S) /\ c \in S /\ chunks' = Append(chunks, c)
        BY <2>2, <3>1, <3>3
      <4> HIDE DEF S
      <4>2. /\ chunks' \in Seq(S) /\ chunks' # <<>>
            /\ Len(chunks') = Len(chunks) + 1 /\ Len(chunks) \in Nat
            /\ DOMAIN chunks' = 1..(Len(chunks) + 1)
            /\ \A n \in 1..Len(chunks) : chunks'[n] = chunks[n]
            /\ chunks'[Len(chunks) + 1] = c
        <5>1. /\ chunks' \in Seq(S) /\ Len(chunks') = Len(chunks) + 1 /\ Len(chunks) \in Nat
              /\ \A n \in 1..Len(chunks) : chunks'[n] = chunks[n]
              /\ chunks'[Len(chunks) + 1] = c
          BY <4>1
        <5>2. DOMAIN chunks' = 1..(Len(chunks) + 1) /\ chunks' # <<>>
          BY <5>1, LenProperties, EmptySeq
        <5> QED BY <5>1, <5>2
      <4> QED BY <4>2 DEF S
    <3>6. DOMAIN chunks = 1..Len(chunks) /\ (chunks = <<>> <=> Len(chunks) = 0)
      BY <2>2
    <3>7. \A n \in DOMAIN chunks' : chunks'[n].from < chunks'[n].to /\ chunks'[n].to <= text
      BY <2>1, <3>3, <3>5, <3>6 DEF WindowsInv
    <3>8. chunks'[1].from = 0
      BY <2>1, <3>3, <3>5, <3>6 DEF WindowsInv
    <3>9. chunks'[Len(chunks')].to = Smaller(start' + Overlap, text)
      BY <3>3, <3>4, <3>5 DEF end
    <3>10. ASSUME NEW n \in 1..(Len(chunks') - 1)
           PROVE  chunks'[n].to - chunks'[n + 1].from = Overlap /\ chunks'[n].to < text
      <4>1. CASE n = Len(chunks)
        <5>1. chunks'[n] = chunks[Len(chunks)] /\ chunks'[n + 1] = c /\ chunks # <<>>
          BY <3>5, <3>6, <3>10, <4>1
        <5>2. chunks[Len(chunks)].to = Smaller(start + Overlap, text) /\ start + Overlap < text
          BY <2>1, <5>1 DEF WindowsInv
        <5>3. chunks[Len(chunks)].to = start + Overlap
          BY <2>2, <5>2 DEF Smaller
        <5> QED BY <2>2, <3>3, <5>1, <5>2, <5>3
      <4>2. CASE n # Len(chunks)
        <5>1. n \in 1..(Len(chunks) - 1) /\ chunks'[n] = chunks[n] /\ chunks'[n + 1] = chunks[n + 1]
          BY <3>5, <3>10, <4>2
        <5> QED BY <2>1, <5>1 DEF WindowsInv
      <4> QED BY <4>1, <4>2
    <3>11. (finished' => start' + Overlap >= text) /\ (~finished' => start' + Overlap < text)
      <4>1. start + ChunkSize >= text <=> start' + Overlap >= text
        BY <3>4
      <4>2. ~(start + ChunkSize >= text) => start' + Overlap < text
        <5>1. start + ChunkSize \in Int /\ text \in Int
          BY <2>2
        <5>2. ~(start + ChunkSize >= text) => start + ChunkSize < text
          BY <5>1
        <5> QED BY <3>4, <5>2
      <4>3. finished' <=> (start + ChunkSize >= text)
        BY <3>1, Zenon
      <4> QED BY <4>1, <4>2, <4>3, Zenon
    <3> QED BY <2>1, <2>2, <3>4, <3>5, <3>7, <3>8, <3>9, <3>10, <3>11 DEF WindowsInv
  <2> QED BY <2>2, <2>3, <2>4
<1>4. CASE AnalyzePage \/ SplitRegion
  BY <1>2, <1>4 DEF AnalyzePage, SplitRegion, chunkerVars
<1> QED BY <1>1, <1>3, <1>4 DEF Next, vars, analyzerVars, chunkerVars

LEMMA WindowsInvHolds == Spec => []WindowsInv
BY WindowsInvInit, WindowsInvStep, PTL DEF Spec

\* The fixed windows cover any text, with any size and overlap.
THEOREM WindowsCoverHolds == Spec => []WindowsCover
<1>1. WindowsInv => WindowsCover
  <2> SUFFICES ASSUME WindowsInv, chunker = "fixed_size", finished, text > 0
               PROVE  /\ chunks[1].from = 0
                      /\ chunks[Len(chunks)].to = text
                      /\ \A n \in 1..(Len(chunks) - 1) :
                            /\ chunks[n].to - chunks[n + 1].from = Overlap
                            /\ chunks[n].to < text
    BY DEF WindowsCover
  <2>1. chunks # <<>> /\ start \in Nat /\ text \in Nat /\ Overlap \in Nat
    BY ChunkingAssumption DEF WindowsInv, ChunkingAssumption
  <2>2. chunks[Len(chunks)].to = text
    BY <2>1 DEF WindowsInv, Smaller
  <2> QED BY <2>1, <2>2 DEF WindowsInv
<1> QED BY <1>1, WindowsInvHolds, PTL


(***************************************************************************)
(* The pieces of a region.                                                 *)
(***************************************************************************)
\* Every sentence but the last has text in it, and the sentences joined are no
\* longer than the region.
LEMMA RegionFacts ==
    ASSUME NEW r \in Region
    PROVE  /\ Len(r.ends) \in Nat \ {0} /\ DOMAIN r.ends = 1..Len(r.ends)
           /\ \A i \in DOMAIN r.ends : r.ends[i] \in Nat /\ Start(r, i) \in Nat
           /\ ~Blank(r, 1)
           /\ \A i \in DOMAIN r.ends : i < Len(r.ends) => ~Blank(r, i)
           /\ Joined(r, 1, Len(r.ends)) <= r.chars
<1> DEFINE n == Len(r.ends)
<1>1. /\ r.ends \in Seq(Nat \ {0}) /\ r.ends # <<>>
      /\ \A i, j \in DOMAIN r.ends : i < j =>
            r.ends[j] > r.ends[i] + (IF j = n THEN 0 ELSE 1)
      /\ r.chars \in Nat /\ r.ends[n] <= r.chars /\ r.lead \in Nat /\ r.trail \in Nat
  BY RegionAssumption DEF RegionAssumption
<1>2. n \in Nat \ {0} /\ DOMAIN r.ends = 1..n
  BY <1>1, LenProperties, EmptySeq
<1>3. \A i \in 1..n : r.ends[i] \in Nat \ {0}
  BY <1>1, <1>2, ElementOfSeq
<1>4. \A i \in 1..n : Start(r, i) \in Nat
  BY <1>2, <1>3 DEF Start
<1>5. ~Blank(r, 1)
  BY <1>2, <1>3 DEF Blank, Start
<1>6. ASSUME NEW i \in 1..n, i < n PROVE ~Blank(r, i)
  <2>1. CASE i = 1
    BY <1>5, <2>1
  <2>2. CASE i # 1
    <3>1. i - 1 \in 1..n /\ i - 1 < i /\ i # n
      BY <1>2, <1>6, <2>2
    <3>2. r.ends[i] > r.ends[i - 1] + 1
      BY <1>1, <1>2, <3>1
    <3> QED BY <1>3, <2>2, <3>1, <3>2 DEF Blank, Start
  <2> QED BY <2>1, <2>2
<1>7. Joined(r, 1, n) <= r.chars
  <2>1. r.ends[n] \in Nat
    BY <1>2, <1>3
  <2> QED BY <1>1, <2>1 DEF Joined, Start
<1> QED BY <1>2, <1>3, <1>4, <1>5, <1>6, <1>7

Pieces == [region : Nat, first : Nat, last : Nat]

Carries(c, k, i) == c.region = k /\ i \in c.first .. c.last

\* The chunks cs lie in the regions rs, before sentence f of region k.
Placed(rs, cs, k, f) ==
    \A n \in DOMAIN cs :
        /\ cs[n].region \in DOMAIN rs
        /\ 1 <= cs[n].first /\ cs[n].last <= Len(rs[cs[n].region].ends)
        /\ cs[n].region < k \/ (cs[n].region = k /\ cs[n].last < f)

InOrder(cs) ==
    \A m, n \in DOMAIN cs : m < n =>
        cs[m].region < cs[n].region \/ (cs[m].region = cs[n].region /\ cs[m].last < cs[n].first)

\* Every sentence before sentence f of region k that is not blank is in a chunk.
Covered(rs, cs, k, f) ==
    \A j \in DOMAIN rs : \A i \in DOMAIN rs[j].ends :
        j < k \/ (j = k /\ i < f) => Blank(rs[j], i) \/ \E n \in DOMAIN cs : Carries(cs[n], j, i)

Laid(rs, cs, k, f) == Placed(rs, cs, k, f) /\ InOrder(cs) /\ Covered(rs, cs, k, f)

\* A piece is laid where the last one ended.
LEMMA LaidAppend ==
    ASSUME NEW rs \in Seq(Region), NEW cs \in Seq(Pieces), NEW k \in DOMAIN rs,
           NEW f \in Nat \ {0}, NEW b \in Nat, b <= Len(rs[k].ends), f <= b + 1,
           Laid(rs, cs, k, f)
    PROVE  Laid(rs, Append(cs, Piece(k, f, b)), k, b + 1)
<1> DEFINE c == Piece(k, f, b)
           ds == Append(cs, c)
<1>1. /\ c \in Pieces /\ c.region = k /\ c.first = f /\ c.last = b /\ k \in Nat
  BY DEF Piece, Pieces
<1> HIDE DEF c
<1>2. /\ Len(cs) \in Nat /\ DOMAIN cs = 1..Len(cs)
      /\ DOMAIN ds = 1..(Len(cs) + 1)
      /\ \A n \in 1..Len(cs) : ds[n] = cs[n]
      /\ ds[Len(cs) + 1] = c
  <2> DEFINE P == Pieces
  <2>1. cs \in Seq(P) /\ c \in P
    BY <1>1
  <2> HIDE DEF P
  <2>2. /\ ds \in Seq(P) /\ Len(ds) = Len(cs) + 1 /\ Len(cs) \in Nat
        /\ \A n \in 1..Len(cs) : ds[n] = cs[n]
        /\ ds[Len(cs) + 1] = c
    BY <2>1
  <2> QED BY <2>1, <2>2, LenProperties
<1> HIDE DEF ds
<1>3. \A n \in DOMAIN cs : cs[n] \in Pieces
  BY ElementOfSeq, <1>2
<1>4. Placed(rs, ds, k, b + 1)
  <2> SUFFICES ASSUME NEW n \in DOMAIN ds
               PROVE  /\ ds[n].region \in DOMAIN rs
                      /\ 1 <= ds[n].first /\ ds[n].last <= Len(rs[ds[n].region].ends)
                      /\ ds[n].region < k \/ (ds[n].region = k /\ ds[n].last < b + 1)
    BY DEF Placed
  <2>1. CASE n = Len(cs) + 1
    BY <1>1, <1>2, <2>1
  <2>2. CASE n # Len(cs) + 1
    <3>1. n \in DOMAIN cs /\ ds[n] = cs[n] /\ cs[n].last \in Nat
      BY <1>2, <1>3, <2>2 DEF Pieces
    <3> QED BY <3>1 DEF Laid, Placed
  <2> QED BY <2>1, <2>2
<1>5. InOrder(ds)
  <2> SUFFICES ASSUME NEW m \in DOMAIN ds, NEW n \in DOMAIN ds, m < n
               PROVE  \/ ds[m].region < ds[n].region
                      \/ ds[m].region = ds[n].region /\ ds[m].last < ds[n].first
    BY DEF InOrder
  <2>1. m \in DOMAIN cs /\ ds[m] = cs[m]
    BY <1>2
  <2>2. CASE n = Len(cs) + 1
    BY <1>1, <1>2, <2>1, <2>2 DEF Laid, Placed
  <2>3. CASE n # Len(cs) + 1
    <3>1. n \in DOMAIN cs /\ ds[n] = cs[n]
      BY <1>2, <2>3
    <3> QED BY <2>1, <3>1 DEF Laid, InOrder
  <2> QED BY <2>2, <2>3
<1>6. Covered(rs, ds, k, b + 1)
  <2> SUFFICES ASSUME NEW j \in DOMAIN rs, NEW i \in DOMAIN rs[j].ends,
                      j < k \/ (j = k /\ i < b + 1), ~Blank(rs[j], i)
               PROVE  \E n \in DOMAIN ds : Carries(ds[n], j, i)
    BY DEF Covered
  <2>1. i \in Nat /\ j \in Nat
    BY ElementOfSeq, LenProperties, RegionFacts
  <2>2. CASE j < k \/ (j = k /\ i < f)
    <3>1. PICK n \in DOMAIN cs : Carries(cs[n], j, i)
      BY <2>2 DEF Laid, Covered
    <3> QED BY <1>2, <3>1
  <2>3. CASE j = k /\ i >= f
    <3>1. Len(cs) + 1 \in DOMAIN ds /\ ds[Len(cs) + 1] = c
      BY <1>2
    <3>2. Carries(c, j, i)
      BY <1>1, <2>1, <2>3 DEF Carries
    <3> QED BY <3>1, <3>2
  <2> QED BY <2>1, <2>2, <2>3
<1> QED BY <1>4, <1>5, <1>6 DEF Laid, ds, c

\* What is blank needs no piece.
LEMMA LaidBlank ==
    ASSUME NEW rs \in Seq(Region), NEW cs \in Seq(Pieces), NEW k \in DOMAIN rs,
           NEW f \in Nat \ {0}, NEW b \in Nat, b <= Len(rs[k].ends), f <= b + 1,
           ~Holds(rs[k], f, b), Laid(rs, cs, k, f)
    PROVE  Laid(rs, cs, k, b + 1)
<1>1. \A n \in DOMAIN cs : cs[n] \in Pieces
  BY ElementOfSeq, LenProperties
<1>2. Placed(rs, cs, k, b + 1)
  BY <1>1 DEF Laid, Placed, Pieces
<1>3. Covered(rs, cs, k, b + 1)
  <2> SUFFICES ASSUME NEW j \in DOMAIN rs, NEW i \in DOMAIN rs[j].ends,
                      j < k \/ (j = k /\ i < b + 1), ~Blank(rs[j], i)
               PROVE  \E n \in DOMAIN cs : Carries(cs[n], j, i)
    BY DEF Covered
  <2>1. i \in Nat
    BY ElementOfSeq, LenProperties, RegionFacts
  <2>2. ASSUME j = k, i >= f PROVE FALSE
    BY <2>1, <2>2 DEF Holds
  <2>3. j < k \/ (j = k /\ i < f)
    BY <2>1, <2>2
  <2> QED BY <2>3 DEF Laid, Covered
<1> QED BY <1>2, <1>3 DEF Laid

\* Past the end of a region is before the next one.
LEMMA LaidNext ==
    ASSUME NEW rs \in Seq(Region), NEW cs \in Seq(Pieces), NEW k \in DOMAIN rs,
           Laid(rs, cs, k, Len(rs[k].ends) + 1)
    PROVE  Laid(rs, cs, k + 1, 1)
<1>1. /\ DOMAIN rs = 1..Len(rs) /\ Len(rs) \in Nat
      /\ \A n \in DOMAIN cs : cs[n] \in Pieces
      /\ \A j \in DOMAIN rs : DOMAIN rs[j].ends = 1..Len(rs[j].ends) /\ Len(rs[j].ends) \in Nat
  BY ElementOfSeq, LenProperties, RegionFacts
<1>2. Placed(rs, cs, k + 1, 1)
  <2> SUFFICES ASSUME NEW n \in DOMAIN cs
               PROVE  /\ cs[n].region \in DOMAIN rs
                      /\ 1 <= cs[n].first /\ cs[n].last <= Len(rs[cs[n].region].ends)
                      /\ cs[n].region < k + 1
    BY DEF Placed
  <2>1. /\ cs[n].region \in DOMAIN rs
        /\ 1 <= cs[n].first /\ cs[n].last <= Len(rs[cs[n].region].ends)
        /\ cs[n].region < k \/ cs[n].region = k
    BY DEF Laid, Placed
  <2>2. cs[n].region \in Nat /\ k \in Nat
    BY <1>1, <2>1
  <2> QED BY <2>1, <2>2
<1>3. Covered(rs, cs, k + 1, 1)
  <2> SUFFICES ASSUME NEW j \in DOMAIN rs, NEW i \in DOMAIN rs[j].ends, j < k + 1 \/ (j = k + 1 /\ i < 1)
               PROVE  Blank(rs[j], i) \/ \E n \in DOMAIN cs : Carries(cs[n], j, i)
    BY DEF Covered
  <2>0. j \in Nat /\ i \in Nat \ {0} /\ k \in Nat /\ j <= k
    BY <1>1
  <2>1. j < k \/ (j = k /\ i < Len(rs[k].ends) + 1)
    BY <1>1, <2>0
  <2> QED BY <2>1 DEF Laid, Covered
<1> QED BY <1>2, <1>3 DEF Laid

(***************************************************************************)
(* HybridChunker.                                                          *)
(***************************************************************************)
\* Where the loops are, and what they have laid so far. A region that is short
\* enough is never begun, so EmitWhole lays it from its first sentence.
HybridInv ==
    chunker = "hybrid" =>
        /\ chunks \in Seq(Pieces)
        /\ region \in Nat \ {0} /\ first \in Nat \ {0} /\ next \in Nat \ {0} /\ first <= next
        /\ region <= Len(regions) + 1
        /\ verdict # "structured" =>
              chunks = <<>> /\ region = 1 /\ first = 1 /\ next = 1 /\ ~finished
        /\ region \in DOMAIN regions =>
              /\ next <= Len(regions[region].ends) + 1
              /\ regions[region].chars <= MaxChunkChars => first = 1
        /\ finished => region > Len(regions)
        /\ Laid(regions, chunks, region, first)

LEMMA HybridInvInit == Init => HybridInv
<1> SUFFICES ASSUME Init PROVE HybridInv
  OBVIOUS
<1>1. /\ finished = FALSE /\ chunks = <<>>
      /\ region = 1 /\ first = 1 /\ next = 1 /\ regions = <<>> /\ verdict = "running"
  BY DEF Init, AnalyzerInit
<1>2. <<>> \in Seq(Pieces) /\ DOMAIN <<>> = {} /\ Len(<<>>) = 0
  OBVIOUS
<1>3. Laid(regions, chunks, region, first)
  BY <1>1, <1>2 DEF Laid, Placed, InOrder, Covered
<1> QED BY <1>1, <1>2, <1>3 DEF HybridInv

\* As long as the analyzer is at work, nothing is laid.
LEMMA HybridInvAnalyze == AnalyzerInv /\ AnalyzerInv' /\ HybridInv /\ AnalyzePage => HybridInv'
<1> SUFFICES ASSUME AnalyzerInv, AnalyzerInv', HybridInv, AnalyzePage PROVE HybridInv'
  OBVIOUS
<1>1. /\ chunker = "hybrid" /\ verdict = "running" /\ UNCHANGED chunkerVars
  BY DEF AnalyzePage, Call, Accept, Retry, Escape
<1>2. /\ chunks = <<>> /\ region = 1 /\ first = 1 /\ next = 1 /\ ~finished
      /\ chunks \in Seq(Pieces)
  BY <1>1 DEF HybridInv
<1>3. /\ chunker' = "hybrid" /\ chunks' = <<>> /\ region' = 1 /\ first' = 1 /\ next' = 1
      /\ ~finished' /\ chunks' \in Seq(Pieces)
  BY <1>1, <1>2 DEF chunkerVars
<1>4. regions' \in Seq(Region)
  BY DEF AnalyzerInv
<1>5. /\ Len(regions') \in Nat
      /\ \A j \in DOMAIN regions' :
            Len(regions'[j].ends) \in Nat /\ DOMAIN regions'[j].ends \subseteq Nat \ {0} /\ j >= 1
  BY <1>4, ElementOfSeq, LenProperties, RegionFacts
<1>6. Laid(regions', chunks', region', first')
  <2>1. DOMAIN chunks' = {}
    BY <1>3
  <2>2. Placed(regions', chunks', 1, 1) /\ InOrder(chunks')
    BY <2>1 DEF Placed, InOrder
  <2>3. Covered(regions', chunks', 1, 1)
    BY <1>5 DEF Covered
  <2> QED BY <1>3, <2>2, <2>3 DEF Laid
<1> QED BY <1>3, <1>5, <1>6 DEF HybridInv

LEMMA HybridInvSplit == AnalyzerInv /\ HybridInv /\ SplitRegion => HybridInv'
<1> SUFFICES ASSUME AnalyzerInv, HybridInv, SplitRegion PROVE HybridInv'
  OBVIOUS
<1>1. /\ chunker = "hybrid" /\ verdict = "structured" /\ ~finished
      /\ chunker' = chunker /\ verdict' = verdict /\ regions' = regions
  BY DEF SplitRegion, analyzerVars
<1>2. /\ chunks \in Seq(Pieces)
      /\ region \in Nat \ {0} /\ first \in Nat \ {0} /\ next \in Nat \ {0} /\ first <= next
      /\ region <= Len(regions) + 1
      /\ region \in DOMAIN regions =>
            /\ next <= Len(regions[region].ends) + 1
            /\ regions[region].chars <= MaxChunkChars => first = 1
      /\ Laid(regions, chunks, region, first)
  BY <1>1 DEF HybridInv
<1>3. regions \in Seq(Region)
  BY DEF AnalyzerInv
<1>4. /\ DOMAIN regions = 1..Len(regions) /\ Len(regions) \in Nat
      /\ \A j \in DOMAIN regions : Len(regions[j].ends) \in Nat
  BY <1>3, ElementOfSeq, LenProperties, RegionFacts
<1>5. CASE region > Len(regions)
  <2>1. finished' = TRUE /\ UNCHANGED <<chunks, region, first, next>>
    BY <1>5 DEF SplitRegion
  <2> QED BY <1>1, <1>2, <1>4, <1>5, <2>1 DEF HybridInv
<1>6. CASE ~(region > Len(regions))
  <2>1. region \in DOMAIN regions /\ Len(regions[region].ends) \in Nat
    BY <1>2, <1>4, <1>6
  <2>2. ~finished'
    BY <1>1, <1>6 DEF SplitRegion
  <2>3. ASSUME NEW b \in Nat, b <= Len(regions[region].ends), first <= b + 1,
               \/ chunks' = Append(chunks, Piece(region, first, b))
               \/ ~Holds(regions[region], first, b) /\ chunks' = chunks
        PROVE  chunks' \in Seq(Pieces) /\ Laid(regions, chunks', region, b + 1)
    <3>1. CASE chunks' = Append(chunks, Piece(region, first, b))
      <4>1. Piece(region, first, b) \in Pieces
        BY <1>2 DEF Piece, Pieces
      <4>2. chunks' \in Seq(Pieces)
        BY <1>2, <3>1, <4>1, AppendProperties
      <4> QED BY <1>2, <1>3, <2>1, <2>3, <3>1, <4>2, LaidAppend
    <3>2. CASE ~Holds(regions[region], first, b) /\ chunks' = chunks
      BY <1>2, <1>3, <2>1, <2>3, <3>2, LaidBlank
    <3> QED BY <2>3, <3>1, <3>2
  <2>4. ASSUME chunks' \in Seq(Pieces),
               Laid(regions, chunks', region, Len(regions[region].ends) + 1),
               NextRegion(region)
        PROVE  HybridInv'
    <3>1. Laid(regions, chunks', region + 1, 1)
      BY <1>3, <2>1, <2>4, LaidNext
    <3>2. region' = region + 1 /\ first' = 1 /\ next' = 1
      BY <2>4 DEF NextRegion
    <3>3. /\ region' \in DOMAIN regions => next' <= Len(regions[region'].ends) + 1
          /\ region' <= Len(regions) + 1
      BY <1>4, <2>1, <3>2
    <3> QED BY <1>1, <1>2, <2>2, <2>4, <3>1, <3>2, <3>3 DEF HybridInv
  <2>5. CASE regions[region].chars <= MaxChunkChars
    <3>1. EmitWhole(region)
      BY <1>6, <2>5 DEF SplitRegion
    <3>2. first = 1 /\ first <= Len(regions[region].ends) + 1
      BY <1>2, <2>1, <2>5
    <3>3. chunks' = Append(chunks, Piece(region, first, Len(regions[region].ends)))
      BY <3>1, <3>2 DEF EmitWhole, Emit
    <3>4. chunks' \in Seq(Pieces) /\ Laid(regions, chunks', region, Len(regions[region].ends) + 1)
      BY <2>1, <2>3, <3>2, <3>3
    <3> QED BY <2>4, <3>1, <3>4 DEF EmitWhole
  <2>6. CASE ~(regions[region].chars <= MaxChunkChars) /\ TakeSentence(region)
    <3>1. next <= Len(regions[region].ends) /\ next' = next + 1 /\ region' = region
      BY <2>6 DEF TakeSentence
    <3>2. CASE UNCHANGED <<chunks, first>>
      BY <1>1, <1>2, <2>1, <2>2, <2>6, <3>1, <3>2 DEF HybridInv
    <3>3. CASE /\ first' = next
               /\ IF Holds(regions[region], first, next - 1)
                  THEN Emit(Piece(region, first, next - 1)) ELSE UNCHANGED chunks
      <4>1. next - 1 \in Nat /\ next - 1 <= Len(regions[region].ends) /\ first <= (next - 1) + 1
        BY <1>2, <2>1, <3>1
      <4>2. chunks' \in Seq(Pieces) /\ Laid(regions, chunks', region, (next - 1) + 1)
        BY <2>3, <3>3, <4>1 DEF Emit
      <4>3. (next - 1) + 1 = first'
        BY <1>2, <3>3
      <4> QED BY <1>1, <1>2, <2>1, <2>2, <2>6, <3>1, <3>3, <4>2, <4>3 DEF HybridInv
    <3> QED BY <2>6, <3>2, <3>3 DEF TakeSentence
  <2>7. CASE EmitRest(region)
    <3>1. next = Len(regions[region].ends) + 1
      BY <1>2, <2>1, <2>7 DEF EmitRest
    <3>2. next - 1 \in Nat /\ next - 1 = Len(regions[region].ends) /\ first <= (next - 1) + 1
      BY <1>2, <2>1, <3>1
    <3>3. chunks' \in Seq(Pieces) /\ Laid(regions, chunks', region, (next - 1) + 1)
      BY <2>1, <2>3, <2>7, <3>2 DEF EmitRest, Emit
    <3> QED BY <2>4, <2>7, <3>2, <3>3 DEF EmitRest
  <2> QED BY <1>6, <2>5, <2>6, <2>7 DEF SplitRegion
<1> QED BY <1>5, <1>6

LEMMA HybridInvStep == AnalyzerInv /\ AnalyzerInv' /\ HybridInv /\ [Next]_vars => HybridInv'
<1> SUFFICES ASSUME AnalyzerInv, AnalyzerInv', HybridInv, [Next]_vars PROVE HybridInv'
  OBVIOUS
<1>1. CASE UNCHANGED vars
  BY <1>1 DEF HybridInv, vars, analyzerVars, chunkerVars
<1>2. CASE SlideWindow
  BY <1>2 DEF SlideWindow, HybridInv
<1> QED BY <1>1, <1>2, HybridInvAnalyze, HybridInvSplit DEF Next

LEMMA HybridInvHolds == Spec => []HybridInv
BY HybridInvInit, HybridInvStep, AnalyzerInvHolds, PTL DEF Spec

\* Nothing is lost, doubled or reordered, for any regions and any cap.
THEOREM NothingLostHolds == Spec => []NothingLost
<1>1. AnalyzerInv /\ HybridInv => NothingLost
  <2> SUFFICES ASSUME AnalyzerInv, HybridInv, chunker = "hybrid", finished
               PROVE  /\ \A k \in DOMAIN regions : \A i \in DOMAIN regions[k].ends :
                            Cardinality({n \in DOMAIN chunks :
                                chunks[n].region = k /\ i \in chunks[n].first .. chunks[n].last})
                            = 1 \/ Blank(regions[k], i)
                      /\ \A m, n \in DOMAIN chunks : m < n =>
                            \/ chunks[m].region < chunks[n].region
                            \/ /\ chunks[m].region = chunks[n].region
                               /\ chunks[m].last < chunks[n].first
    BY DEF NothingLost
  <2>1. InOrder(chunks) /\ Covered(regions, chunks, region, first) /\ region > Len(regions)
    BY DEF HybridInv, Laid
  <2>2. chunks \in Seq(Pieces) /\ region \in Nat
    BY DEF HybridInv
  <2>3. ASSUME NEW k \in DOMAIN regions, NEW i \in DOMAIN regions[k].ends, ~Blank(regions[k], i)
        PROVE  Cardinality({n \in DOMAIN chunks :
                   chunks[n].region = k /\ i \in chunks[n].first .. chunks[n].last}) = 1
    <3>1. k < region
      BY <2>1, <2>2, LenProperties DEF AnalyzerInv
    <3>2. PICK n \in DOMAIN chunks : Carries(chunks[n], k, i)
      BY <2>1, <2>3, <3>1 DEF Covered
    <3>3. ASSUME NEW m \in DOMAIN chunks, Carries(chunks[m], k, i) PROVE m = n
      <4>1. m \in Nat /\ n \in Nat /\ chunks[m] \in Pieces /\ chunks[n] \in Pieces
        BY <2>2, ElementOfSeq, LenProperties
      <4>2. ~(m < n)
        BY <2>1, <3>2, <3>3, <4>1 DEF InOrder, Carries, Pieces
      <4>3. ~(n < m)
        BY <2>1, <3>2, <3>3, <4>1 DEF InOrder, Carries, Pieces
      <4> QED BY <4>1, <4>2, <4>3
    <3>4. {m \in DOMAIN chunks : chunks[m].region = k /\ i \in chunks[m].first .. chunks[m].last} = {n}
      BY <3>2, <3>3 DEF Carries
    <3> QED BY <3>4, FS_Singleton
  <2> QED BY <2>1, <2>3 DEF InOrder
<1> QED BY <1>1, AnalyzerInvHolds, HybridInvHolds, PTL

(***************************************************************************)
(* The sizes of the chunks.                                                *)
(***************************************************************************)
\* What a chunk, and `current`, may be: not too long unless it is one sentence.
Fits(r, a, b) == Joined(r, a, b) <= MaxChunkChars \/ a = b

\* Sentence f of region k would have been too much for chunk c.
Full(rs, c, k, f) == c.region = k => Joined(rs[k], c.first, f) > MaxChunkChars

\* ChunksFit and ChunksAreFull.
Packed(rs, cs) ==
    /\ \A n \in DOMAIN cs :
          /\ Holds(rs[cs[n].region], cs[n].first, cs[n].last)
          /\ Fits(rs[cs[n].region], cs[n].first, cs[n].last)
    /\ \A n \in 1..(Len(cs) - 1) : Full(rs, cs[n], cs[n + 1].region, cs[n + 1].first)

\* Besides, `current` fits, and what it starts with did not fit into the last
\* chunk.
SizesInv ==
    chunker = "hybrid" =>
        /\ Packed(regions, chunks)
        /\ region \in DOMAIN regions /\ first < next => Fits(regions[region], first, next - 1)
        /\ chunks # <<>> => Full(regions, chunks[Len(chunks)], region, first)

LEMMA SizesInvInit == Init => SizesInv
<1> SUFFICES ASSUME Init PROVE SizesInv
  OBVIOUS
<1>1. chunks = <<>> /\ regions = <<>> /\ DOMAIN <<>> = {} /\ Len(<<>>) = 0
  BY DEF Init, AnalyzerInit
<1> QED BY <1>1 DEF SizesInv, Packed

\* A piece that fits and begins with what did not fit into the one before it.
LEMMA PackedAppend ==
    ASSUME NEW rs, NEW cs \in Seq(Pieces), NEW k \in Nat, NEW f \in Nat, NEW b \in Nat,
           Packed(rs, cs), Holds(rs[k], f, b), Fits(rs[k], f, b),
           cs # <<>> => Full(rs, cs[Len(cs)], k, f)
    PROVE  LET ds == Append(cs, Piece(k, f, b))
           IN  /\ Packed(rs, ds)
               /\ ds # <<>> /\ ds[Len(ds)].region = k /\ ds[Len(ds)].first = f
<1> DEFINE c == Piece(k, f, b)
           ds == Append(cs, c)
<1>1. c \in Pieces /\ c.region = k /\ c.first = f /\ c.last = b
  BY DEF Piece, Pieces
<1> HIDE DEF c
<1>2. /\ Len(cs) \in Nat /\ DOMAIN cs = 1..Len(cs) /\ (cs = <<>> <=> Len(cs) = 0)
      /\ Len(ds) = Len(cs) + 1 /\ DOMAIN ds = 1..(Len(cs) + 1) /\ ds # <<>>
      /\ \A n \in 1..Len(cs) : ds[n] = cs[n]
      /\ ds[Len(cs) + 1] = c
  <2> DEFINE P == Pieces
  <2>1. cs \in Seq(P) /\ c \in P
    BY <1>1
  <2> HIDE DEF P
  <2>2. /\ ds \in Seq(P) /\ Len(ds) = Len(cs) + 1 /\ Len(cs) \in Nat
        /\ \A n \in 1..Len(cs) : ds[n] = cs[n]
        /\ ds[Len(cs) + 1] = c
    BY <2>1
  <2> QED BY <2>1, <2>2, LenProperties, EmptySeq
<1> HIDE DEF ds
<1>3. ASSUME NEW n \in DOMAIN ds
      PROVE  /\ Holds(rs[ds[n].region], ds[n].first, ds[n].last)
             /\ Fits(rs[ds[n].region], ds[n].first, ds[n].last)
  <2>1. CASE n = Len(cs) + 1
    BY <1>1, <1>2, <2>1
  <2>2. CASE n # Len(cs) + 1
    BY <1>2, <2>2 DEF Packed
  <2> QED BY <2>1, <2>2
<1>4. ASSUME NEW n \in 1..(Len(ds) - 1)
      PROVE  Full(rs, ds[n], ds[n + 1].region, ds[n + 1].first)
  <2>1. ds[n] = cs[n] /\ n \in 1..Len(cs)
    BY <1>2, <1>4
  <2>2. CASE n = Len(cs)
    BY <1>1, <1>2, <2>1, <2>2
  <2>3. CASE n # Len(cs)
    <3> DEFINE m == Len(cs)
    <3>0. m \in Nat /\ n \in 1..m /\ n # m
      BY <1>2, <2>1, <2>3
    <3>1. n \in 1..(m - 1) /\ n + 1 \in 1..m
      <4> HIDE DEF m
      <4> QED BY <3>0
    <3>2. ds[n + 1] = cs[n + 1]
      BY <1>2, <3>1
    <3> QED BY <2>1, <3>1, <3>2 DEF Packed
  <2> QED BY <2>2, <2>3
<1>5. ds # <<>> /\ ds[Len(ds)].region = k /\ ds[Len(ds)].first = f
  BY <1>1, <1>2
<1> QED BY <1>3, <1>4, <1>5 DEF Packed, ds, c

LEMMA SizesInvSplit == AnalyzerInv /\ HybridInv /\ SizesInv /\ SplitRegion => SizesInv'
<1> SUFFICES ASSUME AnalyzerInv, HybridInv, SizesInv, SplitRegion PROVE SizesInv'
  OBVIOUS
<1>1. chunker = "hybrid" /\ chunker' = chunker /\ regions' = regions
  BY DEF SplitRegion, analyzerVars
<1>2. /\ chunks \in Seq(Pieces)
      /\ region \in Nat \ {0} /\ first \in Nat \ {0} /\ next \in Nat \ {0} /\ first <= next
      /\ region \in DOMAIN regions =>
            /\ next <= Len(regions[region].ends) + 1
            /\ regions[region].chars <= MaxChunkChars => first = 1
      /\ Placed(regions, chunks, region, first)
  BY <1>1 DEF HybridInv, Laid
<1>3. /\ Packed(regions, chunks)
      /\ region \in DOMAIN regions /\ first < next => Fits(regions[region], first, next - 1)
      /\ chunks # <<>> => Full(regions, chunks[Len(chunks)], region, first)
  BY <1>1 DEF SizesInv
<1>4. regions \in Seq(Region) /\ DOMAIN regions = 1..Len(regions) /\ Len(regions) \in Nat
  BY LenProperties DEF AnalyzerInv
<1>5. CASE region > Len(regions)
  <2>1. UNCHANGED <<chunks, region, first, next>>
    BY <1>5 DEF SplitRegion
  <2> QED BY <1>1, <1>3, <2>1 DEF SizesInv
<1>6. CASE ~(region > Len(regions))
  <2> DEFINE r == regions[region]
             n == Len(r.ends)
  <2>1. region \in DOMAIN regions /\ r \in Region
    BY <1>2, <1>4, <1>6, ElementOfSeq
  <2>2. /\ n \in Nat \ {0} /\ DOMAIN r.ends = 1..n
        /\ \A i \in DOMAIN r.ends : r.ends[i] \in Nat /\ Start(r, i) \in Nat
        /\ ~Blank(r, 1)
        /\ \A i \in DOMAIN r.ends : i < n => ~Blank(r, i)
        /\ Joined(r, 1, n) <= r.chars
    BY <2>1, RegionFacts
  <2>3. ASSUME NEW b \in Nat, Holds(r, first, b), Fits(r, first, b),
               chunks' = Append(chunks, Piece(region, first, b))
        PROVE  /\ Packed(regions, chunks')
               /\ chunks' # <<>> /\ chunks'[Len(chunks')].region = region
               /\ chunks'[Len(chunks')].first = first
    <3>1. region \in Nat /\ first \in Nat
      BY <1>2
    <3>2. /\ Packed(regions, chunks) /\ Holds(regions[region], first, b)
          /\ Fits(regions[region], first, b)
          /\ chunks # <<>> => Full(regions, chunks[Len(chunks)], region, first)
      BY <1>3, <2>3
    <3> QED BY <1>2, <2>3, <3>1, <3>2, PackedAppend
  <2>4. ASSUME NextRegion(region), Packed(regions, chunks'),
               chunks' # <<>> => chunks'[Len(chunks')].region <= region,
               chunks' # <<>> => chunks'[Len(chunks')].region \in Nat
        PROVE  SizesInv'
    <3>1. region' = region + 1 /\ first' = 1 /\ next' = 1
      BY <2>4 DEF NextRegion
    <3>2. chunks' # <<>> => Full(regions, chunks'[Len(chunks')], region', first')
      BY <1>2, <2>4, <3>1 DEF Full
    <3> QED BY <1>1, <2>4, <3>1, <3>2 DEF SizesInv
  <2>5. chunks # <<>> => /\ chunks[Len(chunks)].region <= region
                         /\ chunks[Len(chunks)].region \in Nat
    <3>1. SUFFICES ASSUME chunks # <<>> PROVE /\ chunks[Len(chunks)].region <= region
                                              /\ chunks[Len(chunks)].region \in Nat
      OBVIOUS
    <3>2. Len(chunks) \in DOMAIN chunks /\ chunks[Len(chunks)] \in Pieces
      BY <1>2, <3>1, LenProperties, EmptySeq, ElementOfSeq
    <3>3. chunks[Len(chunks)].region < region \/ chunks[Len(chunks)].region = region
      BY <1>2, <3>2 DEF Placed
    <3> QED BY <1>2, <3>2, <3>3 DEF Pieces
  <2>6. CASE r.chars <= MaxChunkChars
    <3>1. EmitWhole(region)
      BY <1>6, <2>6 DEF SplitRegion
    <3>2. first = 1 /\ chunks' = Append(chunks, Piece(region, first, n)) /\ NextRegion(region)
      BY <1>2, <2>1, <2>6, <3>1 DEF EmitWhole, Emit
    <3>3. Holds(r, first, n)
      BY <2>2, <3>2 DEF Holds
    <3>4. r.chars \in Nat /\ Joined(r, 1, n) \in Int
      <4>1. r.chars \in Nat /\ r.lead \in Nat /\ r.trail \in Nat
        BY <2>1, RegionAssumption DEF RegionAssumption
      <4>2. r.ends[n] \in Nat /\ Start(r, 1) \in Nat
        BY <2>2
      <4> QED BY <4>1, <4>2 DEF Joined
    <3>5. Fits(r, first, n)
      BY <2>2, <2>6, <3>2, <3>4, ChunkingAssumption DEF Fits, ChunkingAssumption
    <3>6. n \in Nat
      BY <2>2
    <3> HIDE DEF n, r
    <3>7. /\ Packed(regions, chunks')
          /\ chunks' # <<>> /\ chunks'[Len(chunks')].region = region
      BY <2>3, <3>2, <3>3, <3>5, <3>6
    <3> QED BY <1>2, <2>4, <3>2, <3>7
  <2>7. CASE ~(r.chars <= MaxChunkChars) /\ TakeSentence(region)
    <3>1. next <= n /\ next' = next + 1 /\ region' = region
      BY <2>7 DEF TakeSentence
    <3>2. next \in DOMAIN r.ends /\ first \in DOMAIN r.ends
      BY <1>2, <2>2, <3>1
    <3>3. CASE Joined(r, first, next) <= MaxChunkChars
      <4>1. UNCHANGED <<chunks, first>>
        BY <2>7, <3>3 DEF TakeSentence
      <4>2. Fits(r, first, next)
        BY <3>3 DEF Fits
      <4>3. next' - 1 = next
        BY <1>2, <3>1
      <4> QED BY <1>1, <1>3, <3>1, <4>1, <4>2, <4>3 DEF SizesInv
    <3>4. CASE ~(Joined(r, first, next) <= MaxChunkChars)
      <4>1. /\ first' = next
            /\ IF Holds(r, first, next - 1)
               THEN chunks' = Append(chunks, Piece(region, first, next - 1)) ELSE UNCHANGED chunks
        BY <2>7, <3>4 DEF TakeSentence, Emit
      <4>2. next' - 1 = first' /\ Fits(r, first', next' - 1)
        BY <1>2, <3>1, <4>1 DEF Fits
      <4>3. Joined(r, first, next) > MaxChunkChars
        <5>1. Joined(r, first, next) \in Int
          <6>1. r.lead \in Nat /\ r.trail \in Nat
            BY <2>1, RegionAssumption DEF RegionAssumption
          <6> QED BY <2>2, <3>2, <6>1 DEF Joined
        <5> QED BY <3>4, <5>1, ChunkingAssumption DEF ChunkingAssumption
      <4>4. CASE Holds(r, first, next - 1)
        <5>1. first < next /\ next - 1 \in Nat
          BY <1>2, <4>4 DEF Holds
        <5>2. Fits(r, first, next - 1)
          BY <1>3, <2>1, <5>1
        <5>3. /\ Packed(regions, chunks')
              /\ chunks' # <<>> /\ chunks'[Len(chunks')].region = region
              /\ chunks'[Len(chunks')].first = first
          BY <2>3, <4>1, <4>4, <5>1, <5>2
        <5>4. Full(regions, chunks'[Len(chunks')], region', first')
          BY <3>1, <4>1, <4>3, <5>3 DEF Full
        <5> QED BY <1>1, <3>1, <4>2, <5>3, <5>4 DEF SizesInv
      <4>5. CASE ~Holds(r, first, next - 1)
        <5>1. first = next
          <6> SUFFICES ASSUME first < next PROVE FALSE
            BY <1>2
          <6>1. first \in first..(next - 1) /\ first < n
            BY <1>2, <2>2, <3>1
          <6>2. ~Blank(r, first)
            BY <2>2, <3>2, <6>1
          <6> QED BY <4>5, <6>1, <6>2 DEF Holds
        <5>2. UNCHANGED <<chunks, first>>
          BY <4>1, <4>5, <5>1
        <5> QED BY <1>1, <1>3, <3>1, <4>2, <5>2 DEF SizesInv
      <4> QED BY <4>4, <4>5
    <3> QED BY <3>3, <3>4
  <2>8. CASE EmitRest(region)
    <3>1. NextRegion(region)
      BY <2>8 DEF EmitRest
    <3>2. CASE Holds(r, first, next - 1)
      <4>1. first < next /\ next - 1 \in Nat
        BY <1>2, <3>2 DEF Holds
      <4>2. Fits(r, first, next - 1)
        BY <1>3, <2>1, <4>1
      <4>3. chunks' = Append(chunks, Piece(region, first, next - 1))
        BY <2>8, <3>2 DEF EmitRest, Emit
      <4>4. /\ Packed(regions, chunks')
            /\ chunks' # <<>> /\ chunks'[Len(chunks')].region = region
        BY <2>3, <3>2, <4>1, <4>2, <4>3
      <4> QED BY <1>2, <2>4, <3>1, <4>4
    <3>3. CASE ~Holds(r, first, next - 1)
      <4>1. chunks' = chunks
        BY <2>8, <3>3 DEF EmitRest
      <4> QED BY <1>3, <2>4, <2>5, <3>1, <4>1
    <3> QED BY <3>2, <3>3
  <2> QED BY <1>6, <2>6, <2>7, <2>8 DEF SplitRegion
<1> QED BY <1>5, <1>6

LEMMA SizesInvStep ==
    AnalyzerInv /\ HybridInv /\ SizesInv /\ [Next]_vars => SizesInv'
<1> SUFFICES ASSUME AnalyzerInv, HybridInv, SizesInv, [Next]_vars PROVE SizesInv'
  OBVIOUS
<1>1. CASE AnalyzePage
  <2>1. verdict = "running" /\ chunker = "hybrid" /\ UNCHANGED chunkerVars
    BY <1>1 DEF AnalyzePage, Call, Accept, Retry, Escape
  <2>2. chunks' = <<>> /\ first' = next' /\ next' = 1
    BY <2>1 DEF HybridInv, chunkerVars
  <2>3. DOMAIN <<>> = {} /\ Len(<<>>) = 0
    OBVIOUS
  <2> QED BY <2>2, <2>3 DEF SizesInv, Packed
<1>2. CASE SlideWindow
  BY <1>2 DEF SlideWindow, SizesInv
<1>3. CASE UNCHANGED vars
  BY <1>3 DEF SizesInv, vars, analyzerVars, chunkerVars
<1> QED BY <1>1, <1>2, <1>3, SizesInvSplit DEF Next

LEMMA SizesInvHolds == Spec => []SizesInv
BY SizesInvInit, SizesInvStep, AnalyzerInvHolds, HybridInvHolds, PTL DEF Spec

\* No chunk is blank, and none is too long unless it is one sentence, whatever
\* the sentences' lengths and the gaps between them.
THEOREM ChunksFitHolds == Spec => []ChunksFit
<1>1. SizesInv => ChunksFit
  BY DEF SizesInv, Packed, Fits, ChunksFit
<1> QED BY <1>1, SizesInvHolds, PTL

\* Two neighbours of one region would have been too long as one chunk.
THEOREM ChunksAreFullHolds == Spec => []ChunksAreFull
<1>1. SizesInv => ChunksAreFull
  BY DEF SizesInv, Packed, Full, ChunksAreFull
<1> QED BY <1>1, SizesInvHolds, PTL

(***************************************************************************)
(* The loops end.                                                          *)
(***************************************************************************)
LEMMA FirstOfFour ==
    ASSUME NEW a, NEW b, NEW c, NEW d, NEW e, NEW f, NEW g, NEW h,
           \/ a < e
           \/ a = e /\ b < f
           \/ a = e /\ b = f /\ c < g
           \/ a = e /\ b = f /\ c = g /\ d < h
    PROVE  Less(<<a, b, c, d>>, <<e, f, g, h>>)
<1> DEFINE v == <<a, b, c, d>>
           w == <<e, f, g, h>>
<1>1. /\ v[1] = a /\ v[2] = b /\ v[3] = c /\ v[4] = d
      /\ w[1] = e /\ w[2] = f /\ w[3] = g /\ w[4] = h
  OBVIOUS
<1> HIDE DEF v, w
<1>2. /\ \A j \in 1..(1 - 1) : FALSE
      /\ \A j \in 1..(2 - 1) : j = 1
      /\ \A j \in 1..(3 - 1) : j = 1 \/ j = 2
      /\ \A j \in 1..(4 - 1) : j = 1 \/ j = 2 \/ j = 3
  OBVIOUS
<1>3. \E i \in 1..4 : v[i] < w[i] /\ \A j \in 1..(i - 1) : v[j] = w[j]
  <2>1. CASE a < e
    <3>1. v[1] < w[1] /\ \A j \in 1..(1 - 1) : v[j] = w[j]
      BY <1>1, <1>2, <2>1
    <3> QED BY <3>1
  <2>2. CASE a = e /\ b < f
    <3>1. v[2] < w[2] /\ \A j \in 1..(2 - 1) : v[j] = w[j]
      BY <1>1, <1>2, <2>2
    <3> QED BY <3>1
  <2>3. CASE a = e /\ b = f /\ c < g
    <3>1. v[3] < w[3] /\ \A j \in 1..(3 - 1) : v[j] = w[j]
      BY <1>1, <1>2, <2>3
    <3> QED BY <3>1
  <2>4. CASE a = e /\ b = f /\ c = g /\ d < h
    <3>1. v[4] < w[4] /\ \A j \in 1..(4 - 1) : v[j] = w[j]
      BY <1>1, <1>2, <2>4
    <3> QED BY <3>1
  <2> QED BY <2>1, <2>2, <2>3, <2>4
<1> QED BY <1>3 DEF Less, v, w

\* The four parts of WorkLeft.
WindowsLeft == IF verdict = "running" THEN 1 + WindowCount(text) - Len(analyzed) ELSE 0
AttemptsLeft == MaxRetries - attempt
PartsLeft ==
    IF finished THEN 0
    ELSE IF chunker = "hybrid" THEN 2 + Len(regions) - region ELSE 1 + text - start
SentencesLeft ==
    IF region \in DOMAIN regions THEN 1 + Len(regions[region].ends) - next ELSE 0

LEMMA WorkLeftParts == WorkLeft = <<WindowsLeft, AttemptsLeft, PartsLeft, SentencesLeft>>
BY DEF WorkLeft, WindowsLeft, AttemptsLeft, PartsLeft, SentencesLeft

\* There is never less than no work.
LEMMA WorkIsNat ==
    ASSUME AnalyzerInv, WindowsInv, HybridInv, chunker \in {"hybrid", "fixed_size"}
    PROVE  \A i \in 1..4 : WorkLeft[i] \in Nat
<1>1. /\ text \in Nat /\ attempt \in 1..MaxRetries /\ MaxRetries \in Nat
      /\ Len(analyzed) \in Nat /\ Len(regions) \in Nat /\ DOMAIN regions = 1..Len(regions)
      /\ verdict = "running" => Len(analyzed) < WindowCount(text)
  BY AnalyzerAssumption, LenProperties DEF AnalyzerInv, AnalyzerAssumption
<1>2. WindowsLeft \in Nat
  <2>1. WindowCount(text) \in Nat
    BY <1>1, WindowFacts
  <2> QED BY <1>1, <2>1 DEF WindowsLeft
<1>3. AttemptsLeft \in Nat
  BY <1>1 DEF AttemptsLeft
<1>4. PartsLeft \in Nat
  <2>1. CASE finished
    BY <2>1 DEF PartsLeft
  <2>2. CASE ~finished /\ chunker = "hybrid"
    <3>1. region \in Nat /\ region <= Len(regions) + 1
      BY <2>2 DEF HybridInv
    <3> QED BY <1>1, <2>2, <3>1 DEF PartsLeft
  <2>3. CASE ~finished /\ chunker = "fixed_size"
    <3>1. start \in Nat /\ (start = 0 \/ start + Overlap < text)
      BY <2>3 DEF WindowsInv
    <3>2. start <= text
      BY <1>1, <3>1, ChunkingAssumption DEF ChunkingAssumption
    <3> QED BY <1>1, <2>3, <3>1, <3>2 DEF PartsLeft
  <2> QED BY <2>1, <2>2, <2>3
<1>5. SentencesLeft \in Nat
  <2>1. CASE chunker = "hybrid"
    <3>1. ASSUME region \in DOMAIN regions PROVE 1 + Len(regions[region].ends) - next \in Nat
      <4>1. next \in Nat /\ next <= Len(regions[region].ends) + 1
        BY <2>1, <3>1 DEF HybridInv
      <4>2. regions[region] \in Region
        BY <1>1, <3>1, ElementOfSeq DEF AnalyzerInv
      <4>3. Len(regions[region].ends) \in Nat
        BY <4>2, RegionFacts
      <4> QED BY <4>1, <4>3
    <3> QED BY <3>1 DEF SentencesLeft
  <2>2. CASE chunker = "fixed_size"
    <3>1. DOMAIN regions = {}
      BY <2>2 DEF WindowsInv
    <3> QED BY <3>1 DEF SentencesLeft
  <2> QED BY <2>1, <2>2
<1> HIDE DEF WindowsLeft, AttemptsLeft, PartsLeft, SentencesLeft
<1>6. \A i \in 1..4 : <<WindowsLeft, AttemptsLeft, PartsLeft, SentencesLeft>>[i] \in Nat
  BY <1>2, <1>3, <1>4, <1>5
<1> QED BY <1>6, WorkLeftParts

\* The first part that changes goes down.
LEMMA WorkGoesDown ==
    ASSUME AnalyzerInv, WindowsInv, HybridInv, Next
    PROVE  \/ WindowsLeft' < WindowsLeft
           \/ WindowsLeft' = WindowsLeft /\ AttemptsLeft' < AttemptsLeft
           \/ /\ WindowsLeft' = WindowsLeft /\ AttemptsLeft' = AttemptsLeft
              /\ PartsLeft' < PartsLeft
           \/ /\ WindowsLeft' = WindowsLeft /\ AttemptsLeft' = AttemptsLeft
              /\ PartsLeft' = PartsLeft /\ SentencesLeft' < SentencesLeft
<1>1. /\ text \in Nat /\ attempt \in 1..MaxRetries /\ MaxRetries \in Nat
      /\ Len(analyzed) \in Nat /\ Len(regions) \in Nat /\ DOMAIN regions = 1..Len(regions)
      /\ verdict = "running" => Len(analyzed) < WindowCount(text)
  BY AnalyzerAssumption, LenProperties DEF AnalyzerInv, AnalyzerAssumption
<1>2. WindowCount(text) \in Nat
  BY <1>1, WindowFacts
<1>3. CASE AnalyzePage
  <2>1. verdict = "running" /\ text' = text
    BY <1>3 DEF AnalyzePage, Call, Accept, Retry, Escape
  <2>2. WindowsLeft = 1 + WindowCount(text) - Len(analyzed) /\ WindowsLeft > 1
    BY <1>1, <1>2, <2>1 DEF WindowsLeft
  <2>3. CASE verdict' # "running"
    <3>1. WindowsLeft' = 0
      BY <2>3 DEF WindowsLeft
    <3> QED BY <2>2, <3>1
  <2>4. CASE verdict' = "running" /\ \E n \in 0..MaxRegions : \E rs \in [1..n -> Region] : Accept(rs)
    <3>1. Len(analyzed') = Len(analyzed) + 1
      <4>1. /\ analyzed' = Append(analyzed, Window(Len(analyzed) + 1))
            /\ analyzed \in Seq([from : Int, to : Int])
        BY <2>4 DEF Accept, AnalyzerInv
      <4> QED BY <4>1
    <3>2. WindowsLeft' = 1 + WindowCount(text) - (Len(analyzed) + 1)
      BY <2>1, <2>4, <3>1 DEF WindowsLeft
    <3> QED BY <1>1, <1>2, <2>2, <3>2
  <2>5. CASE verdict' = "running" /\ Retry
    <3>1. analyzed' = analyzed /\ attempt' = attempt + 1
      BY <2>5 DEF Retry
    <3>2. WindowsLeft' = WindowsLeft
      BY <2>1, <2>5, <3>1 DEF WindowsLeft
    <3>3. AttemptsLeft' < AttemptsLeft
      BY <1>1, <3>1 DEF AttemptsLeft
    <3> QED BY <3>2, <3>3
  <2>6. CASE Escape
    BY <2>3, <2>6 DEF Escape
  <2> QED BY <1>3, <2>3, <2>4, <2>5, <2>6 DEF AnalyzePage, Call, Retry, Accept, Escape
<1>4. CASE SplitRegion
  <2>1. /\ chunker = "hybrid" /\ ~finished /\ chunker' = chunker
        /\ UNCHANGED analyzerVars
    BY <1>4 DEF SplitRegion
  <2>2. WindowsLeft' = WindowsLeft /\ AttemptsLeft' = AttemptsLeft /\ regions' = regions
    BY <2>1 DEF WindowsLeft, AttemptsLeft, analyzerVars
  <2>3. /\ region \in Nat \ {0} /\ next \in Nat /\ region <= Len(regions) + 1
        /\ PartsLeft = 2 + Len(regions) - region
    BY <2>1 DEF HybridInv, PartsLeft
  <2>4. CASE region > Len(regions)
    <3>1. PartsLeft' = 0
      BY <1>4, <2>4 DEF SplitRegion, PartsLeft
    <3>2. PartsLeft > 0
      BY <1>1, <2>3
    <3> QED BY <2>2, <3>1, <3>2
  <2>5. CASE ~(region > Len(regions))
    <3>1. ~finished' /\ PartsLeft' = 2 + Len(regions) - region'
      BY <1>4, <2>1, <2>2, <2>5 DEF SplitRegion, PartsLeft
    <3>2. CASE NextRegion(region)
      <4>1. PartsLeft' < PartsLeft
        BY <1>1, <2>3, <3>1, <3>2 DEF NextRegion
      <4> QED BY <2>2, <4>1
    <3>3. CASE TakeSentence(region)
      <4>1. region' = region /\ next' = next + 1
        BY <3>3 DEF TakeSentence
      <4>2. region \in DOMAIN regions /\ regions[region] \in Region
        BY <1>1, <2>3, <2>5, ElementOfSeq DEF AnalyzerInv
      <4>3. Len(regions[region].ends) \in Nat
        BY <4>2, RegionFacts
      <4>4. /\ SentencesLeft = 1 + Len(regions[region].ends) - next
            /\ SentencesLeft' = 1 + Len(regions[region].ends) - (next + 1)
        BY <2>2, <4>1, <4>2 DEF SentencesLeft
      <4>5. SentencesLeft' < SentencesLeft
        BY <2>3, <4>3, <4>4
      <4> QED BY <2>2, <2>3, <3>1, <4>1, <4>5
    <3> QED BY <1>4, <2>5, <3>2, <3>3 DEF SplitRegion, EmitWhole, EmitRest
  <2> QED BY <2>4, <2>5
<1>5. CASE SlideWindow
  <2>1. /\ chunker = "fixed_size" /\ ~finished /\ chunker' = chunker
        /\ UNCHANGED analyzerVars
    BY <1>5 DEF SlideWindow
  <2>2. WindowsLeft' = WindowsLeft /\ AttemptsLeft' = AttemptsLeft /\ text' = text
    BY <2>1 DEF WindowsLeft, AttemptsLeft, analyzerVars
  <2>3. /\ start \in Nat /\ (start = 0 \/ start + Overlap < text)
        /\ PartsLeft = 1 + text - start
    BY <2>1 DEF WindowsInv, PartsLeft
  <2>4. PartsLeft > 0
    BY <1>1, <2>3, ChunkingAssumption DEF ChunkingAssumption
  <2>5. CASE finished'
    <3>1. PartsLeft' = 0
      BY <2>5 DEF PartsLeft
    <3> QED BY <2>2, <2>4, <3>1
  <2>6. CASE ~finished'
    <3>1. start' = start + ChunkSize - Overlap
      BY <1>5, <2>6 DEF SlideWindow, Slide
    <3>2. PartsLeft' = 1 + text - start'
      BY <2>1, <2>2, <2>6 DEF PartsLeft
    <3>3. PartsLeft' < PartsLeft
      BY <1>1, <2>3, <3>1, <3>2, ChunkingAssumption DEF ChunkingAssumption
    <3> QED BY <2>2, <3>3
  <2> QED BY <2>5, <2>6
<1> QED BY <1>3, <1>4, <1>5 DEF Next

LEMMA FlagsHold == Spec => [](chunker \in {"hybrid", "fixed_size"} /\ finished \in BOOLEAN)
<1> DEFINE Flags == chunker \in {"hybrid", "fixed_size"} /\ finished \in BOOLEAN
<1>1. Init => Flags
  BY Zenon DEF Init
<1>2. Flags /\ [Next]_vars => Flags'
  <2> SUFFICES ASSUME Flags, [Next]_vars PROVE Flags'
    OBVIOUS
  <2>1. CASE AnalyzePage \/ UNCHANGED vars
    BY <2>1, Zenon DEF AnalyzePage, vars, chunkerVars
  <2>2. CASE SplitRegion
    BY <2>2, Zenon DEF SplitRegion
  <2>3. CASE SlideWindow
    <3>1. chunker' = chunker
      BY <2>3 DEF SlideWindow
    <3>2. finished' = TRUE \/ finished' = (start + ChunkSize >= text)
      BY <2>3, Zenon DEF SlideWindow, Slide
    <3>3. (start + ChunkSize >= text) \in BOOLEAN
      OBVIOUS
    <3> QED BY <3>1, <3>2, <3>3, Zenon
  <2> QED BY <2>1, <2>2, <2>3 DEF Next
<1> QED BY <1>1, <1>2, PTL DEF Spec

\* Analysis and chunking cannot go on for ever, and say so at every step: there is
\* always some work, a step uses it up, whatever the provider replies.
THEOREM WorkRunsOutHolds == Spec => WorkRunsOut
<1> DEFINE Flags == chunker \in {"hybrid", "fixed_size"} /\ finished \in BOOLEAN
           Step == (\A i \in 1..4 : WorkLeft[i] \in Nat) /\ Less(WorkLeft', WorkLeft)
<1>1. AnalyzerInv /\ WindowsInv /\ HybridInv /\ Flags /\ [Next]_vars => [Step]_vars
  <2> SUFFICES ASSUME AnalyzerInv, WindowsInv, HybridInv, Flags, Next PROVE Step
    OBVIOUS
  <2>1. \A i \in 1..4 : WorkLeft[i] \in Nat
    BY WorkIsNat
  <2>2. WorkLeft' = <<WindowsLeft', AttemptsLeft', PartsLeft', SentencesLeft'>>
    BY DEF WorkLeft, WindowsLeft, AttemptsLeft, PartsLeft, SentencesLeft
  <2>3. Less(WorkLeft', WorkLeft)
    <3> HIDE DEF WindowsLeft, AttemptsLeft, PartsLeft, SentencesLeft
    <3>1. Less(<<WindowsLeft', AttemptsLeft', PartsLeft', SentencesLeft'>>,
               <<WindowsLeft, AttemptsLeft, PartsLeft, SentencesLeft>>)
      BY WorkGoesDown, FirstOfFour
    <3> QED BY <2>2, <3>1, WorkLeftParts
  <2> QED BY <2>1, <2>3
<1> QED BY <1>1, AnalyzerInvHolds, WindowsInvHolds, HybridInvHolds, FlagsHold, PTL
        DEF WorkRunsOut, Spec

\* Every variable has its type, and every chunk lies in the page.
THEOREM ChunkingTyping == Spec => []ChunkingTypeOK
<1> DEFINE Flags == chunker \in {"hybrid", "fixed_size"} /\ finished \in BOOLEAN
<1>1. AnalyzerInv /\ WindowsInv /\ HybridInv /\ Flags => ChunkingTypeOK
  <2> SUFFICES ASSUME AnalyzerInv, WindowsInv, HybridInv, Flags PROVE ChunkingTypeOK
    OBVIOUS
  <2>1. ASSUME chunker = "hybrid"
        PROVE  \A c \in {chunks[i] : i \in DOMAIN chunks} :
                   c.region \in DOMAIN regions /\ 1 <= c.first /\ c.last <= Len(regions[c.region].ends)
    <3>1. Placed(regions, chunks, region, first)
      BY <2>1 DEF HybridInv, Laid
    <3> QED BY <3>1 DEF Placed
  <2>2. ASSUME chunker = "fixed_size"
        PROVE  \A c \in {chunks[i] : i \in DOMAIN chunks} : c \in [from : 0..text, to : 1..text]
    <3>1. /\ chunks \in Seq([from : Nat, to : Nat]) /\ text \in Nat
          /\ \A n \in DOMAIN chunks : chunks[n].from < chunks[n].to /\ chunks[n].to <= text
      BY <2>2 DEF WindowsInv
    <3>2. ASSUME NEW n \in DOMAIN chunks PROVE chunks[n] \in [from : 0..text, to : 1..text]
      <4>1. chunks[n] \in [from : Nat, to : Nat]
        BY <3>1, ElementOfSeq, LenProperties
      <4> QED BY <3>1, <4>1
    <3> QED BY <3>2
  <2>3. /\ text \in 0..MaxText /\ attempt \in 1..MaxRetries
        /\ verdict \in {"running", "structured", "LLMUnavailable", "TypeError"}
    BY DEF AnalyzerInv
  <2> QED BY <2>1, <2>2, <2>3, Zenon DEF ChunkingTypeOK
<1> QED BY <1>1, AnalyzerInvHolds, WindowsInvHolds, HybridInvHolds, FlagsHold, PTL

=============================================================================
