---------------------------- MODULE PageAnalyzer ----------------------------
(***************************************************************************)
(* OpenAIPageAnalyzer.analyze: the cleaned page is cut into windows, each  *)
(* window is sent to the chat provider up to max_retries times, and the    *)
(* regions of all replies are concatenated.                                *)
(*                                                                         *)
(* Text is a length and a window an interval of it; of a region there is   *)
(* what the chunker looks at, where its sentences end and its length.      *)
(***************************************************************************)
EXTENDS Integers, Sequences, FiniteSets

CONSTANTS
    MaxText,        \* bound on the length of the cleaned page
    MaxInputChars,  \* max_input_chars
    MaxRetries,     \* max_retries
    Region,         \* the regions a reply may contain
    MaxRegions      \* bound on the number of regions in a reply

ASSUME AnalyzerAssumption ==
    /\ MaxText \in Nat
    /\ MaxInputChars \in Nat \ {0}
    /\ MaxRetries \in Nat \ {0}
    /\ MaxRegions \in Nat

\* ends[i] is where sentence i ends when the blanks between two sentences are
\* one blank, and chars the length of the region as it stands, where there may
\* be more of them. Only the last sentence can be empty: what splitting leaves
\* behind blanks at the end. lead and trail are what strip() takes off the two
\* ends of the sentences once they are joined.
ASSUME RegionAssumption ==
    \A r \in Region :
        /\ r.ends \in Seq(Nat \ {0}) /\ r.ends # <<>>
        /\ \A i, j \in DOMAIN r.ends : i < j =>
              r.ends[j] > r.ends[i] + (IF j = Len(r.ends) THEN 0 ELSE 1)
        /\ r.chars \in Nat /\ r.ends[Len(r.ends)] <= r.chars
        /\ r.lead \in Nat /\ r.trail \in Nat

VARIABLES
    text,      \* length of the page
    analyzed,  \* the windows that have been analyzed
    attempt,   \* of the window at hand
    regions,   \* merged_chunks
    verdict,   \* of analyze()
    calls      \* history: calls made for each window so far

analyzerVars == <<text, analyzed, attempt, regions, verdict, calls>>

Smaller(m, n) == IF m < n THEN m ELSE n

(***************************************************************************)
(* Seeded faults: variants of the definitions below, each with a mistake a *)
(* change to the code could make. No action uses them.                     *)
(***************************************************************************)
\* One window more than there are full ones.
WindowCountRoundsDown(len) == 1 + len \div MaxInputChars

\* The windows share the attempts: they are not counted anew for each.
AcceptKeepsAttempt(rs) ==
    /\ verdict = "running"
    /\ analyzed' = Append(analyzed, [from |-> Len(analyzed) * MaxInputChars,
                                     to |-> Smaller((Len(analyzed) + 1) * MaxInputChars, text)])
    /\ regions' = regions \o rs
    /\ IF (Len(analyzed) + 1) * MaxInputChars >= text
       THEN /\ verdict' = "structured"
            /\ calls' = [calls EXCEPT ![Len(calls)] = @ + 1]
       ELSE /\ UNCHANGED verdict
            /\ calls' = Append([calls EXCEPT ![Len(calls)] = @ + 1], 0)
    /\ UNCHANGED <<text, attempt>>

(***************************************************************************)
(* range(0, max(1, len(text)), max_input_chars)                            *)
(***************************************************************************)
WindowCount(len) ==
    IF len = 0 THEN 1 ELSE (len + MaxInputChars - 1) \div MaxInputChars

Window(i) ==
    [from |-> (i - 1) * MaxInputChars, to |-> Smaller(i * MaxInputChars, text)]

AnalyzerInit ==
    /\ text \in 0..MaxText
    /\ analyzed = <<>>
    /\ attempt = 1
    /\ regions = <<>>
    /\ verdict = "running"
    /\ calls = <<0>>

\* The reply validates. The last window's ends the analysis.
Accept(rs) ==
    /\ verdict = "running"
    /\ analyzed' = Append(analyzed, Window(Len(analyzed) + 1))
    /\ regions' = regions \o rs
    /\ attempt' = 1
    /\ IF Len(analyzed) + 1 = WindowCount(text)
       THEN /\ verdict' = "structured"
            /\ calls' = [calls EXCEPT ![Len(calls)] = @ + 1]
       ELSE /\ UNCHANGED verdict
            /\ calls' = Append([calls EXCEPT ![Len(calls)] = @ + 1], 0)
    /\ UNCHANGED text

\* A reply that is no JSON or not a PageStructure, or an OpenAIError: another
\* attempt, if there is one left. The loop counts the two alike, although the docs
\* allow the first kind one retry only.
Retry ==
    /\ verdict = "running"
    /\ calls' = [calls EXCEPT ![Len(calls)] = @ + 1]
    /\ IF attempt = MaxRetries
       THEN verdict' = "LLMUnavailable" /\ UNCHANGED attempt
       ELSE attempt' = attempt + 1 /\ UNCHANGED verdict
    /\ UNCHANGED <<text, analyzed, regions>>

\* A reply without content or without choices: no except clause names the
\* TypeError or IndexError.
Escape ==
    /\ verdict = "running"
    /\ calls' = [calls EXCEPT ![Len(calls)] = @ + 1]
    /\ verdict' = "TypeError"
    /\ UNCHANGED <<text, analyzed, attempt, regions>>

Call ==
    \/ \E n \in 0..MaxRegions : \E rs \in [1..n -> Region] : Accept(rs)
    \/ Retry
    \/ Escape

(***************************************************************************)
(* Properties.                                                             *)
(***************************************************************************)
\* The structure is made from the whole page: the windows analyzed follow each
\* other without gap or overlap from the first character to the last, and no
\* call is spent on an empty one, unless the page is empty.
WholePageAnalyzed ==
    verdict = "structured" =>
        /\ analyzed[1].from = 0
        /\ analyzed[Len(analyzed)].to = text
        /\ \A i \in 1..(Len(analyzed) - 1) : analyzed[i].to = analyzed[i + 1].from
        /\ text > 0 => \A i \in DOMAIN analyzed : analyzed[i].from < analyzed[i].to

\* LLMUnavailable means what its message says: the window at hand was tried
\* max_retries times, however many the windows before it had needed; and no
\* window is ever tried more often. That holds for invalid replies, too: the docs
\* say that the second of them for a window ends the analysis.
GivesUpAfterMaxRetries ==
    /\ \A i \in DOMAIN calls : calls[i] <= MaxRetries
    /\ verdict = "LLMUnavailable" => calls[Len(calls)] = MaxRetries

=============================================================================
