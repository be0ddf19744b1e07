--------------------------- MODULE MCPageChunking ---------------------------
(***************************************************************************)
(* Pages of up to four characters in windows of two; regions of up to      *)
(* three sentences of one or five characters, some longer than a chunk may *)
(* be, some with blanks before or behind them, and some with a wider gap   *)
(* in them that alone makes them too long.                                 *)
(***************************************************************************)
EXTENDS PageChunking

Ends ==
    UNION {{<<a>>, <<a, a + 1 + c>>} : a \in {1, 5}, c \in {0, 1, 5}}
    \cup {<<a, a + 1 + b, a + 2 + b + c>> :
              <<a, b>> \in {<<1, 1>>, <<1, 5>>, <<5, 1>>}, c \in {0, 1, 5}}

Regions ==
    {r \in [ends : Ends, chars : 1..13, lead : 0..1, trail : 0..1] :
        LET n == Len(r.ends)
            last == r.ends[n]
        IN /\ r.chars = last \/ (last <= MaxChunkChars /\ r.chars = last + 2)
           /\ r.lead = IF n = 2 /\ r.ends[1] = 5 THEN 1 ELSE 0
           /\ r.trail = IF n > 1 /\ (Blank(r, n) \/ r.ends[n - 1] = 1) THEN 1 ELSE 0}

=============================================================================
