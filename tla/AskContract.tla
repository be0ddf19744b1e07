----------------------------- MODULE AskContract -----------------------------
(***************************************************************************)
(* What the API promises its clients, with no word on how: every request   *)
(* gets one verdict of its own, allowed for what it asked, and is told     *)
(* that verdict. In between, other requests come, are decided and are told *)
(* theirs in any order, and change nothing about it.                       *)
(*                                                                         *)
(* The verdicts of POST /ask are those of the routes and of                *)
(* ErrorResponseMapper: an answer whose confidence fits the similarity it  *)
(* reports, 502 if the chat provider let it down, 503 if retrieval did.    *)
(* 422 is for questions that are empty, and for replies of the provider    *)
(* that are: the mapper tells neither from the other. This is what the     *)
(* code promises. The README has 200 for an empty question and the table   *)
(* of the mapper 502 for an embedder that failed; neither is ever told.    *)
(***************************************************************************)
EXTENDS Naturals

CONSTANTS
    Request,   \* slots for requests a client has open
    Threshold, \* least similarity of an answer with high confidence
    Best       \* the largest similarity

VARIABLES
    asked,   \* what each open request asked for, "nothing" if it is not open
    verdict, \* what was decided and not yet told
    told     \* what the client of each slot was told last

contractVars == <<asked, verdict, told>>

Asks == {"ask", "ask_empty", "healthz", "metrics"}

Plain(status, blame) ==
    [status |-> status, confidence |-> "none", top |-> 0, blame |-> blame]

None == Plain(0, "nobody")

Given ==
    [status : {200}, confidence : {"high"}, top : Threshold..Best, blame : {"nobody"}]
        \cup [status : {200}, confidence : {"low"}, top : 0..(Threshold - 1), blame : {"nobody"}]

Promised(what) ==
    CASE what \in {"healthz", "metrics"} -> {Plain(200, "nobody")}
      [] what = "ask_empty" -> {Plain(422, "nobody")}
      [] OTHER -> Given \cup {Plain(422, "llm"), Plain(502, "llm")}
                        \cup {Plain(503, b) : b \in {"chroma", "handle", "query", "embedder"}}

ContractInit ==
    /\ asked = [r \in Request |-> "nothing"]
    /\ verdict = [r \in Request |-> None]
    /\ told = [r \in Request |-> None]

Ask(r, what) ==
    /\ asked[r] = "nothing"
    /\ asked' = [asked EXCEPT ![r] = what]
    /\ told' = [told EXCEPT ![r] = None]
    /\ UNCHANGED verdict

Decide(r, v) ==
    /\ asked[r] # "nothing" /\ verdict[r] = None
    /\ v \in Promised(asked[r])
    /\ verdict' = [verdict EXCEPT ![r] = v]
    /\ UNCHANGED <<asked, told>>

Tell(r) ==
    /\ verdict[r] # None
    /\ told' = [told EXCEPT ![r] = verdict[r]]
    /\ verdict' = [verdict EXCEPT ![r] = None]
    /\ asked' = [asked EXCEPT ![r] = "nothing"]

ContractNext ==
    \E r \in Request :
        \/ \E what \in Asks : Ask(r, what)
        \/ \E v \in Promised(asked[r]) : Decide(r, v)
        \/ Tell(r)

ContractSpec == ContractInit /\ [][ContractNext]_contractVars

=============================================================================
