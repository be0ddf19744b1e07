------------------------------ MODULE Answering ------------------------------
(***************************************************************************)
(* The API process: one event loop that serves POST /ask, GET /healthz and *)
(* GET /metrics, and the workflow behind POST /ask.                        *)
(*                                                                         *)
(* A request passes the loop three times: into the middlewares, into the   *)
(* route, and back out through the middlewares. The route of POST /ask is  *)
(* an `async def` that calls the synchronous AnsweringService.answer, so   *)
(* from its first call to its last the loop serves nobody else, while      *)
(* Chroma and the providers change underneath.                             *)
(***************************************************************************)
EXTENDS Retrieval

CONSTANTS
    Request,   \* slots for requests a client has open
    NoRequest  \* the loop is not inside answer()

ASSUME RequestAssumption == NoRequest \notin Request

VARIABLES
    chroma,   \* the Chroma service: serving, refusing, or hanging on calls
    durable,  \* persistence.enabled: Chroma keeps its data over a restart
    handle,   \* the collection handle the process caches
    at,       \* where each request is
    route,    \* what each request asks for
    ready,    \* the event loop's queue
    running,  \* the request whose answer() holds the loop
    step,     \* the next call of that answer()
    fetched,  \* its candidates, between query and guard
    chunks,   \* its AgentState.retrieved_chunks
    result,   \* what each route returned or raised
    reply     \* what each client got last

loopVars == <<at, route, ready, result, reply>>
agentVars == <<running, step, fetched, chunks>>
storeVars == <<chroma, durable, handle>>
vars == <<storeVars, loopVars, agentVars>>

Route == {"ask", "ask_empty", "healthz", "metrics"}
Step == {"none", "embed", "open", "query", "decide", "generate", "refuse"}

Fine == {"probed", "rejected", "high", "low"}
Exception == {"VectorStoreUnavailable", "LLMUnavailable", "ValidationError"}
Culprit == {"nobody", "chroma", "handle", "query", "embedder", "llm"}
NotYet == [is |-> "pending", top |-> 0, culprit |-> "nobody"]
Result == [is : Fine \cup Exception \cup {"pending"}, top : 0..(2 * Full), culprit : Culprit]

\* ErrorResponseMapper and the routes: the status of each result.
Status(res) ==
    CASE res.is \in {"probed", "high", "low"} -> 200
      [] res.is = "VectorStoreUnavailable" -> 503
      [] res.is = "LLMUnavailable" -> 502
      [] OTHER -> 422

NoReply == [status |-> 0, result |-> NotYet, echoed |-> FALSE, counted |-> FALSE]
Reply == [status : {0, 200, 422, 502, 503}, result : Result, echoed : BOOLEAN, counted : BOOLEAN]

AnsweringTypeOK ==
    /\ chroma \in {"up", "refusing", "silent"}
    /\ durable \in BOOLEAN
    /\ handle \in {"none", "open", "stale"}
    /\ at \in [Request -> {"idle", "arriving", "routed", "running", "leaving"}]
    /\ route \in [Request -> Route]
    /\ ready \in Seq(Request)
    /\ running \in Request \cup {NoRequest}
    /\ step \in Step
    /\ fetched \in Seq(Candidate)
    /\ chunks \in Seq(Retrieved)
    /\ result \in [Request -> Result]
    /\ reply \in [Request -> Reply]

Init ==
    /\ chroma = "up"
    /\ durable \in BOOLEAN
    /\ handle = "none"
    /\ at = [r \in Request |-> "idle"]
    /\ route = [r \in Request |-> "healthz"]
    /\ ready = <<>>
    /\ running = NoRequest
    /\ step = "none"
    /\ fetched = <<>>
    /\ chunks = <<>>
    /\ result = [r \in Request |-> NotYet]
    /\ reply = [r \in Request |-> NoReply]

(***************************************************************************)
(* The event loop (uvicorn, Starlette).                                    *)
(***************************************************************************)
Enqueue(queue, r) == Append(queue, r)

TakesTurn(r, where) ==
    /\ running = NoRequest
    /\ ready # <<>>
    /\ Head(ready) = r
    /\ at[r] = where

MoveTo(r, where) == at' = [at EXCEPT ![r] = where]

\* Seeded fault: the service keeps the latest result for whoever asks.
ReturnToAll(r, is, top, culprit) ==
    result' = [q \in Request |-> [is |-> is, top |-> top, culprit |-> culprit]]

Return(r, is, top, culprit) ==
    result' = [result EXCEPT ![r] = [is |-> is, top |-> top, culprit |-> culprit]]

\* A client sends a request; slots are reused.
Receive(r, rt) ==
    /\ at[r] = "idle"
    /\ MoveTo(r, "arriving")
    /\ route' = [route EXCEPT ![r] = rt]
    /\ ready' = Enqueue(ready, r)
    /\ result' = [result EXCEPT ![r] = NotYet]
    /\ reply' = [reply EXCEPT ![r] = NoReply]
    /\ UNCHANGED <<storeVars, agentVars>>

\* RequestIdMiddleware takes or makes the id, PrometheusMetricsMiddleware reads
\* the clock, and both await the rest.
EnterMiddleware(r) ==
    /\ TakesTurn(r, "arriving")
    /\ MoveTo(r, "routed")
    /\ ready' = Enqueue(Tail(ready), r)
    /\ UNCHANGED <<route, result, reply, storeVars, agentVars>>

\* healthz() and metrics() call nobody; an empty question never reaches ask(), and
\* neither does one that is missing or longer than 2000 characters.
AnswerAtOnce(r) ==
    /\ TakesTurn(r, "routed")
    /\ \/ route[r] \in {"healthz", "metrics"} /\ Return(r, "probed", 0, "nobody")
       \/ route[r] = "ask_empty" /\ Return(r, "rejected", 0, "nobody")
    /\ MoveTo(r, "leaving")
    /\ ready' = Enqueue(Tail(ready), r)
    /\ UNCHANGED <<route, reply, storeVars, agentVars>>

\* The response goes out through both middlewares. An exception passes through
\* them and is turned into a response by the handler registered for Exception,
\* which Starlette runs outside of every middleware of the application.
Leave(r) ==
    /\ TakesTurn(r, "leaving")
    /\ MoveTo(r, "idle")
    /\ ready' = Tail(ready)
    /\ reply' = [reply EXCEPT ![r] =
            [status |-> Status(result[r]), result |-> result[r],
             echoed |-> result[r].is \in Fine, counted |-> result[r].is \in Fine]]
    /\ result' = [result EXCEPT ![r] = NotYet]
    /\ UNCHANGED <<route, storeVars, agentVars>>

(***************************************************************************)
(* answer(): retrieve -> guard -> generate or refuse, on the loop.         *)
(***************************************************************************)
StartAnswer(r) ==
    /\ TakesTurn(r, "routed")
    /\ route[r] = "ask"
    /\ MoveTo(r, "running")
    /\ running' = r
    /\ step' = "embed"
    /\ ready' = Tail(ready)
    /\ UNCHANGED <<route, result, reply, storeVars, fetched, chunks>>

Calls(r, s) == running = r /\ step = s /\ UNCHANGED <<chroma, durable>>

Continue(s) == step' = s /\ UNCHANGED <<loopVars, running>>

\* answer() returns or raises, and the loop is free again.
Answer(r, is, top, culprit) ==
    /\ Return(r, is, top, culprit)
    /\ MoveTo(r, "leaving")
    /\ ready' = Enqueue(ready, r)
    /\ running' = NoRequest
    /\ step' = "none"
    /\ fetched' = <<>>
    /\ chunks' = <<>>
    /\ UNCHANGED <<route, reply>>

\* ChromaRetriever.retrieve, first half: embed the question. No vectors means
\* no chunks. The re-ranker wraps whatever else the embedder raises.
EmbedQuestion(r) ==
    /\ Calls(r, "embed")
    /\ \/ \E s \in {"open", "decide"} : Continue(s) /\ UNCHANGED <<fetched, chunks>>
       \/ Answer(r, "VectorStoreUnavailable", 0, "embedder")
    /\ UNCHANGED handle

\* Seeded fault: the handle is cached before the call that makes it succeeds.
OpenTooEarly(r) ==
    /\ Calls(r, "open")
    /\ IF chroma = "refusing" /\ handle = "none"
       THEN handle' = "stale" /\ Answer(r, "VectorStoreUnavailable", 0, "chroma")
       ELSE /\ chroma = "up" \/ handle # "none"
            /\ handle' = IF handle = "none" THEN "open" ELSE handle
            /\ Continue("query")
            /\ UNCHANGED <<fetched, chunks>>

\* _ensure_collection: get_or_create_collection once per process. A Chroma that
\* hangs does not return, and the client is given no timeout.
OpenCollection(r) ==
    /\ Calls(r, "open")
    /\ \/ /\ handle # "none" \/ chroma = "up"
          /\ handle' = IF handle = "none" THEN "open" ELSE handle
          /\ Continue("query")
          /\ UNCHANGED <<fetched, chunks>>
       \/ /\ handle = "none" /\ chroma = "refusing"
          /\ Answer(r, "VectorStoreUnavailable", 0, "chroma")
          /\ UNCHANGED handle

\* Seeded fault: a query that fails is worth another try, from the start.
QueryRetries(r) ==
    /\ Calls(r, "query")
    /\ \/ /\ chroma = "up" /\ handle = "open"
          /\ fetched' \in QueryResult
          /\ chunks' = Rerank(fetched')
          /\ Continue("decide")
       \/ /\ chroma # "silent"
          /\ Continue("embed")
          /\ UNCHANGED <<fetched, chunks>>
    /\ UNCHANGED handle

\* query, on the cached handle, then the re-ranking. What a Chroma that serves may
\* still refuse is the query itself: a vector of other dimensions, say.
QueryCollection(r) ==
    /\ Calls(r, "query")
    /\ \/ /\ chroma = "up" /\ handle = "open"
          /\ fetched' \in QueryResult
          /\ chunks' = Rerank(fetched')
          /\ Continue("decide")
       \/ /\ chroma = "up"
          /\ Answer(r, "VectorStoreUnavailable", 0, IF handle = "open" THEN "query" ELSE "handle")
       \/ /\ chroma = "refusing"
          /\ Answer(r, "VectorStoreUnavailable", 0, "chroma")
    /\ UNCHANGED handle

\* The conditional edge _decide.
Path == IF ShouldRefuse(chunks) THEN "refuse" ELSE "generate"

\* guard_node, which only notes that it ran, and the edge behind it.
Decide(r) ==
    /\ Calls(r, "decide")
    /\ Continue(Path)
    /\ fetched' = <<>>
    /\ UNCHANGED <<chunks, handle>>

\* refuse_node: the static message, confidence low.
Refuse(r) ==
    /\ Calls(r, "refuse")
    /\ Answer(r, "low", TopSimilarity(chunks), "nobody")
    /\ UNCHANGED handle

\* OPENAIAnswerGenerator.generate: one call to the chat provider. Whatever the
\* SDK raises becomes LLMUnavailable, no content becomes the empty string.
Completion == {"text", "empty", "LLMUnavailable"}

\* generate_node; Answer refuses an empty text.
Generate(r) ==
    /\ Calls(r, "generate")
    /\ \E c \in Completion :
        CASE c = "text" -> Answer(r, "high", TopSimilarity(chunks), "nobody")
          [] c = "empty" -> Answer(r, "ValidationError", 0, "llm")
          [] OTHER -> Answer(r, c, 0, "llm")
    /\ UNCHANGED handle

(***************************************************************************)
(* The Chroma service, which the process only sees through its calls.      *)
(***************************************************************************)
ChromaFails ==
    /\ chroma = "up"
    /\ chroma' \in {"refusing", "silent"}
    /\ UNCHANGED <<durable, handle, loopVars, agentVars>>

\* A Chroma that lost its data has a new collection, if any.
ChromaRecovers ==
    /\ chroma # "up"
    /\ chroma' = "up"
    /\ \/ UNCHANGED handle
       \/ ~durable /\ handle = "open" /\ handle' = "stale"
    /\ UNCHANGED <<durable, loopVars, agentVars>>

(***************************************************************************)
(* Specification. The loop never rests while it has something it can do.   *)
(* Chroma owes nothing.                                                    *)
(***************************************************************************)
AnswerStep(r) ==
    \/ StartAnswer(r) \/ EmbedQuestion(r) \/ OpenCollection(r) \/ QueryCollection(r)
    \/ Decide(r) \/ Refuse(r) \/ Generate(r)

LoopStep ==
    \E r \in Request : EnterMiddleware(r) \/ AnswerAtOnce(r) \/ Leave(r) \/ AnswerStep(r)

Next ==
    \/ \E r \in Request, rt \in Route : Receive(r, rt)
    \/ LoopStep
    \/ ChromaFails
    \/ ChromaRecovers

Spec == Init /\ [][Next]_vars

FairSpec == Spec /\ WF_vars(LoopStep)

(***************************************************************************)
(* What a client sees of it.                                               *)
(***************************************************************************)
Verdict(res) ==
    [status |-> Status(res),
     confidence |-> IF res.is \in {"high", "low"} THEN res.is ELSE "none",
     top |-> res.top,
     blame |-> res.culprit]

Nothing == [status |-> 0, confidence |-> "none", top |-> 0, blame |-> "nobody"]

Contract == INSTANCE AskContract WITH
    Best <- 2 * Full,
    asked <- [r \in Request |-> IF at[r] = "idle" THEN "nothing" ELSE route[r]],
    verdict <- [r \in Request |-> IF at[r] = "leaving" THEN Verdict(result[r]) ELSE Nothing],
    told <- [r \in Request |-> IF reply[r].status = 0 THEN Nothing ELSE Verdict(reply[r].result)]

(***************************************************************************)
(* Properties.                                                             *)
(***************************************************************************)
\* FR-009 as the client sees it: an answer is given with high confidence exactly
\* when the similarity reported with it reaches the threshold. The guard looks
\* at the largest similarity, the report takes the first one, and re-ranking
\* has replaced and re-ordered them in between.
ConfidenceMatchesReport ==
    \A r \in Request :
        /\ reply[r].result.is = "high" => reply[r].result.top >= Threshold
        /\ reply[r].result.is = "low" => reply[r].result.top < Threshold

\* What the generator gets as context is the best of what the collection found,
\* whichever of its two ways the re-ranker took.
ContextIsBest == step = "decide" => IsBestOf(chunks, fetched)

\* What a request waits for: the passes through the loop it has ahead, then its
\* place in the queue (first come, first served, is what asyncio contributes), then
\* the calls left to the answer() that holds the loop. What the routes and the
\* workflow contribute is that neither ever makes it longer: whatever a call of
\* answer() returns or raises, fewer calls are left, the loop is given back, and
\* no new request, however many come, nor Chroma puts an open one back.
Passes(r) ==
    CASE at[r] = "arriving" -> 4
      [] at[r] = "routed" -> 3
      [] at[r] = "running" -> 2
      [] at[r] = "leaving" -> 1
      [] OTHER -> 0

Turn(queue, r) == CHOOSE i \in DOMAIN queue : queue[i] = r

CallsLeft ==
    CASE step = "embed" -> 5
      [] step = "open" -> 4
      [] step = "query" -> 3
      [] step = "decide" -> 2
      [] step \in {"refuse", "generate"} -> 1
      [] OTHER -> 0

Wait(r) ==
    <<Passes(r), IF at[r] \in {"idle", "running"} THEN 0 ELSE Turn(ready, r), CallsLeft>>

Shorter(v, w) == \E i \in 1..3 : v[i] < w[i] /\ \A j \in 1..(i - 1) : v[j] = w[j]

NobodyOvertaken ==
    [][\A r \in Request : at[r] # "idle" =>
           \/ Shorter(Wait(r)', Wait(r))
           \/ Wait(r)' = Wait(r) /\ ~LoopStep]_vars

\* The API keeps its promise to every client: although all requests share one
\* service, one loop and one handle, and one verdict takes many steps during
\* which Chroma and the providers fail, each request is told exactly the verdict
\* that was decided for it, one that its route allows.
ImplementsContract == Contract!ContractSpec

\* NFR-002: once Chroma is up for good, and has not lost its data, requests stop
\* failing because of it, whatever the process had cached when it went away.
HealsWithChroma ==
    durable /\ <>[](chroma = "up")
        => <>[](\A r \in Request : result[r].culprit \notin {"chroma", "handle"})

\* No request is starved: although one answer() at a time holds the loop, every
\* request is replied to, provided Chroma does not hang forever.
EveryRequestAnswered ==
    <>[](chroma # "silent") => \A r \in Request : at[r] = "arriving" ~> at[r] = "idle"

\* FR-002: "The endpoint shall not require Chroma to be reachable." The probe
\* waits for the loop, and the loop for a call to Chroma.
HealthNeedsNoChroma ==
    \A r \in Request : (at[r] = "arriving" /\ route[r] = "healthz") ~> at[r] = "idle"

\* "For every HTTP response, increment request_count_total", and the request id
\* is echoed on the outbound response.
EveryResponseCounted == \A r \in Request : reply[r].status # 0 => reply[r].counted

=============================================================================
