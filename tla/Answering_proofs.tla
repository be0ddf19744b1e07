--------------------------- MODULE Answering_proofs ---------------------------
(***************************************************************************)
(* Proofs about Answering, for any number of requests, candidates and      *)
(* scores: the types, that the context of an answer is the best of what    *)
(* was found, that its confidence matches the similarity it reports, and   *)
(* that the API implements AskContract.                                    *)
(*                                                                         *)
(* The inductive invariant says where in answer() its results are valid    *)
(* (AgentInv), and that a request has a result only while it leaves, one   *)
(* its route allows (ResultsInv).                                          *)
(***************************************************************************)
EXTENDS Answering, Retrieval_proofs

Sorted(s) == \A p, q \in DOMAIN s : p < q => s[p].similarity >= s[q].similarity

AgentInv ==
    /\ step = "none" <=> running = NoRequest
    /\ \A r \in Request : at[r] = "running" <=> running = r
    /\ \A r \in Request : running = r => route[r] = "ask"
    /\ step \in {"none", "embed", "open", "query"} => fetched = <<>> /\ chunks = <<>>
    /\ step = "decide" => fetched \in QueryResult /\ chunks = Rerank(fetched)
    /\ step = "refuse" => ShouldRefuse(chunks)
    /\ step = "generate" => ~ShouldRefuse(chunks)
    /\ Sorted(chunks)

\* The results a route may return or raise.
Allowed(rt) ==
    CASE rt \in {"healthz", "metrics"} -> [is : {"probed"}, top : {0}, culprit : {"nobody"}]
      [] rt = "ask_empty" -> [is : {"rejected"}, top : {0}, culprit : {"nobody"}]
      [] OTHER ->
            [is : {"high"}, top : Threshold..(2 * Full), culprit : {"nobody"}]
                \cup [is : {"low"}, top : 0..(Threshold - 1), culprit : {"nobody"}]
                \cup [is : {"ValidationError", "LLMUnavailable"}, top : {0}, culprit : {"llm"}]
                \cup [is : {"VectorStoreUnavailable"}, top : {0},
                      culprit : {"chroma", "handle", "query", "embedder"}]

ResultsInv ==
    \A r \in Request :
        /\ at[r] = "leaving" => result[r] \in Allowed(route[r])
        /\ \/ reply[r] = NoReply
           \/ \E rt \in Route :
                 /\ reply[r].result \in Allowed(rt)
                 /\ reply[r].status = Status(reply[r].result)

AnsweringInv == AnsweringTypeOK /\ AgentInv /\ ResultsInv

(***************************************************************************)
(* Results and verdicts.                                                   *)
(***************************************************************************)
LEMMA AllowedIsResult ==
    ASSUME NEW rt \in Route, NEW res \in Allowed(rt)
    PROVE  /\ res \in Result
           /\ Status(res) \in {200, 422, 502, 503}
           /\ res.is = "high" => res.top >= Threshold
           /\ res.is = "low" => res.top < Threshold
<1>1. Full \in Nat /\ Threshold = Full
  BY RetrievalAssumption DEF RetrievalAssumption, Threshold
<1>2. CASE rt \in {"healthz", "metrics"}
  <2>1. res \in [is : {"probed"}, top : {0}, culprit : {"nobody"}]
    BY <1>2 DEF Allowed
  <2> QED BY <1>1, <2>1 DEF Result, Fine, Culprit, Status
<1>3. CASE rt = "ask_empty"
  <2>1. res \in [is : {"rejected"}, top : {0}, culprit : {"nobody"}]
    BY <1>3 DEF Allowed
  <2> QED BY <1>1, <2>1 DEF Result, Fine, Culprit, Status
<1>4. CASE rt = "ask"
  <2>1. CASE res \in [is : {"high"}, top : Threshold..(2 * Full), culprit : {"nobody"}]
    BY <1>1, <2>1 DEF Result, Fine, Culprit, Status
  <2>2. CASE res \in [is : {"low"}, top : 0..(Threshold - 1), culprit : {"nobody"}]
    BY <1>1, <2>2 DEF Result, Fine, Culprit, Status
  <2>3. CASE res \in [is : {"ValidationError", "LLMUnavailable"}, top : {0}, culprit : {"llm"}]
    BY <1>1, <2>3 DEF Result, Fine, Exception, Culprit, Status
  <2>4. CASE res \in [is : {"VectorStoreUnavailable"}, top : {0},
                      culprit : {"chroma", "handle", "query", "embedder"}]
    BY <1>1, <2>4 DEF Result, Fine, Exception, Culprit, Status
  <2> QED BY <1>4, <2>1, <2>2, <2>3, <2>4 DEF Allowed
<1> QED BY <1>2, <1>3, <1>4 DEF Route

LEMMA VerdictIsPromised ==
    ASSUME NEW rt \in Route, NEW res \in Allowed(rt)
    PROVE  Verdict(res) \in Contract!Promised(rt) /\ Verdict(res) # Nothing
<1>1. Full \in Nat /\ Threshold = Full
  BY RetrievalAssumption DEF RetrievalAssumption, Threshold
<1>2. CASE rt \in {"healthz", "metrics"}
  <2>1. res \in [is : {"probed"}, top : {0}, culprit : {"nobody"}]
    BY <1>2 DEF Allowed
  <2>2. Verdict(res) = Contract!Plain(200, "nobody")
    BY <2>1 DEF Verdict, Status, Contract!Plain
  <2> QED BY <1>2, <2>2 DEF Contract!Promised, Contract!Plain, Nothing
<1>3. CASE rt = "ask_empty"
  <2>1. res \in [is : {"rejected"}, top : {0}, culprit : {"nobody"}]
    BY <1>3 DEF Allowed
  <2>2. Verdict(res) = Contract!Plain(422, "nobody")
    BY <2>1 DEF Verdict, Status, Contract!Plain
  <2> QED BY <1>3, <2>2 DEF Contract!Promised, Contract!Plain, Nothing
<1>4. CASE rt = "ask"
  <2>1. CASE res \in [is : {"high"}, top : Threshold..(2 * Full), culprit : {"nobody"}]
    <3>1. Verdict(res) \in Contract!Given /\ Verdict(res).status = 200
      BY <1>1, <2>1 DEF Verdict, Status, Contract!Given
    <3> QED BY <1>4, <3>1 DEF Contract!Promised, Nothing
  <2>2. CASE res \in [is : {"low"}, top : 0..(Threshold - 1), culprit : {"nobody"}]
    <3>1. Verdict(res) \in Contract!Given /\ Verdict(res).status = 200
      BY <1>1, <2>2 DEF Verdict, Status, Contract!Given
    <3> QED BY <1>4, <3>1 DEF Contract!Promised, Nothing
  <2>3. CASE res \in [is : {"ValidationError", "LLMUnavailable"}, top : {0}, culprit : {"llm"}]
    <3>1. Verdict(res) = Contract!Plain(422, "llm") \/ Verdict(res) = Contract!Plain(502, "llm")
      BY <2>3 DEF Verdict, Status, Contract!Plain
    <3>2. Verdict(res).status # 0
      BY <3>1 DEF Contract!Plain
    <3> QED BY <1>4, <3>1, <3>2 DEF Contract!Promised, Nothing
  <2>4. CASE res \in [is : {"VectorStoreUnavailable"}, top : {0},
                      culprit : {"chroma", "handle", "query", "embedder"}]
    <3>1. /\ Verdict(res) = Contract!Plain(503, res.culprit)
          /\ res.culprit \in {"chroma", "handle", "query", "embedder"}
      BY <2>4 DEF Verdict, Status, Contract!Plain
    <3>2. Verdict(res).status # 0
      BY <3>1 DEF Contract!Plain
    <3> QED BY <1>4, <3>1, <3>2 DEF Contract!Promised, Nothing
  <2> QED BY <1>4, <2>1, <2>2, <2>3, <2>4 DEF Allowed
<1> QED BY <1>2, <1>3, <1>4 DEF Route

\* The guard looks at every chunk, the report at the first: sorted, they agree.
LEMMA GuardAndReportAgree ==
    ASSUME NEW s \in Seq(Retrieved), Sorted(s)
    PROVE  /\ ShouldRefuse(s) => TopSimilarity(s) \in 0..(Threshold - 1)
           /\ ~ShouldRefuse(s) => TopSimilarity(s) \in Threshold..(2 * Full)
<1>1. Full \in Nat \ {0} /\ Threshold = Full
  BY RetrievalAssumption DEF RetrievalAssumption, Threshold
<1>2. CASE s = <<>>
  <2>1. ShouldRefuse(s)
    BY <1>2 DEF ShouldRefuse
  <2> QED BY <1>1, <1>2, <2>1 DEF TopSimilarity
<1>3. CASE s # <<>>
  <2>1. 1 \in DOMAIN s /\ \A i \in DOMAIN s : i \in Nat /\ i >= 1
    BY <1>3
  <2>2. \A i \in DOMAIN s : s[i].similarity \in 0..(2 * Full)
    <3> HIDE DEF Retrieved
    <3>1. \A i \in DOMAIN s : s[i] \in Retrieved
      OBVIOUS
    <3> QED BY <3>1 DEF Retrieved
  <2>3. \A i \in DOMAIN s : s[1].similarity >= s[i].similarity
    BY <2>1, <2>2, <1>1 DEF Sorted
  <2> QED BY <1>1, <1>3, <2>1, <2>2, <2>3 DEF ShouldRefuse, TopSimilarity
<1> QED BY <1>2, <1>3

(***************************************************************************)
(* The steps of answer(). Each either goes on, and says with what, or      *)
(* returns or raises something that POST /ask allows.                      *)
(***************************************************************************)
GoesOn(r) ==
    /\ running = r
    /\ UNCHANGED <<loopVars, running, chroma, durable>>
    /\ handle' \in {"none", "open", "stale"}
    /\ \/ step' \in {"open", "query"} /\ fetched' = <<>> /\ chunks' = <<>>
       \/ step' = "decide" /\ fetched' \in QueryResult /\ chunks' = Rerank(fetched')
       \/ step' \in {"refuse", "generate"} /\ fetched' = <<>> /\ chunks' = chunks
          /\ (step' = "refuse" <=> ShouldRefuse(chunks))

Concludes(r) ==
    /\ running = r
    /\ \E res \in Allowed("ask") : Answer(r, res.is, res.top, res.culprit)
    /\ UNCHANGED <<chroma, durable>>
    /\ handle' \in {"none", "open", "stale"}

LEMMA FailureAllowed ==
    /\ \A c \in {"chroma", "handle", "query", "embedder"} :
          [is |-> "VectorStoreUnavailable", top |-> 0, culprit |-> c] \in Allowed("ask")
    /\ [is |-> "ValidationError", top |-> 0, culprit |-> "llm"] \in Allowed("ask")
    /\ [is |-> "LLMUnavailable", top |-> 0, culprit |-> "llm"] \in Allowed("ask")
BY DEF Allowed

LEMMA AnswerAllowed ==
    ASSUME AnsweringInv
    PROVE  /\ step = "refuse" =>
                [is |-> "low", top |-> TopSimilarity(chunks), culprit |-> "nobody"] \in Allowed("ask")
           /\ step = "generate" =>
                [is |-> "high", top |-> TopSimilarity(chunks), culprit |-> "nobody"] \in Allowed("ask")
<1>1. chunks \in Seq(Retrieved) /\ Sorted(chunks)
  BY DEF AnsweringInv, AnsweringTypeOK, AgentInv
<1>2. /\ step = "refuse" => TopSimilarity(chunks) \in 0..(Threshold - 1)
      /\ step = "generate" => TopSimilarity(chunks) \in Threshold..(2 * Full)
  BY <1>1, GuardAndReportAgree DEF AnsweringInv, AgentInv
<1> QED BY <1>2 DEF Allowed

\* A step that ends answer() with an allowed result is a conclusion.
LEMMA AllowedConcludes ==
    ASSUME NEW r \in Request, NEW is, NEW top, NEW culprit,
           [is |-> is, top |-> top, culprit |-> culprit] \in Allowed("ask"),
           Answer(r, is, top, culprit)
    PROVE  \E res \in Allowed("ask") : Answer(r, res.is, res.top, res.culprit)
<1> DEFINE res == [is |-> is, top |-> top, culprit |-> culprit]
<1>1. res \in Allowed("ask") /\ res.is = is /\ res.top = top /\ res.culprit = culprit
  OBVIOUS
<1>2. Answer(r, res.is, res.top, res.culprit)
  BY <1>1
<1> HIDE DEF res
<1> QED BY <1>1, <1>2

LEMMA AnswerSteps ==
    ASSUME AnsweringInv, NEW r \in Request, AnswerStep(r), ~StartAnswer(r)
    PROVE  GoesOn(r) \/ Concludes(r)
<1> USE DEF Calls, Continue
<1>1. handle \in {"none", "open", "stale"}
  BY DEF AnsweringInv, AnsweringTypeOK
<1>2. CASE EmbedQuestion(r)
  <2>1. fetched = <<>> /\ chunks = <<>>
    BY <1>2 DEF EmbedQuestion, AnsweringInv, AgentInv
  <2>2. CASE \E s \in {"open", "decide"} : Continue(s) /\ UNCHANGED <<fetched, chunks>>
    BY <1>1, <1>2, <2>1, <2>2, NothingFound DEF EmbedQuestion, GoesOn
  <2>3. CASE Answer(r, "VectorStoreUnavailable", 0, "embedder")
    BY <1>1, <1>2, <2>3, FailureAllowed, AllowedConcludes DEF EmbedQuestion, Concludes
  <2> QED BY <1>2, <2>2, <2>3 DEF EmbedQuestion
<1>3. CASE OpenCollection(r)
  <2>1. fetched = <<>> /\ chunks = <<>>
    BY <1>3 DEF OpenCollection, AnsweringInv, AgentInv
  <2>2. CASE Continue("query") /\ UNCHANGED <<fetched, chunks>>
             /\ handle' = IF handle = "none" THEN "open" ELSE handle
    BY <1>1, <1>3, <2>1, <2>2 DEF OpenCollection, GoesOn
  <2>3. CASE Answer(r, "VectorStoreUnavailable", 0, "chroma") /\ UNCHANGED handle
    BY <1>1, <1>3, <2>3, FailureAllowed, AllowedConcludes DEF OpenCollection, Concludes
  <2> QED BY <1>3, <2>2, <2>3 DEF OpenCollection
<1>4. CASE QueryCollection(r)
  <2>1. CASE fetched' \in QueryResult /\ chunks' = Rerank(fetched') /\ Continue("decide")
    BY <1>1, <1>4, <2>1 DEF QueryCollection, GoesOn
  <2>2. CASE \E c \in {"query", "handle"} : Answer(r, "VectorStoreUnavailable", 0, c)
    BY <1>1, <1>4, <2>2, FailureAllowed, AllowedConcludes DEF QueryCollection, Concludes
  <2>3. CASE Answer(r, "VectorStoreUnavailable", 0, "chroma")
    BY <1>1, <1>4, <2>3, FailureAllowed, AllowedConcludes DEF QueryCollection, Concludes
  <2> QED BY <1>4, <2>1, <2>2, <2>3 DEF QueryCollection
<1>5. CASE Decide(r)
  BY <1>1, <1>5 DEF Decide, Path, GoesOn
<1>6. CASE Refuse(r)
  BY <1>1, <1>6, AnswerAllowed, AllowedConcludes DEF Refuse, Concludes
<1>7. CASE Generate(r)
  <2>1. step = "generate"
    BY <1>7 DEF Generate
  <2>2. \/ Answer(r, "high", TopSimilarity(chunks), "nobody")
        \/ Answer(r, "ValidationError", 0, "llm")
        \/ Answer(r, "LLMUnavailable", 0, "llm")
    BY <1>7 DEF Generate, Completion
  <2>3. \E res \in Allowed("ask") : Answer(r, res.is, res.top, res.culprit)
    BY <2>1, <2>2, AnswerAllowed, FailureAllowed, AllowedConcludes
  <2> QED BY <1>1, <1>7, <2>3 DEF Generate, Concludes
<1> QED BY <1>2, <1>3, <1>4, <1>5, <1>6, <1>7 DEF AnswerStep

\* What a step of the system is, then.
LEMMA StepCases ==
    ASSUME AnsweringInv, [Next]_vars
    PROVE  \/ \E r \in Request, rt \in Route : Receive(r, rt)
           \/ \E r \in Request : EnterMiddleware(r) \/ AnswerAtOnce(r) \/ Leave(r)
                                 \/ StartAnswer(r) \/ GoesOn(r) \/ Concludes(r)
           \/ UNCHANGED <<loopVars, agentVars>> /\ chroma' \in {"up", "refusing", "silent"}
              /\ durable' = durable /\ handle' \in {"none", "open", "stale"}
<1>1. chroma \in {"up", "refusing", "silent"} /\ handle \in {"none", "open", "stale"}
  BY DEF AnsweringInv, AnsweringTypeOK
<1>2. CASE LoopStep
  BY <1>2, AnswerSteps DEF LoopStep
<1>3. CASE ChromaFails
  BY <1>1, <1>3 DEF ChromaFails
<1>4. CASE ChromaRecovers
  BY <1>1, <1>4 DEF ChromaRecovers
<1>5. CASE UNCHANGED vars
  BY <1>1, <1>5 DEF vars, storeVars
<1> QED BY <1>2, <1>3, <1>4, <1>5 DEF Next

(***************************************************************************)
(* The invariant is inductive.                                             *)
(***************************************************************************)
LEMMA InvInit == Init => AnsweringInv
<1> SUFFICES ASSUME Init PROVE AnsweringInv
  OBVIOUS
<1>1. Full \in Nat
  BY RetrievalAssumption DEF RetrievalAssumption
<1>2. NotYet \in Result
  BY <1>1 DEF NotYet, Result, Fine, Culprit
<1>3. NoReply \in Reply
  BY <1>2 DEF NoReply, Reply
<1>4. AnsweringTypeOK
  BY <1>2, <1>3 DEF Init, AnsweringTypeOK, Route, Step
<1>5. AgentInv
  BY RequestAssumption DEF Init, AgentInv, RequestAssumption, Sorted
<1>6. ResultsInv
  BY DEF Init, ResultsInv
<1> QED BY <1>4, <1>5, <1>6 DEF AnsweringInv

LEMMA QueueTypes ==
    ASSUME NEW queue \in Seq(Request), NEW r \in Request
    PROVE  /\ Enqueue(queue, r) \in Seq(Request)
           /\ queue # <<>> => Tail(queue) \in Seq(Request)
           /\ queue # <<>> => Enqueue(Tail(queue), r) \in Seq(Request)
BY DEF Enqueue

LEMMA TypeStep ==
    ASSUME AnsweringInv, [Next]_vars
    PROVE  AnsweringTypeOK'
<1> USE DEF loopVars, agentVars, storeVars
<1>1. AnsweringTypeOK
  BY DEF AnsweringInv
<1>2. NotYet \in Result /\ NoReply \in Reply
  <2>1. Full \in Nat
    BY RetrievalAssumption DEF RetrievalAssumption
  <2>2. NotYet \in Result
    BY <2>1 DEF NotYet, Result, Fine, Culprit
  <2> QED BY <2>2 DEF NoReply, Reply
<1>3. ASSUME NEW r \in Request, NEW rt \in Route, Receive(r, rt) PROVE AnsweringTypeOK'
  <2>1. ready' \in Seq(Request)
    BY <1>1, <1>3, QueueTypes DEF Receive, AnsweringTypeOK
  <2> QED BY <1>1, <1>2, <1>3, <2>1 DEF Receive, MoveTo, AnsweringTypeOK
<1>4. ASSUME NEW r \in Request, EnterMiddleware(r) PROVE AnsweringTypeOK'
  <2>1. ready' \in Seq(Request)
    BY <1>1, <1>4, QueueTypes DEF EnterMiddleware, TakesTurn, AnsweringTypeOK
  <2> QED BY <1>1, <1>4, <2>1 DEF EnterMiddleware, MoveTo, AnsweringTypeOK
<1>5. ASSUME NEW r \in Request, AnswerAtOnce(r) PROVE AnsweringTypeOK'
  <2>1. ready' \in Seq(Request)
    BY <1>1, <1>5, QueueTypes DEF AnswerAtOnce, TakesTurn, AnsweringTypeOK
  <2>2. result' \in [Request -> Result]
    <3>1. PICK is \in {"probed", "rejected"} : Return(r, is, 0, "nobody")
      BY <1>5 DEF AnswerAtOnce
    <3>2. [is |-> is, top |-> 0, culprit |-> "nobody"] \in Result
      BY RetrievalAssumption DEF RetrievalAssumption, Result, Fine, Culprit
    <3> QED BY <1>1, <3>1, <3>2 DEF Return, AnsweringTypeOK
  <2> QED BY <1>1, <1>5, <2>1, <2>2 DEF AnswerAtOnce, MoveTo, AnsweringTypeOK
<1>6. ASSUME NEW r \in Request, Leave(r) PROVE AnsweringTypeOK'
  <2>1. ready' \in Seq(Request)
    BY <1>1, <1>6, QueueTypes DEF Leave, TakesTurn, AnsweringTypeOK
  <2>2. result[r] \in Result /\ Status(result[r]) \in {0, 200, 422, 502, 503}
    BY <1>1 DEF AnsweringTypeOK, Status
  <2>3. reply' \in [Request -> Reply]
    <3> DEFINE new == [status |-> Status(result[r]), result |-> result[r],
                       echoed |-> result[r].is \in Fine, counted |-> result[r].is \in Fine]
    <3>1. new \in Reply
      BY <2>2 DEF Reply
    <3>2. reply' = [reply EXCEPT ![r] = new]
      BY <1>6 DEF Leave
    <3> HIDE DEF new
    <3> QED BY <1>1, <3>1, <3>2 DEF AnsweringTypeOK
  <2> QED BY <1>1, <1>2, <1>6, <2>1, <2>3 DEF Leave, MoveTo, AnsweringTypeOK
<1>7. ASSUME NEW r \in Request, StartAnswer(r) PROVE AnsweringTypeOK'
  <2>1. ready' \in Seq(Request)
    BY <1>1, <1>7, QueueTypes DEF StartAnswer, TakesTurn, AnsweringTypeOK
  <2> QED BY <1>1, <1>7, <2>1 DEF StartAnswer, MoveTo, AnsweringTypeOK, Step
<1>8. ASSUME NEW r \in Request, GoesOn(r) PROVE AnsweringTypeOK'
  <2>1. fetched' \in Seq(Candidate) /\ chunks' \in Seq(Retrieved)
    <3>1. CASE fetched' \in QueryResult /\ chunks' = Rerank(fetched')
      <4>1. fetched' \in Seq(Candidate)
        BY <3>1, QueryResultFacts
      <4>2. Rerank(fetched') \in Seq(Retrieved)
        BY <3>1, RerankFacts
      <4> QED BY <3>1, <4>1, <4>2
    <3>2. CASE fetched' = <<>> /\ (chunks' = <<>> \/ chunks' = chunks)
      <4>1. <<>> \in Seq(Candidate) /\ <<>> \in Seq(Retrieved)
        OBVIOUS
      <4> QED BY <1>1, <3>2, <4>1 DEF AnsweringTypeOK
    <3> QED BY <1>8, <3>1, <3>2 DEF GoesOn
  <2>2. step' \in Step
    BY <1>8 DEF GoesOn, Step
  <2> QED BY <1>1, <1>8, <2>1, <2>2 DEF GoesOn, AnsweringTypeOK
<1>9. ASSUME NEW r \in Request, Concludes(r) PROVE AnsweringTypeOK'
  <2>1. PICK res \in Allowed("ask") : Answer(r, res.is, res.top, res.culprit)
    BY <1>9 DEF Concludes
  <2>2. ready' \in Seq(Request)
    BY <1>1, <2>1, QueueTypes DEF Answer, AnsweringTypeOK
  <2>3. [is |-> res.is, top |-> res.top, culprit |-> res.culprit] \in Result
    <3>1. res \in Result
      BY AllowedIsResult DEF Route
    <3> QED BY <3>1 DEF Result
  <2>4. result' \in [Request -> Result]
    BY <1>1, <2>1, <2>3 DEF Answer, Return, AnsweringTypeOK
  <2>5. fetched' \in Seq(Candidate) /\ chunks' \in Seq(Retrieved)
    <3>1. <<>> \in Seq(Candidate) /\ <<>> \in Seq(Retrieved)
      OBVIOUS
    <3> QED BY <2>1, <3>1 DEF Answer
  <2>6. /\ at' \in [Request -> {"idle", "arriving", "routed", "running", "leaving"}]
        /\ running' = NoRequest /\ step' = "none" /\ route' = route /\ reply' = reply
    BY <1>1, <2>1 DEF Answer, MoveTo, AnsweringTypeOK
  <2> QED BY <1>1, <1>9, <2>2, <2>4, <2>5, <2>6 DEF Concludes, AnsweringTypeOK, Step
<1>10. CASE UNCHANGED <<loopVars, agentVars>> /\ chroma' \in {"up", "refusing", "silent"}
            /\ durable' = durable /\ handle' \in {"none", "open", "stale"}
  BY <1>1, <1>10 DEF AnsweringTypeOK
<1> QED BY <1>3, <1>4, <1>5, <1>6, <1>7, <1>8, <1>9, <1>10, StepCases

LEMMA AgentStep ==
    ASSUME AnsweringInv, [Next]_vars
    PROVE  AgentInv'
<1> USE DEF loopVars, agentVars
<1>1. AgentInv /\ AnsweringTypeOK
  BY DEF AnsweringInv
<1>2. NoRequest \notin Request
  BY RequestAssumption DEF RequestAssumption
<1>3. ASSUME NEW r \in Request, NEW rt \in Route, Receive(r, rt) PROVE AgentInv'
  BY <1>1, <1>3 DEF AgentInv, AnsweringTypeOK, Receive, MoveTo, Sorted
<1>4. ASSUME NEW r \in Request, EnterMiddleware(r) PROVE AgentInv'
  BY <1>1, <1>2, <1>4 DEF AgentInv, AnsweringTypeOK, EnterMiddleware, TakesTurn, MoveTo, Sorted
<1>5. ASSUME NEW r \in Request, AnswerAtOnce(r) PROVE AgentInv'
  BY <1>1, <1>2, <1>5 DEF AgentInv, AnsweringTypeOK, AnswerAtOnce, TakesTurn, MoveTo, Sorted
<1>6. ASSUME NEW r \in Request, Leave(r) PROVE AgentInv'
  BY <1>1, <1>2, <1>6 DEF AgentInv, AnsweringTypeOK, Leave, TakesTurn, MoveTo, Sorted
<1>7. ASSUME NEW r \in Request, StartAnswer(r) PROVE AgentInv'
  BY <1>1, <1>2, <1>7 DEF AgentInv, AnsweringTypeOK, StartAnswer, TakesTurn, MoveTo, Sorted
<1>8. ASSUME NEW r \in Request, GoesOn(r) PROVE AgentInv'
  <2>1. step' # "none" /\ running' = running /\ running = r /\ step # "none"
    BY <1>1, <1>2, <1>8 DEF AgentInv, GoesOn
  <2>2. Sorted(chunks')
    BY <1>1, <1>8, RerankFacts DEF AgentInv, GoesOn, Sorted
  <2>3. /\ step' \in {"none", "embed", "open", "query"} => fetched' = <<>> /\ chunks' = <<>>
        /\ step' = "decide" => fetched' \in QueryResult /\ chunks' = Rerank(fetched')
        /\ step' = "refuse" => ShouldRefuse(chunks')
        /\ step' = "generate" => ~ShouldRefuse(chunks')
    BY <1>8 DEF GoesOn
  <2> QED BY <1>1, <1>2, <1>8, <2>1, <2>2, <2>3 DEF AgentInv, GoesOn, Sorted
<1>9. ASSUME NEW r \in Request, Concludes(r) PROVE AgentInv'
  <2>1. /\ running = r /\ running' = NoRequest /\ step' = "none" /\ route' = route
        /\ MoveTo(r, "leaving") /\ fetched' = <<>> /\ chunks' = <<>>
    BY <1>9 DEF Concludes, Answer
  <2> QED BY <1>1, <1>2, <2>1 DEF AgentInv, AnsweringTypeOK, MoveTo, Sorted
<1>10. CASE UNCHANGED <<loopVars, agentVars>>
  BY <1>1, <1>10 DEF AgentInv, Sorted
<1> QED BY <1>3, <1>4, <1>5, <1>6, <1>7, <1>8, <1>9, <1>10, StepCases

LEMMA ResultsStep ==
    ASSUME AnsweringInv, [Next]_vars
    PROVE  ResultsInv'
<1> USE DEF loopVars, agentVars
<1>1. ResultsInv /\ AnsweringTypeOK /\ AgentInv
  BY DEF AnsweringInv
<1> SUFFICES ASSUME NEW q \in Request
             PROVE  /\ at'[q] = "leaving" => result'[q] \in Allowed(route'[q])
                    /\ \/ reply'[q] = NoReply
                       \/ \E rt \in Route :
                             /\ reply'[q].result \in Allowed(rt)
                             /\ reply'[q].status = Status(reply'[q].result)
  BY DEF ResultsInv
<1> DEFINE Good == /\ at'[q] = "leaving" => result'[q] \in Allowed(route'[q])
                   /\ \/ reply'[q] = NoReply
                      \/ \E rt \in Route :
                            /\ reply'[q].result \in Allowed(rt)
                            /\ reply'[q].status = Status(reply'[q].result)
<1>2. at'[q] = at[q] /\ route'[q] = route[q] /\ result'[q] = result[q] /\ reply'[q] = reply[q]
        => Good
  BY <1>1 DEF ResultsInv
<1>3. at'[q] # "leaving" /\ reply'[q] = reply[q] => Good
  BY <1>1 DEF ResultsInv
<1>4. result'[q] \in Allowed(route'[q]) /\ reply'[q] = reply[q] => Good
  BY <1>1 DEF ResultsInv
<1>5. ASSUME NEW r \in Request, NEW rt \in Route, Receive(r, rt) PROVE Good
  <2>1. CASE q = r
    BY <1>1, <1>5, <2>1 DEF Receive, MoveTo, AnsweringTypeOK
  <2>2. CASE q # r
    BY <1>1, <1>2, <1>5, <2>2 DEF Receive, MoveTo, AnsweringTypeOK
  <2> QED BY <2>1, <2>2
<1>6. ASSUME NEW r \in Request, EnterMiddleware(r) \/ StartAnswer(r) PROVE Good
  <2>1. CASE q = r
    BY <1>1, <1>3, <1>6, <2>1 DEF EnterMiddleware, StartAnswer, MoveTo, AnsweringTypeOK
  <2>2. CASE q # r
    BY <1>1, <1>2, <1>6, <2>2 DEF EnterMiddleware, StartAnswer, MoveTo, AnsweringTypeOK
  <2> QED BY <2>1, <2>2
<1>7. ASSUME NEW r \in Request, AnswerAtOnce(r) PROVE Good
  <2>1. CASE q = r
    <3>1. CASE route[r] \in {"healthz", "metrics"} /\ Return(r, "probed", 0, "nobody")
      <4>1. result'[q] = [is |-> "probed", top |-> 0, culprit |-> "nobody"]
        BY <1>1, <2>1, <3>1 DEF Return, AnsweringTypeOK
      <4>2. Allowed(route[q]) = [is : {"probed"}, top : {0}, culprit : {"nobody"}]
        BY <2>1, <3>1 DEF Allowed
      <4>3. result'[q] \in Allowed(route[q])
        BY <4>1, <4>2
      <4> QED BY <1>4, <1>7, <4>3 DEF AnswerAtOnce
    <3>2. CASE route[r] = "ask_empty" /\ Return(r, "rejected", 0, "nobody")
      <4>1. result'[q] = [is |-> "rejected", top |-> 0, culprit |-> "nobody"]
        BY <1>1, <2>1, <3>2 DEF Return, AnsweringTypeOK
      <4>2. result'[q] \in Allowed(route[q])
        BY <2>1, <3>2, <4>1 DEF Allowed
      <4> QED BY <1>4, <1>7, <4>2 DEF AnswerAtOnce
    <3> QED BY <1>7, <3>1, <3>2 DEF AnswerAtOnce
  <2>2. CASE q # r
    BY <1>1, <1>2, <1>7, <2>2 DEF AnswerAtOnce, Return, MoveTo, AnsweringTypeOK
  <2> QED BY <2>1, <2>2
<1>8. ASSUME NEW r \in Request, Leave(r) PROVE Good
  <2>1. CASE q = r
    <3>1. at'[q] = "idle" /\ reply'[q].result = result[q] /\ reply'[q].status = Status(result[q])
      BY <1>1, <1>8, <2>1 DEF Leave, MoveTo, AnsweringTypeOK
    <3>2. result[q] \in Allowed(route[q]) /\ route[q] \in Route
      BY <1>1, <1>8, <2>1 DEF Leave, TakesTurn, ResultsInv, AnsweringTypeOK
    <3> QED BY <3>1, <3>2
  <2>2. CASE q # r
    BY <1>1, <1>2, <1>8, <2>2 DEF Leave, MoveTo, AnsweringTypeOK
  <2> QED BY <2>1, <2>2
<1>9. ASSUME NEW r \in Request, GoesOn(r) PROVE Good
  BY <1>2, <1>9 DEF GoesOn
<1>10. ASSUME NEW r \in Request, Concludes(r) PROVE Good
  <2>1. PICK res \in Allowed("ask") : Answer(r, res.is, res.top, res.culprit)
    BY <1>10 DEF Concludes
  <2>2. CASE q = r
    <3>1. route'[q] = "ask"
      BY <1>1, <1>10, <2>1, <2>2 DEF Concludes, Answer, AgentInv
    <3>2. res = [is |-> res.is, top |-> res.top, culprit |-> res.culprit]
      BY AllowedIsResult DEF Result, Route
    <3>3. result'[q] = res
      BY <1>1, <2>1, <2>2, <3>2 DEF Answer, Return, AnsweringTypeOK
    <3> QED BY <1>4, <2>1, <3>1, <3>3 DEF Answer
  <2>3. CASE q # r
    BY <1>1, <1>2, <2>1, <2>3 DEF Answer, Return, MoveTo, AnsweringTypeOK
  <2> QED BY <2>2, <2>3
<1>11. CASE UNCHANGED <<loopVars, agentVars>>
  BY <1>2, <1>11
<1> QED BY <1>5, <1>6, <1>7, <1>8, <1>9, <1>10, <1>11, StepCases

LEMMA AnsweringInvHolds == Spec => []AnsweringInv
<1>1. AnsweringInv /\ [Next]_vars => AnsweringInv'
  BY TypeStep, AgentStep, ResultsStep DEF AnsweringInv
<1> QED BY <1>1, InvInit, PTL DEF Spec

(***************************************************************************)
(* What follows.                                                           *)
(***************************************************************************)
\* Type correctness.
THEOREM AnsweringTyping == Spec => []AnsweringTypeOK
<1>1. AnsweringInv => AnsweringTypeOK
  BY DEF AnsweringInv
<1> QED BY <1>1, AnsweringInvHolds, PTL

\* FR-009: the guard and the report never contradict each other, whatever the
\* re-ranker put on the chunks and in whatever order.
THEOREM ConfidenceMatchesReportHolds == Spec => []ConfidenceMatchesReport
<1>1. AnsweringInv => ConfidenceMatchesReport
  <2> SUFFICES ASSUME AnsweringInv, NEW r \in Request
               PROVE  /\ reply[r].result.is = "high" => reply[r].result.top >= Threshold
                      /\ reply[r].result.is = "low" => reply[r].result.top < Threshold
    BY DEF ConfidenceMatchesReport
  <2>1. CASE reply[r] = NoReply
    BY <2>1 DEF NoReply, NotYet
  <2>2. CASE \E rt \in Route : reply[r].result \in Allowed(rt)
    BY <2>2, AllowedIsResult
  <2> QED BY <2>1, <2>2 DEF AnsweringInv, ResultsInv
<1> QED BY <1>1, AnsweringInvHolds, PTL

\* The context of an answer is the best of what the collection found: for any
\* number of candidates, any scores and any k.
THEOREM ContextIsBestHolds == Spec => []ContextIsBest
<1>1. AnsweringInv => ContextIsBest
  BY RerankIsBest DEF AnsweringInv, AgentInv, ContextIsBest
<1> QED BY <1>1, AnsweringInvHolds, PTL

(***************************************************************************)
(* The queue of the loop.                                                  *)
(***************************************************************************)
\* A queue of the requests in S, each once.
Once(queue, S) ==
    /\ \A i, j \in DOMAIN queue : queue[i] = queue[j] => i = j
    /\ {queue[i] : i \in DOMAIN queue} = S

LEMMA TurnIs ==
    ASSUME NEW queue \in Seq(Request), NEW S, Once(queue, S), NEW i \in DOMAIN queue
    PROVE  Turn(queue, queue[i]) = i /\ i \in Nat \ {0}
<1>1. \A j \in DOMAIN queue : queue[j] = queue[i] => j = i
  BY DEF Once
<1>2. i \in Nat \ {0}
  OBVIOUS
<1> QED BY <1>1, <1>2 DEF Turn

LEMMA OnceAppend ==
    ASSUME NEW queue \in Seq(Request), NEW S, Once(queue, S), NEW r \in Request, r \notin S
    PROVE  /\ Once(Enqueue(queue, r), S \cup {r})
           /\ \A q \in S : Turn(Enqueue(queue, r), q) = Turn(queue, q)
<1> DEFINE new == Append(queue, r)
           n == Len(queue)
<1>1. /\ new \in Seq(Request) /\ n \in Nat /\ DOMAIN queue = 1..n /\ DOMAIN new = 1..(n + 1)
      /\ \A i \in 1..n : new[i] = queue[i]
      /\ new[n + 1] = r
  OBVIOUS
<1>2. \A i \in 1..n : queue[i] # r
  BY <1>1 DEF Once
<1> HIDE DEF new, n
<1>3. Once(new, S \cup {r})
  <2>1. \A i, j \in DOMAIN new : new[i] = new[j] => i = j
    <3> SUFFICES ASSUME NEW i \in 1..(n + 1), NEW j \in 1..(n + 1), new[i] = new[j] PROVE i = j
      BY <1>1
    <3>1. CASE i = n + 1 /\ j # n + 1
      <4>1. j \in 1..n
        BY <1>1, <3>1
      <4> QED BY <1>1, <1>2, <3>1, <4>1
    <3>2. CASE j = n + 1 /\ i # n + 1
      <4>1. i \in 1..n
        BY <1>1, <3>2
      <4> QED BY <1>1, <1>2, <3>2, <4>1
    <3>3. CASE i # n + 1 /\ j # n + 1
      <4>1. i \in 1..n /\ j \in 1..n
        BY <1>1, <3>3
      <4> QED BY <1>1, <4>1 DEF Once
    <3> QED BY <3>1, <3>2, <3>3
  <2>2. {new[i] : i \in DOMAIN new} = {queue[i] : i \in DOMAIN queue} \cup {r}
    <3>1. 1..(n + 1) = (1..n) \cup {n + 1}
      BY <1>1
    <3> QED BY <1>1, <3>1
  <2> QED BY <2>1, <2>2 DEF Once
<1>4. ASSUME NEW q \in S PROVE Turn(new, q) = Turn(queue, q)
  <2>1. PICK i \in DOMAIN queue : queue[i] = q
    BY <1>4 DEF Once
  <2>2. i \in DOMAIN new /\ new[i] = q
    BY <1>1, <2>1
  <2> QED BY <1>1, <1>3, <2>1, <2>2, TurnIs
<1> QED BY <1>3, <1>4 DEF Enqueue, new

LEMMA OnceTail ==
    ASSUME NEW queue \in Seq(Request), NEW S, Once(queue, S), queue # <<>>
    PROVE  /\ Head(queue) \in S
           /\ Once(Tail(queue), S \ {Head(queue)})
           /\ \A q \in S \ {Head(queue)} :
                 /\ Turn(Tail(queue), q) \in Nat
                 /\ Turn(queue, q) = Turn(Tail(queue), q) + 1
<1> DEFINE new == Tail(queue)
           n == Len(queue)
<1>1. /\ new \in Seq(Request) /\ n \in Nat \ {0} /\ DOMAIN queue = 1..n
      /\ DOMAIN new = 1..(n - 1)
      /\ \A i \in 1..(n - 1) : new[i] = queue[i + 1]
      /\ Head(queue) = queue[1]
  OBVIOUS
<1> HIDE DEF new, n
<1>2. \A i \in 1..(n - 1) : i + 1 \in 1..n /\ i + 1 # 1
  BY <1>1
<1>3. Head(queue) \in S
  BY <1>1 DEF Once
<1>4. Once(new, S \ {Head(queue)})
  <2>1. \A i, j \in DOMAIN new : new[i] = new[j] => i = j
    <3> SUFFICES ASSUME NEW i \in 1..(n - 1), NEW j \in 1..(n - 1), new[i] = new[j] PROVE i = j
      BY <1>1
    <3>1. i + 1 = j + 1
      BY <1>1, <1>2 DEF Once
    <3> QED BY <3>1
  <2>2. \A i \in 1..(n - 1) : new[i] \in S \ {Head(queue)}
    <3> SUFFICES ASSUME NEW i \in 1..(n - 1) PROVE new[i] \in S /\ new[i] # queue[1]
      BY <1>1
    <3>1. PICK j \in 1..n : j = i + 1
      BY <1>2
    <3>2. new[i] = queue[j] /\ j # 1 /\ 1 \in 1..n
      BY <1>1, <1>2, <3>1
    <3> QED BY <1>1, <3>2 DEF Once
  <2>3. ASSUME NEW q \in S, q # Head(queue) PROVE \E i \in 1..(n - 1) : new[i] = q
    <3>1. PICK j \in 1..n : queue[j] = q
      BY <1>1 DEF Once
    <3>2. j - 1 \in 1..(n - 1) /\ (j - 1) + 1 = j
      BY <1>1, <2>3, <3>1
    <3> QED BY <1>1, <3>1, <3>2
  <2>4. {new[i] : i \in DOMAIN new} = S \ {Head(queue)}
    <3>1. DOMAIN new = 1..(n - 1)
      BY <1>1
    <3> HIDE DEF Once
    <3> QED BY <2>2, <2>3, <3>1, Zenon
  <2> QED BY <2>1, <2>4 DEF Once
<1>5. ASSUME NEW q \in S \ {Head(queue)}
      PROVE  Turn(new, q) \in Nat /\ Turn(queue, q) = Turn(new, q) + 1
  <2>1. PICK i \in DOMAIN new : new[i] = q
    BY <1>4, <1>5 DEF Once
  <2>2. i + 1 \in DOMAIN queue /\ queue[i + 1] = q
    BY <1>1, <1>2, <2>1
  <2>3. Turn(new, q) = i /\ i \in Nat
    BY <1>1, <1>4, <2>1, TurnIs
  <2>4. Turn(queue, q) = i + 1
    BY <2>2, TurnIs
  <2> QED BY <2>3, <2>4
<1> QED BY <1>3, <1>4, <1>5 DEF new

Queued == {r \in Request : at[r] # "idle" /\ running # r}

\* The queue holds each open request once, but for the one inside answer().
QueuedOnce == Once(ready, Queued)

\* What a turn of the loop does to the queue.
LEMMA QueueStep ==
    ASSUME AnsweringInv, QueuedOnce, [Next]_vars
    PROVE  QueuedOnce'
<1> USE DEF loopVars, agentVars
<1>1. AnsweringTypeOK /\ AgentInv /\ Once(ready, Queued) /\ ready \in Seq(Request)
  BY DEF QueuedOnce, AnsweringInv, AnsweringTypeOK
<1>2. at \in [Request -> {"idle", "arriving", "routed", "running", "leaving"}]
      /\ NoRequest \notin Request
  BY <1>1, RequestAssumption DEF AnsweringTypeOK, RequestAssumption
<1>3. SUFFICES Once(ready', Queued')
  BY DEF QueuedOnce, Once, Queued
<1>4. ASSUME NEW r \in Request, NEW rt \in Route, Receive(r, rt) PROVE Once(ready', Queued')
  <2>1. ready' = Enqueue(ready, r) /\ r \notin Queued
    BY <1>4 DEF Receive, Queued
  <2>2. Queued' = Queued \cup {r}
    BY <1>1, <1>2, <1>4 DEF Receive, Queued, MoveTo, AgentInv
  <2> QED BY <1>1, <2>1, <2>2, OnceAppend
<1>5. ASSUME NEW r \in Request, EnterMiddleware(r) \/ AnswerAtOnce(r) PROVE Once(ready', Queued')
  <2>1. /\ ready # <<>> /\ Head(ready) = r
        /\ ready' = Enqueue(Tail(ready), r)
    BY <1>5 DEF EnterMiddleware, AnswerAtOnce, TakesTurn
  <2>2. Queued' = (Queued \ {r}) \cup {r}
    BY <1>1, <1>2, <1>5 DEF EnterMiddleware, AnswerAtOnce, TakesTurn, Queued, MoveTo
  <2>3. Once(Tail(ready), Queued \ {r}) /\ Tail(ready) \in Seq(Request)
    BY <1>1, <2>1, OnceTail
  <2> QED BY <2>1, <2>2, <2>3, OnceAppend
<1>6. ASSUME NEW r \in Request, Leave(r) \/ StartAnswer(r) PROVE Once(ready', Queued')
  <2>1. ready # <<>> /\ Head(ready) = r /\ ready' = Tail(ready)
    BY <1>6 DEF Leave, StartAnswer, TakesTurn
  <2>2. Queued' = Queued \ {r}
    BY <1>1, <1>2, <1>6 DEF Leave, StartAnswer, TakesTurn, Queued, MoveTo
  <2> QED BY <1>1, <2>1, <2>2, OnceTail
<1>7. ASSUME NEW r \in Request, GoesOn(r) PROVE Once(ready', Queued')
  BY <1>1, <1>7 DEF GoesOn, Queued
<1>8. ASSUME NEW r \in Request, Concludes(r) PROVE Once(ready', Queued')
  <2>1. /\ running = r /\ running' = NoRequest /\ MoveTo(r, "leaving")
        /\ ready' = Enqueue(ready, r)
    BY <1>8 DEF Concludes, Answer
  <2>2. r \notin Queued /\ Queued' = Queued \cup {r}
    BY <1>2, <2>1 DEF Queued, MoveTo
  <2> QED BY <1>1, <2>1, <2>2, OnceAppend
<1>9. CASE UNCHANGED <<loopVars, agentVars>>
  BY <1>1, <1>9 DEF Queued
<1> QED BY <1>4, <1>5, <1>6, <1>7, <1>8, <1>9, StepCases

\* Nobody is lost between the queue and answer(), or called back twice.
LEMMA QueuedOnceHolds == Spec => []QueuedOnce
<1>1. Init => QueuedOnce
  BY DEF Init, QueuedOnce, Once, Queued
<1>2. AnsweringInv /\ QueuedOnce /\ [Next]_vars => QueuedOnce'
  BY QueueStep
<1> QED BY <1>1, <1>2, AnsweringInvHolds, PTL DEF Spec

(***************************************************************************)
(* Every request gets nearer to its reply.                                 *)
(***************************************************************************)
TurnOf(r) == IF at[r] \in {"idle", "running"} THEN 0 ELSE Turn(ready, r)

LEMMA FirstOfThree ==
    ASSUME NEW a, NEW b, NEW c, NEW d, NEW e, NEW f,
           \/ a < d
           \/ a = d /\ b < e
           \/ a = d /\ b = e /\ c < f
    PROVE  Shorter(<<a, b, c>>, <<d, e, f>>)
<1> DEFINE v == <<a, b, c>>
           w == <<d, e, f>>
<1>1. v[1] = a /\ v[2] = b /\ v[3] = c /\ w[1] = d /\ w[2] = e /\ w[3] = f
  OBVIOUS
<1> HIDE DEF v, w
<1>2. /\ \A j \in 1..(1 - 1) : FALSE
      /\ \A j \in 1..(2 - 1) : j = 1
      /\ \A j \in 1..(3 - 1) : j = 1 \/ j = 2
  OBVIOUS
<1>3. \E i \in 1..3 : v[i] < w[i] /\ \A j \in 1..(i - 1) : v[j] = w[j]
  <2>1. CASE a < d
    <3>1. v[1] < w[1] /\ \A j \in 1..(1 - 1) : v[j] = w[j]
      BY <1>1, <1>2, <2>1
    <3> QED BY <3>1
  <2>2. CASE a = d /\ b < e
    <3>1. v[2] < w[2] /\ \A j \in 1..(2 - 1) : v[j] = w[j]
      BY <1>1, <1>2, <2>2
    <3> QED BY <3>1
  <2>3. CASE a = d /\ b = e /\ c < f
    <3>1. v[3] < w[3] /\ \A j \in 1..(3 - 1) : v[j] = w[j]
      BY <1>1, <1>2, <2>3
    <3> QED BY <3>1
  <2> QED BY <2>1, <2>2, <2>3
<1> QED BY <1>3 DEF Shorter, v, w

\* A call of answer() leaves fewer calls to make, or ends it.
LEMMA CallsDecrease ==
    ASSUME AnsweringInv, NEW r \in Request, AnswerStep(r), ~StartAnswer(r)
    PROVE  /\ running = r /\ CallsLeft' < CallsLeft
           /\ \/ UNCHANGED loopVars
              \/ at' = [at EXCEPT ![r] = "leaving"] /\ ready' = Enqueue(ready, r)
<1> USE DEF Calls, Continue, CallsLeft
<1>1. ASSUME NEW is, NEW top, NEW culprit, Answer(r, is, top, culprit)
      PROVE  /\ step' = "none" /\ CallsLeft' = 0
             /\ at' = [at EXCEPT ![r] = "leaving"] /\ ready' = Enqueue(ready, r)
  BY <1>1 DEF Answer, MoveTo
<1>2. CASE EmbedQuestion(r)
  BY <1>1, <1>2 DEF EmbedQuestion
<1>3. CASE OpenCollection(r)
  BY <1>1, <1>3 DEF OpenCollection
<1>4. CASE QueryCollection(r)
  BY <1>1, <1>4 DEF QueryCollection
<1>5. CASE Decide(r)
  BY <1>5 DEF Decide, Path
<1>6. CASE Refuse(r)
  BY <1>1, <1>6 DEF Refuse
<1>7. CASE Generate(r)
  BY <1>1, <1>7 DEF Generate, Completion
<1> QED BY <1>2, <1>3, <1>4, <1>5, <1>6, <1>7 DEF AnswerStep

\* Whose turn it is gets through one pass, and everybody behind moves up.
LEMMA EverybodyMovesUp ==
    ASSUME AnsweringInv, QueuedOnce, LoopStep, NEW r \in Request, at[r] # "idle"
    PROVE  \/ Passes(r)' < Passes(r)
           \/ Passes(r)' = Passes(r) /\ TurnOf(r)' < TurnOf(r)
           \/ Passes(r)' = Passes(r) /\ TurnOf(r)' = TurnOf(r) /\ CallsLeft' < CallsLeft
<1>1. AnsweringTypeOK /\ AgentInv /\ Once(ready, Queued) /\ ready \in Seq(Request)
  BY DEF QueuedOnce, AnsweringInv, AnsweringTypeOK
<1>2. at \in [Request -> {"idle", "arriving", "routed", "running", "leaving"}]
      /\ NoRequest \notin Request
  BY <1>1, RequestAssumption DEF AnsweringTypeOK, RequestAssumption
<1>3. PICK q \in Request : EnterMiddleware(q) \/ AnswerAtOnce(q) \/ Leave(q) \/ AnswerStep(q)
  BY DEF LoopStep
<1>4. CASE EnterMiddleware(q) \/ AnswerAtOnce(q) \/ Leave(q) \/ StartAnswer(q)
  <2>1. /\ running = NoRequest /\ ready # <<>> /\ Head(ready) = q
        /\ ready' = Tail(ready) \/ ready' = Enqueue(Tail(ready), q)
        /\ \/ at[q] = "arriving" /\ at' = [at EXCEPT ![q] = "routed"]
           \/ at[q] = "routed" /\ at' = [at EXCEPT ![q] = "leaving"]
           \/ at[q] = "routed" /\ at' = [at EXCEPT ![q] = "running"]
           \/ at[q] = "leaving" /\ at' = [at EXCEPT ![q] = "idle"]
    BY <1>4 DEF EnterMiddleware, AnswerAtOnce, Leave, StartAnswer, TakesTurn, MoveTo
  <2>2. CASE q = r
    <3>1. Passes(r)' < Passes(r)
      BY <1>2, <2>1, <2>2 DEF Passes
    <3> QED BY <3>1
  <2>3. CASE q # r
    <3>1. at'[r] = at[r] /\ Passes(r)' = Passes(r) /\ at[r] \notin {"idle", "running"}
      BY <1>1, <1>2, <2>1, <2>3 DEF Passes, AgentInv
    <3>2. r \in Queued \ {q}
      BY <1>2, <2>1, <2>3 DEF Queued
    <3>3. /\ Once(Tail(ready), Queued \ {q}) /\ Tail(ready) \in Seq(Request)
          /\ Turn(Tail(ready), r) \in Nat
          /\ Turn(ready, r) = Turn(Tail(ready), r) + 1
      <4>1. Tail(ready) \in Seq(Request)
        BY <1>1, <2>1
      <4>2. /\ Once(Tail(ready), Queued \ {q})
            /\ \A p \in Queued \ {q} :
                  /\ Turn(Tail(ready), p) \in Nat
                  /\ Turn(ready, p) = Turn(Tail(ready), p) + 1
        BY <1>1, <2>1, OnceTail
      <4> QED BY <3>2, <4>1, <4>2
    <3>4. Turn(Enqueue(Tail(ready), q), r) = Turn(Tail(ready), r)
      BY <3>2, <3>3, OnceAppend
    <3>5. TurnOf(r)' = Turn(Tail(ready), r) /\ TurnOf(r) = Turn(Tail(ready), r) + 1
      BY <2>1, <3>1, <3>3, <3>4 DEF TurnOf
    <3> QED BY <3>1, <3>3, <3>5
  <2> QED BY <2>2, <2>3
<1>5. CASE AnswerStep(q) /\ ~StartAnswer(q)
  <2>1. /\ running = q /\ CallsLeft' < CallsLeft
        /\ \/ UNCHANGED loopVars
           \/ at' = [at EXCEPT ![q] = "leaving"] /\ ready' = Enqueue(ready, q)
    BY <1>5, CallsDecrease
  <2>2. CASE UNCHANGED loopVars
    BY <2>1, <2>2 DEF loopVars, Passes, TurnOf
  <2>3. CASE at' = [at EXCEPT ![q] = "leaving"] /\ ready' = Enqueue(ready, q)
    <3>1. CASE q = r
      <4>1. Passes(r)' < Passes(r)
        BY <1>1, <1>2, <2>1, <2>3, <3>1 DEF Passes, AgentInv
      <4> QED BY <4>1
    <3>2. CASE q # r
      <4>1. at'[r] = at[r] /\ Passes(r)' = Passes(r) /\ at[r] \notin {"idle", "running"}
        BY <1>1, <1>2, <2>1, <2>3, <3>2 DEF Passes, AgentInv
      <4>2. r \in Queued /\ q \notin Queued
        BY <2>1, <3>2 DEF Queued
      <4>3. Turn(ready', r) = Turn(ready, r)
        BY <1>1, <2>3, <4>2, OnceAppend
      <4> QED BY <2>1, <4>1, <4>3 DEF TurnOf
    <3> QED BY <3>1, <3>2
  <2> QED BY <2>1, <2>2, <2>3
<1> QED BY <1>3, <1>4, <1>5 DEF AnswerStep

\* What the loop does not do changes nobody's wait.
LEMMA OthersDoNotCount ==
    ASSUME AnsweringInv, QueuedOnce, Next, ~LoopStep, NEW r \in Request, at[r] # "idle"
    PROVE  Wait(r)' = Wait(r)
<1>1. AnsweringTypeOK /\ AgentInv /\ Once(ready, Queued) /\ ready \in Seq(Request)
  BY DEF QueuedOnce, AnsweringInv, AnsweringTypeOK
<1>2. CASE ChromaFails \/ ChromaRecovers
  BY <1>2 DEF ChromaFails, ChromaRecovers, loopVars, agentVars, Wait, Passes, CallsLeft
<1>3. ASSUME NEW q \in Request, NEW rt \in Route, Receive(q, rt) PROVE Wait(r)' = Wait(r)
  <2>1. /\ q # r /\ q \notin Queued /\ ready' = Enqueue(ready, q)
        /\ step' = step
    BY <1>3 DEF Receive, Queued, agentVars
  <2>2. at'[r] = at[r]
    BY <1>1, <1>3, <2>1 DEF Receive, MoveTo, AnsweringTypeOK
  <2>3. at[r] \notin {"idle", "running"} => Turn(ready', r) = Turn(ready, r)
    <3> SUFFICES ASSUME at[r] \notin {"idle", "running"} PROVE r \in Queued
      BY <1>1, <2>1, OnceAppend
    <3> QED BY <1>1 DEF Queued, AgentInv
  <2> QED BY <2>1, <2>2, <2>3 DEF Wait, Passes, CallsLeft
<1> QED BY <1>2, <1>3 DEF Next

\* No request is overtaken for ever: each step of the loop takes every open
\* request nearer to its reply, for any number of requests, and nothing takes
\* one further away from it.
THEOREM NobodyOvertakenHolds == Spec => NobodyOvertaken
<1>1. AnsweringInv /\ QueuedOnce /\ [Next]_vars =>
        [\A r \in Request : at[r] # "idle" =>
            \/ Shorter(Wait(r)', Wait(r))
            \/ Wait(r)' = Wait(r) /\ ~LoopStep]_vars
  <2> SUFFICES ASSUME AnsweringInv, QueuedOnce, Next, NEW r \in Request, at[r] # "idle"
               PROVE  Shorter(Wait(r)', Wait(r)) \/ (Wait(r)' = Wait(r) /\ ~LoopStep)
    OBVIOUS
  <2>1. CASE LoopStep
    <3>1. /\ Wait(r) = <<Passes(r), TurnOf(r), CallsLeft>>
          /\ Wait(r)' = <<Passes(r)', TurnOf(r)', CallsLeft'>>
      BY DEF Wait, TurnOf
    <3> HIDE DEF Passes, TurnOf, CallsLeft
    <3>2. Shorter(<<Passes(r)', TurnOf(r)', CallsLeft'>>, <<Passes(r), TurnOf(r), CallsLeft>>)
      BY <2>1, EverybodyMovesUp, FirstOfThree
    <3> QED BY <3>1, <3>2
  <2>2. CASE ~LoopStep
    BY <2>2, OthersDoNotCount
  <2> QED BY <2>1, <2>2
<1> QED BY <1>1, AnsweringInvHolds, QueuedOnceHolds, PTL DEF Spec, NobodyOvertaken

(***************************************************************************)
(* The refinement: AskContract's variables as functions of Answering's.    *)
(***************************************************************************)
AskedNow == [r \in Request |-> IF at[r] = "idle" THEN "nothing" ELSE route[r]]

VerdictNow == [r \in Request |-> IF at[r] = "leaving" THEN Verdict(result[r]) ELSE Nothing]

ToldNow == [r \in Request |-> IF reply[r].status = 0 THEN Nothing ELSE Verdict(reply[r].result)]

LEMMA NothingIsNone == Contract!None = Nothing
BY DEF Contract!None, Contract!Plain, Nothing

LEMMA ContractStart == Init => Contract!ContractInit
BY NothingIsNone DEF Init, Contract!ContractInit, NoReply

\* The view of one request after a step that changes at most its entries.
LEMMA ContractStep ==
    ASSUME AnsweringInv, [Next]_vars
    PROVE  [Contract!ContractNext]_(Contract!contractVars)
<1> USE DEF loopVars, agentVars
<1>1. AnsweringTypeOK /\ AgentInv /\ ResultsInv
  BY DEF AnsweringInv
<1>2. AskedNow' = AskedNow /\ VerdictNow' = VerdictNow /\ ToldNow' = ToldNow
        => UNCHANGED Contract!contractVars
  BY DEF AskedNow, VerdictNow, ToldNow, Contract!contractVars
<1>3. ASSUME NEW r \in Request, NEW rt \in Route, Receive(r, rt) PROVE Contract!Ask(r, rt)
  <2>1. at[r] = "idle" /\ rt # "nothing"
    BY <1>3 DEF Receive, Route
  <2>2. AskedNow' = [AskedNow EXCEPT ![r] = rt]
    BY <1>1, <1>3 DEF Receive, MoveTo, AskedNow, AnsweringTypeOK
  <2>3. ToldNow' = [ToldNow EXCEPT ![r] = Nothing]
    BY <1>1, <1>3 DEF Receive, NoReply, ToldNow, AnsweringTypeOK
  <2>4. VerdictNow' = VerdictNow
    BY <1>1, <1>3 DEF Receive, MoveTo, VerdictNow, AnsweringTypeOK
  <2> QED BY <2>1, <2>2, <2>3, <2>4, NothingIsNone
          DEF Contract!Ask, AskedNow, VerdictNow, ToldNow
<1>4. ASSUME NEW r \in Request, EnterMiddleware(r) \/ StartAnswer(r)
      PROVE  UNCHANGED Contract!contractVars
  <2>1. at[r] \notin {"idle", "leaving"} /\ at' \in [Request -> {"idle", "arriving", "routed", "running", "leaving"}]
        /\ at'[r] \notin {"idle", "leaving"} /\ \A q \in Request : q # r => at'[q] = at[q]
    BY <1>1, <1>4 DEF EnterMiddleware, StartAnswer, TakesTurn, MoveTo, AnsweringTypeOK
  <2>2. route' = route /\ result' = result /\ reply' = reply
    BY <1>4 DEF EnterMiddleware, StartAnswer
  <2> QED BY <1>2, <2>1, <2>2 DEF AskedNow, VerdictNow, ToldNow
\* What a request is decided, in one step or many, it was promised.
<1>5. ASSUME NEW r \in Request, NEW res \in Allowed(route[r]),
             at[r] \in {"routed", "running"}, MoveTo(r, "leaving"),
             result' = [result EXCEPT ![r] = res], UNCHANGED <<route, reply>>
      PROVE  \E v \in Contract!Promised(AskedNow[r]) : Contract!Decide(r, v)
  <2>1. AskedNow[r] = route[r] /\ route[r] \in Route /\ route[r] # "nothing"
    BY <1>1, <1>5 DEF AskedNow, AnsweringTypeOK, Route
  <2>2. Verdict(res) \in Contract!Promised(AskedNow[r])
    BY <2>1, VerdictIsPromised
  <2>3. VerdictNow[r] = Nothing
    BY <1>5 DEF VerdictNow
  <2>4. VerdictNow' = [VerdictNow EXCEPT ![r] = Verdict(res)]
    BY <1>1, <1>5 DEF VerdictNow, MoveTo, AnsweringTypeOK
  <2>5. AskedNow' = AskedNow /\ ToldNow' = ToldNow
    BY <1>1, <1>5 DEF AskedNow, ToldNow, MoveTo, AnsweringTypeOK
  <2>6. Contract!Decide(r, Verdict(res))
    BY <2>1, <2>2, <2>3, <2>4, <2>5, NothingIsNone
    DEF Contract!Decide, AskedNow, VerdictNow, ToldNow
  <2> QED BY <2>2, <2>6
<1>6. ASSUME NEW r \in Request, AnswerAtOnce(r)
      PROVE  \E v \in Contract!Promised(AskedNow[r]) : Contract!Decide(r, v)
  <2>1. at[r] = "routed" /\ MoveTo(r, "leaving") /\ UNCHANGED <<route, reply>>
    BY <1>6 DEF AnswerAtOnce, TakesTurn
  <2>2. CASE route[r] \in {"healthz", "metrics"} /\ Return(r, "probed", 0, "nobody")
    <3>1. [is |-> "probed", top |-> 0, culprit |-> "nobody"] \in Allowed(route[r])
      BY <2>2 DEF Allowed
    <3> QED BY <1>5, <2>1, <2>2, <3>1 DEF Return
  <2>3. CASE route[r] = "ask_empty" /\ Return(r, "rejected", 0, "nobody")
    <3>1. [is |-> "rejected", top |-> 0, culprit |-> "nobody"] \in Allowed(route[r])
      BY <2>3 DEF Allowed
    <3> QED BY <1>5, <2>1, <2>3, <3>1 DEF Return
  <2> QED BY <1>6, <2>2, <2>3 DEF AnswerAtOnce
<1>7. ASSUME NEW r \in Request, Concludes(r)
      PROVE  \E v \in Contract!Promised(AskedNow[r]) : Contract!Decide(r, v)
  <2>1. PICK res \in Allowed("ask") : Answer(r, res.is, res.top, res.culprit)
    BY <1>7 DEF Concludes
  <2>2. at[r] = "running" /\ route[r] = "ask"
    BY <1>1, <1>7 DEF Concludes, AgentInv
  <2>3. res = [is |-> res.is, top |-> res.top, culprit |-> res.culprit]
    BY AllowedIsResult DEF Result, Route
  <2>4. result' = [result EXCEPT ![r] = res]
    BY <2>1, <2>3 DEF Answer, Return
  <2> QED BY <1>5, <2>1, <2>2, <2>4 DEF Answer
<1>8. ASSUME NEW r \in Request, Leave(r) PROVE Contract!Tell(r)
  <2>1. at[r] = "leaving" /\ result[r] \in Allowed(route[r]) /\ route[r] \in Route
    BY <1>1, <1>8 DEF Leave, TakesTurn, ResultsInv, AnsweringTypeOK
  <2>2. VerdictNow[r] = Verdict(result[r]) /\ Verdict(result[r]) # Nothing
        /\ Status(result[r]) # 0
    BY <2>1, VerdictIsPromised, AllowedIsResult DEF VerdictNow
  <2>3. AskedNow' = [AskedNow EXCEPT ![r] = "nothing"]
    BY <1>1, <1>8 DEF Leave, MoveTo, AskedNow, AnsweringTypeOK
  <2>4. VerdictNow' = [VerdictNow EXCEPT ![r] = Nothing]
    BY <1>1, <1>8 DEF Leave, MoveTo, VerdictNow, AnsweringTypeOK
  <2>5. ToldNow' = [ToldNow EXCEPT ![r] = Verdict(result[r])]
    BY <1>1, <1>8, <2>2 DEF Leave, ToldNow, AnsweringTypeOK
  <2> QED BY <2>2, <2>3, <2>4, <2>5, NothingIsNone
          DEF Contract!Tell, AskedNow, VerdictNow, ToldNow
<1>9. ASSUME UNCHANGED loopVars PROVE UNCHANGED Contract!contractVars
  BY <1>2, <1>9 DEF AskedNow, VerdictNow, ToldNow
<1>10. ASSUME NEW r \in Request, NEW v \in Contract!Promised(AskedNow[r]), Contract!Decide(r, v)
       PROVE  Contract!ContractNext
  BY <1>10 DEF Contract!ContractNext, AskedNow
<1>11. (\E r \in Request, rt \in Route : Contract!Ask(r, rt)) => Contract!ContractNext
  BY DEF Contract!ContractNext, Contract!Asks, Route
<1>12. (\E r \in Request : Contract!Tell(r)) => Contract!ContractNext
  BY DEF Contract!ContractNext
<1>13. ASSUME NEW r \in Request, GoesOn(r) PROVE UNCHANGED loopVars
  BY <1>13 DEF GoesOn
<1> QED BY <1>3, <1>4, <1>6, <1>7, <1>8, <1>9, <1>10, <1>11, <1>12, <1>13, StepCases

\* The API implements AskContract: however the requests interleave on the loop
\* and whatever Chroma and the providers do meanwhile, each is told exactly the
\* verdict that was decided for it, one its route allows.
THEOREM ImplementsContractHolds == Spec => ImplementsContract
<1>1. Init => Contract!ContractInit
  BY ContractStart
<1>2. AnsweringInv /\ [Next]_vars => [Contract!ContractNext]_(Contract!contractVars)
  BY ContractStep
<1> QED BY <1>1, <1>2, AnsweringInvHolds, PTL DEF Spec, ImplementsContract, Contract!ContractSpec

=============================================================================
