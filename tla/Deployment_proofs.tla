-------------------------- MODULE Deployment_proofs --------------------------
(***************************************************************************)
(* What holds of an installation with any number of pods, Jobs and other   *)
(* users of the adapter, and any number of keys, edits, resets and chunks. *)
(***************************************************************************)
EXTENDS Deployment, TLAPS

(***************************************************************************)
(* Every step, seen from the collection and the adapters.                  *)
(***************************************************************************)
\* The processes touch the collection through the adapter only, and chunks are
\* written by Jobs, with the settings they started with.
JobUpsert ==
    \E j \in Job, n \in 1..MaxChunks :
        at[j] = "upsert" /\ Store!UpsertChunks(j, n, made_with[j])

StoreStep ==
    \/ \E c \in Process : Store!Ensure(c) \/ Store!GetIds(c) \/ Store!DeleteIds(c) \/ Store!Forget(c)
    \/ JobUpsert
    \/ Store!DropCollection
    \/ UNCHANGED store

LEMMA EveryStepIsStoreStep == [Next]_vars => StoreStep
<1> SUFFICES ASSUME [Next]_vars PROVE StoreStep
  OBVIOUS
<1> USE DEF Process
<1>1. CASE UNCHANGED vars
  BY <1>1 DEF vars, StoreStep
<1>2. ASSUME NEW c \in Process, NEW s, Opens(c, s) PROVE StoreStep
  BY <1>2 DEF Opens, StoreStep
<1>3. ASSUME NEW c \in Process, Starts(c) PROVE StoreStep
  BY <1>3 DEF Starts, StoreStep
<1>4. ASSUME NEW p \in Pod, Ask(p) \/ PodStep(p) \/ RestartPod(p) PROVE StoreStep
  <2>1. CASE Ask(p) \/ EmbedQuestion(p) \/ Generate(p) \/ Outage(p)
    BY <2>1 DEF Ask, EmbedQuestion, Generate, Outage, StoreStep, store
  <2>2. CASE OpenForQuery(p)
    BY <2>2, <1>2 DEF OpenForQuery
  <2>3. CASE QueryCollection(p)
    BY <2>3 DEF QueryCollection, StoreStep, store, Store!Read, Store!storeVars
  <2>4. CASE RestartPod(p)
    BY <2>4, <1>3 DEF RestartPod
  <2> QED BY <1>4, <2>1, <2>2, <2>3, <2>4 DEF PodStep
<1>5. ASSUME NEW j \in Job, JobStep(j) PROVE StoreStep
  <2>1. CASE Launch(j)
    BY <2>1, <1>3 DEF Launch
  <2>2. CASE UseKey(j)
    BY <2>2 DEF UseKey, StoreStep, store
  <2>3. CASE OpenForUpsert(j)
    BY <2>3, <1>2 DEF OpenForUpsert
  <2>4. CASE Upsert(j)
    BY <2>4 DEF Upsert, Moves, StoreStep, JobUpsert
  <2> QED BY <1>5, <2>1, <2>2, <2>3, <2>4 DEF JobStep
<1>6. ASSUME NEW s \in Sweeper, SweepStep(s) PROVE StoreStep
  <2>1. CASE Begin(s) \/ Count(s)
    BY <2>1 DEF Begin, Count, StoreStep, store, Store!Read, Store!storeVars
  <2>2. CASE OpenForSweep(s)
    BY <2>2, <1>2 DEF OpenForSweep
  <2>3. CASE GetIds(s) \/ DeleteIds(s)
    BY <2>3 DEF GetIds, DeleteIds, StoreStep
  <2> QED BY <1>6, <2>1, <2>2, <2>3 DEF SweepStep
<1>7. ASSUME NEW c \in Job \cup Sweeper, Ends(c) PROVE StoreStep
  BY <1>7 DEF Ends, StoreStep
<1>8. CASE OperatorStep
  BY <1>8 DEF OperatorStep, RotateKey, RevokeKey, EditSettings, ResetCollection, StoreStep, store
<1> QED BY <1>1, <1>4, <1>5, <1>6, <1>7, <1>8 DEF Next

(***************************************************************************)
(* Types.                                                                  *)
(***************************************************************************)
LEMMA StoreStepTypes ==
    ASSUME Store!StoreTypeOK, made_with \in [Process -> Nat], StoreStep
    PROVE  Store!StoreTypeOK'
<1> USE DEF Store!StoreTypeOK
<1>1. ASSUME NEW c \in Process, Store!Ensure(c) PROVE Store!StoreTypeOK'
  BY <1>1 DEF Store!Ensure, Store!historyVars
<1>2. ASSUME NEW c \in Process, Store!GetIds(c) PROVE Store!StoreTypeOK'
  BY <1>2 DEF Store!GetIds, Store!Stored
<1>3. ASSUME NEW c \in Process, Store!DeleteIds(c) PROVE Store!StoreTypeOK'
  BY <1>3 DEF Store!DeleteIds, Store!Ordinal
<1>4. ASSUME NEW c \in Process, Store!Forget(c) PROVE Store!StoreTypeOK'
  BY <1>4 DEF Store!Forget
<1>5. CASE JobUpsert
  BY <1>5 DEF JobUpsert, Store!UpsertChunks, Process
<1>6. CASE Store!DropCollection
  BY <1>6 DEF Store!DropCollection
<1>7. CASE UNCHANGED store
  BY <1>7 DEF store, Store!Ordinal
<1> QED BY <1>1, <1>2, <1>3, <1>4, <1>5, <1>6, <1>7 DEF StoreStep

\* All variables keep their types.
THEOREM DeploymentTyping == Spec => []DeploymentTypeOK
<1>1. Init => DeploymentTypeOK
  <2> SUFFICES ASSUME Init PROVE DeploymentTypeOK
    OBVIOUS
  <2>1. Store!StoreTypeOK
    BY DEF Init, Store!StoreInit, Store!StoreTypeOK
  <2>2. at \in [Process -> Stage] /\ key \in [Process -> Nat] /\ made_with \in [Process -> Nat]
    BY DEF Init, Stage
  <2>3. trouble \in [Pod -> Trouble] /\ fresh \in SUBSET Pod /\ clean \in BOOLEAN
    BY DEF Init, Trouble
  <2> QED BY <2>1, <2>2, <2>3 DEF Init, DeploymentTypeOK
<1>2. DeploymentTypeOK /\ [Next]_vars => DeploymentTypeOK'
  <2> SUFFICES ASSUME DeploymentTypeOK, [Next]_vars PROVE DeploymentTypeOK'
    OBVIOUS
  <2>1. Store!StoreTypeOK'
    BY EveryStepIsStoreStep, StoreStepTypes DEF DeploymentTypeOK
  <2> DEFINE Rest ==
        /\ secret \in Nat \ {0} /\ accepted \in SUBSET (Nat \ {0}) /\ model \in Nat \ {0}
        /\ at \in [Process -> Stage]
        /\ key \in [Process -> Nat]
        /\ made_with \in [Process -> Nat]
        /\ trouble \in [Pod -> Trouble]
        /\ fresh \in SUBSET Pod
        /\ clean \in BOOLEAN
  <2>2. Rest
    BY DEF DeploymentTypeOK
  <2> USE DEF Process, Stage, Trouble, Still, Moves, settings, environment, history
  <2>3. ASSUME NEW c \in Process, NEW s \in Stage, Opens(c, s) PROVE Rest'
    BY <2>2, <2>3 DEF Opens
  <2>5. ASSUME NEW p \in Pod, Ask(p) \/ PodStep(p) \/ RestartPod(p) PROVE Rest'
    <3>1. CASE Ask(p)
      BY <2>2, <3>1 DEF Ask
    <3>2. CASE EmbedQuestion(p)
      BY <2>2, <3>2 DEF EmbedQuestion, Replies
    <3>3. CASE OpenForQuery(p)
      BY <2>3, <3>3 DEF OpenForQuery
    <3>4. CASE QueryCollection(p)
      BY <2>2, <3>4 DEF QueryCollection, Replies
    <3>5. CASE Generate(p)
      BY <2>2, <3>5 DEF Generate, Replies
    <3>6. CASE Outage(p)
      BY <2>2, <3>6 DEF Outage, Replies
    <3>7. CASE RestartPod(p)
      BY <2>2, <3>7 DEF RestartPod, Starts
    <3> QED BY <2>5, <3>1, <3>2, <3>3, <3>4, <3>5, <3>6, <3>7 DEF PodStep
  <2>6. ASSUME NEW j \in Job, JobStep(j) PROVE Rest'
    <3>1. CASE OpenForUpsert(j)
      BY <2>3, <3>1 DEF OpenForUpsert
    <3>2. CASE Launch(j)
      BY <2>2, <3>2 DEF Launch, Starts
    <3>3. CASE UseKey(j) \/ Upsert(j)
      BY <2>2, <3>3 DEF UseKey, Upsert
    <3> QED BY <2>6, <3>1, <3>2, <3>3 DEF JobStep
  <2>7. ASSUME NEW s \in Sweeper, SweepStep(s) PROVE Rest'
    <3>1. CASE OpenForSweep(s)
      BY <2>3, <3>1 DEF OpenForSweep
    <3>2. CASE Begin(s) \/ GetIds(s) \/ DeleteIds(s) \/ Count(s)
      BY <2>2, <3>2 DEF Begin, GetIds, DeleteIds, Count
    <3> QED BY <2>7, <3>1, <3>2 DEF SweepStep
  <2>8. ASSUME NEW c \in Job \cup Sweeper, Ends(c) PROVE Rest'
    BY <2>2, <2>8 DEF Ends
  <2>9. ASSUME OperatorStep PROVE Rest'
    <3>1. ASSUME ResetCollection PROVE Rest'
      <4>1. clean' \in BOOLEAN
        BY <3>1, Zenon DEF ResetCollection
      <4>2. UNCHANGED <<secret, accepted, model, at, key, made_with, trouble>> /\ fresh' \in SUBSET fresh
        BY <3>1 DEF ResetCollection, Same
      <4> QED BY <2>2, <4>1, <4>2
    <3>2. ASSUME RotateKey PROVE Rest'
      BY <2>2, <3>2 DEF RotateKey, Same
    <3>3. ASSUME EditSettings PROVE Rest'
      <4>1. clean' \in BOOLEAN
        BY <3>3, Zenon DEF EditSettings
      <4>2. model' = model + 1 /\ fresh' = {} /\ UNCHANGED <<secret, accepted, at, key, made_with, trouble>>
        BY <3>3 DEF EditSettings, Same
      <4> QED BY <2>2, <4>1, <4>2
    <3>4. ASSUME NEW k \in accepted, RevokeKey(k) PROVE Rest'
      BY <2>2, <3>4 DEF RevokeKey, Same
    <3> QED BY <2>9, <3>1, <3>2, <3>3, <3>4 DEF OperatorStep
  <2>10. ASSUME UNCHANGED vars PROVE Rest'
    BY <2>2, <2>10 DEF vars
  <2>11. Rest'
    BY <2>5, <2>6, <2>7, <2>8, <2>9, <2>10 DEF Next
  <2> QED BY <2>1, <2>11 DEF DeploymentTypeOK
<1> QED BY <1>1, <1>2, PTL DEF Spec

(***************************************************************************)
(* Handles. An id is never given to a second collection, so that a handle  *)
(* that has stopped working never works again.                             *)
(***************************************************************************)
HandlesInv ==
    /\ collection <= made
    /\ \A c \in Process : handle[c] <= made

LEMMA HandlesStep ==
    ASSUME Store!StoreTypeOK, HandlesInv, StoreStep
    PROVE  HandlesInv'
<1> USE DEF Store!StoreTypeOK, HandlesInv
<1>1. ASSUME NEW c \in Process, Store!Ensure(c) PROVE HandlesInv'
  BY <1>1 DEF Store!Ensure
<1>2. ASSUME NEW c \in Process, Store!GetIds(c) \/ Store!DeleteIds(c) \/ Store!Forget(c) PROVE HandlesInv'
  BY <1>2 DEF Store!GetIds, Store!DeleteIds, Store!Forget
<1>3. ASSUME JobUpsert \/ UNCHANGED store PROVE HandlesInv'
  BY <1>3 DEF JobUpsert, Store!UpsertChunks, store
<1>4. CASE Store!DropCollection
  BY <1>4 DEF Store!DropCollection
<1> QED BY <1>1, <1>2, <1>3, <1>4 DEF StoreStep

(***************************************************************************)
(* Whole pages. Whoever has got the ids of the page, and was not overtaken *)
(* by an upsert since, has got all that are there or cannot reach them.    *)
(***************************************************************************)
PageInv ==
    /\ \A c \in Process : seen[c] # {} => handle[c] # 0
    /\ \A c \in Process \ overtaken :
          seen[c] = {} \/ handle[c] # collection \/ Store!Stored \subseteq seen[c]
    /\ Store!NoHoles

LEMMA PageStep ==
    ASSUME Store!StoreTypeOK, HandlesInv, PageInv, StoreStep,
           \A j \in Job : at[j] = "upsert" => made_with[j] \in Nat \ {0}
    PROVE  PageInv'
<1> USE DEF Store!StoreTypeOK, HandlesInv, PageInv, Store!NoHoles, Store!Stored, Process
<1>1. ASSUME NEW c \in Process, Store!Ensure(c) PROVE PageInv'
  BY <1>1 DEF Store!Ensure, Store!historyVars, Store!Ordinal
<1>2. ASSUME NEW c \in Process, Store!GetIds(c) PROVE PageInv'
  BY <1>2 DEF Store!GetIds, Store!Reaches
<1>3. ASSUME NEW c \in Process, Store!DeleteIds(c) PROVE PageInv'
  <2>1. Store!NoHoles'
    <3>1. CASE seen[c] = {}
      BY <1>3, <3>1 DEF Store!DeleteIds, Store!Ordinal
    <3>2. CASE seen[c] # {} /\ c \in overtaken
      BY <1>3, <3>2 DEF Store!DeleteIds
    <3>3. CASE seen[c] # {} /\ c \notin overtaken
      BY <1>3, <3>3 DEF Store!DeleteIds, Store!Reaches, Store!Ordinal
    <3> QED BY <3>1, <3>2, <3>3
  <2>2. Store!Stored' \subseteq Store!Stored
    BY <1>3 DEF Store!DeleteIds, Store!Ordinal
  <2>3. \A d \in Process : seen'[d] # {} => handle'[d] # 0
    BY <1>3 DEF Store!DeleteIds
  <2>4. ASSUME NEW d \in Process \ overtaken'
        PROVE  seen'[d] = {} \/ handle'[d] # collection' \/ Store!Stored' \subseteq seen'[d]
    <3>1. CASE d = c
      BY <1>3, <3>1 DEF Store!DeleteIds
    <3>2. CASE d # c
      BY <1>3, <2>2, <3>2 DEF Store!DeleteIds
    <3> QED BY <3>1, <3>2
  <2> QED BY <2>1, <2>3, <2>4
<1>4. ASSUME NEW c \in Process, Store!Forget(c) PROVE PageInv'
  BY <1>4 DEF Store!Forget, Store!Ordinal
<1>5. CASE JobUpsert
  <2>1. PICK j \in Job, n \in 1..MaxChunks : at[j] = "upsert" /\ Store!UpsertChunks(j, n, made_with[j])
    BY <1>5 DEF JobUpsert
  <2>2. Store!NoHoles'
    BY <2>1 DEF Store!UpsertChunks, Store!Ordinal
  <2>3. \A d \in Process \ overtaken' : seen'[d] = {}
    BY <2>1 DEF Store!UpsertChunks
  <2> QED BY <2>1, <2>2, <2>3 DEF Store!UpsertChunks
<1>6. CASE Store!DropCollection
  BY <1>6 DEF Store!DropCollection, Store!Ordinal
<1>7. CASE UNCHANGED store
  BY <1>7 DEF store, Store!Ordinal
<1> QED BY <1>1, <1>2, <1>3, <1>4, <1>5, <1>6, <1>7 DEF StoreStep

(***************************************************************************)
(* Nothing stale. A fresh pod carries what a new one would read, its       *)
(* handle works, and while the rebuilt collection is clean, a Job with     *)
(* older settings can only hold a handle that does not work.               *)
(***************************************************************************)
JobsInv == \A j \in Job : at[j] # "off" => made_with[j] # 0

FreshInv ==
    /\ secret \in accepted
    /\ \A p \in fresh : key[p] = secret /\ made_with[p] = model /\ handle[p] \in {0, collection}
    /\ \A p \in Pod : at[p] = "query" \/ trouble[p] = "vectors" => handle[p] # 0

CleanInv ==
    clean => \A j \in Job :
        at[j] = "off" \/ made_with[j] = model \/ handle[j] \notin {0, collection}

StaleInv ==
    /\ HandlesInv /\ JobsInv /\ FreshInv /\ CleanInv
    /\ RestartCures /\ ResetRebuilds

LEMMA StaleInit == Init => StaleInv
<1> SUFFICES ASSUME Init PROVE StaleInv
  OBVIOUS
<1> USE DEF Init, Store!StoreInit, Process
<1>1. HandlesInv /\ CleanInv /\ JobsInv
  BY DeploymentAssumption DEF HandlesInv, CleanInv, JobsInv
<1>2. FreshInv
  BY DEF FreshInv
<1>3. RestartCures /\ ResetRebuilds
  BY DEF RestartCures, ResetRebuilds
<1> QED BY <1>1, <1>2, <1>3 DEF StaleInv

\* A step of a pod that leaves the collection, the handles and the environment
\* alone can only go wrong in what it makes of the question.
LEMMA QuietPodStep ==
    ASSUME DeploymentTypeOK, StaleInv, UNCHANGED store, Still,
           NEW p \in Pod, at' = [at EXCEPT ![p] = at'[p]], at'[p] # "query",
           \/ UNCHANGED trouble
           \/ \E t \in Trouble :
                 /\ trouble' = [trouble EXCEPT ![p] = t]
                 /\ p \in fresh => t \notin {"key", "handle"} /\ (clean => t # "vectors")
                 /\ t = "vectors" => handle[p] # 0
    PROVE  StaleInv'
<1> USE DEF store, Still, settings, environment, history, DeploymentTypeOK, StaleInv, Process
<1>1. HandlesInv' /\ JobsInv' /\ CleanInv' /\ ResetRebuilds'
  BY DeploymentAssumption DEF HandlesInv, JobsInv, CleanInv, ResetRebuilds, Store!Ordinal
<1>2. FreshInv'
  BY DEF FreshInv
<1>3. RestartCures'
  BY DEF RestartCures
<1> QED BY <1>1, <1>2, <1>3

LEMMA StaleStep == DeploymentTypeOK /\ StaleInv /\ [Next]_vars => StaleInv'
<1> SUFFICES ASSUME DeploymentTypeOK, StaleInv, [Next]_vars PROVE StaleInv'
  OBVIOUS
<1> USE DeploymentAssumption DEF Process, Moves, Still, settings, environment, history
<1>t. /\ Store!StoreTypeOK /\ handle \in [Process -> Nat] /\ collection \in Nat /\ made \in Nat
      /\ at \in [Process -> Stage] /\ key \in [Process -> Nat] /\ made_with \in [Process -> Nat]
      /\ trouble \in [Pod -> Trouble] /\ model \in Nat \ {0} /\ secret \in Nat \ {0} /\ fresh \in SUBSET Pod
  BY DEF DeploymentTypeOK, Store!StoreTypeOK
<1>h. HandlesInv'
  BY <1>t, EveryStepIsStoreStep, HandlesStep DEF StaleInv
<1>i. HandlesInv /\ JobsInv /\ FreshInv /\ CleanInv /\ RestartCures /\ ResetRebuilds
  BY DEF StaleInv
<1>1. ASSUME NEW c \in Process, NEW s \in Stage, s # "off", Opens(c, s), s = "query" => c \in Pod PROVE StaleInv'
  <2> USE <1>1, <1>t, <1>i DEF Opens
  <2>1. /\ handle'[c] # 0 /\ \A d \in Process \ {c} : handle'[d] = handle[d]
        /\ collection' = collection \/ (collection = 0 /\ collection' = made + 1)
        /\ UNCHANGED index
        /\ handle'[c] = handle[c] \/ (handle[c] = 0 /\ handle'[c] = collection')
    BY DEF Store!Ensure, Store!historyVars, store, HandlesInv
  <2>2. JobsInv' /\ RestartCures' /\ ResetRebuilds'
    BY <2>1 DEF JobsInv, RestartCures, ResetRebuilds, Store!Ordinal
  <2>3. FreshInv'
    BY <2>1 DEF FreshInv
  <2>4. CleanInv'
    BY <2>1 DEF CleanInv, HandlesInv
  <2> QED BY <1>h, <2>2, <2>3, <2>4 DEF StaleInv
<1>2. ASSUME NEW p \in Pod, Ask(p) \/ PodStep(p) \/ RestartPod(p) PROVE StaleInv'
  <2>1. CASE Ask(p)
    BY <1>2, <1>t, <2>1, QuietPodStep DEF Ask, Trouble
  <2>2. CASE EmbedQuestion(p)
    BY <2>2, <1>t, <1>i, QuietPodStep DEF EmbedQuestion, Replies, KeyWorks, FreshInv, Trouble
  <2>3. CASE OpenForQuery(p)
    BY <2>3, <1>1 DEF OpenForQuery, Stage
  <2>4. CASE QueryCollection(p)
    <3>1. at[p] = "query" => handle[p] # 0
      BY <1>i DEF FreshInv
    <3>2. p \in fresh => (Store!Reaches(p) \/ at[p] # "query") /\ (clean => Comparable(p))
      BY <1>i, <3>1 DEF FreshInv, Store!Reaches, ResetRebuilds, Comparable
    <3>3. UNCHANGED store
      BY <2>4 DEF QueryCollection, Store!Read, Store!storeVars, store
    <3> QED BY <2>4, <1>t, <3>1, <3>2, <3>3, QuietPodStep DEF QueryCollection, Replies, Store!Read, Trouble
  <2>5. CASE Generate(p)
    BY <2>5, <1>t, <1>i, QuietPodStep DEF Generate, Replies, KeyWorks, FreshInv, Trouble
  <2>6. CASE Outage(p)
    BY <2>6, <1>t, QuietPodStep DEF Outage, Replies, Trouble
  <2>7. CASE RestartPod(p)
    <3> USE <2>7, <1>t, <1>i DEF RestartPod, Starts, Store!Forget
    <3>1. JobsInv' /\ CleanInv'
      BY DEF JobsInv, CleanInv
    <3>2. FreshInv'
      BY DEF FreshInv
    <3>3. RestartCures' /\ ResetRebuilds'
      BY DEF RestartCures, ResetRebuilds, Store!Ordinal
    <3> QED BY <1>h, <3>1, <3>2, <3>3 DEF StaleInv
  <2> QED BY <1>2, <2>1, <2>2, <2>3, <2>4, <2>5, <2>6, <2>7 DEF PodStep
<1>3. ASSUME NEW j \in Job, JobStep(j) PROVE StaleInv'
  <2>1. CASE OpenForUpsert(j)
    BY <2>1, <1>1 DEF OpenForUpsert, Stage
  <2>2. CASE Launch(j)
    <3> USE <2>2, <1>t, <1>i DEF Launch, Starts, Store!Forget
    <3>1. JobsInv' /\ CleanInv'
      BY DEF JobsInv, CleanInv
    <3>2. FreshInv'
      BY DEF FreshInv
    <3>3. RestartCures' /\ ResetRebuilds'
      BY DEF RestartCures, ResetRebuilds, Store!Ordinal
    <3> QED BY <1>h, <3>1, <3>2, <3>3 DEF StaleInv
  <2>3. CASE UseKey(j)
    <3> USE <2>3, <1>t, <1>i DEF UseKey, store
    <3>1. JobsInv' /\ CleanInv'
      BY DEF JobsInv, CleanInv
    <3>2. FreshInv'
      BY DEF FreshInv
    <3>3. RestartCures' /\ ResetRebuilds'
      BY DEF RestartCures, ResetRebuilds, Store!Ordinal
    <3> QED BY <1>h, <3>1, <3>2, <3>3 DEF StaleInv
  <2>4. CASE Upsert(j)
    <3> USE <2>4, <1>t, <1>i DEF Upsert, Store!UpsertChunks, Store!Reaches
    <3>1. JobsInv' /\ CleanInv'
      BY DEF JobsInv, CleanInv
    <3>2. FreshInv'
      BY DEF FreshInv
    <3>3. RestartCures'
      BY DEF RestartCures
    <3>4. ResetRebuilds'
      BY DEF ResetRebuilds, CleanInv, Store!Ordinal
    <3> QED BY <1>h, <3>1, <3>2, <3>3, <3>4 DEF StaleInv
  <2> QED BY <1>3, <2>1, <2>2, <2>3, <2>4 DEF JobStep
<1>4. ASSUME NEW s \in Sweeper, SweepStep(s) PROVE StaleInv'
  <2>1. CASE OpenForSweep(s)
    BY <2>1, <1>1 DEF OpenForSweep, Stage
  <2>2. CASE Begin(s) \/ GetIds(s) \/ DeleteIds(s) \/ Count(s)
    <3>1. /\ UNCHANGED <<collection, handle, trouble, secret, accepted, model, key, made_with, fresh, clean>>
          /\ \A c \in Pod \cup Job : at'[c] = at[c]
      BY <2>2, <1>t DEF Begin, GetIds, DeleteIds, Count, store,
         Store!GetIds, Store!DeleteIds, Store!Read, Store!storeVars
    <3>2. \A o \in Store!Ordinal : index'[o] \in {0, index[o]}
      BY <2>2, <1>t DEF Begin, GetIds, DeleteIds, Count, store, Store!Ordinal, Store!StoreTypeOK,
         Store!GetIds, Store!DeleteIds, Store!Read, Store!storeVars
    <3>3. JobsInv' /\ CleanInv'
      BY <3>1, <1>i DEF JobsInv, CleanInv
    <3>4. FreshInv'
      BY <3>1, <1>t, <1>i DEF FreshInv
    <3>5. RestartCures' /\ ResetRebuilds'
      BY <3>1, <3>2, <1>i DEF RestartCures, ResetRebuilds, Store!Ordinal
    <3> QED BY <1>h, <3>3, <3>4, <3>5 DEF StaleInv
  <2> QED BY <1>4, <2>1, <2>2 DEF SweepStep
<1>5. ASSUME NEW c \in Job \cup Sweeper, Ends(c) PROVE StaleInv'
  <2> USE <1>5, <1>t, <1>i DEF Ends, Store!Forget
  <2>1. JobsInv' /\ CleanInv'
    BY DEF JobsInv, CleanInv
  <2>2. FreshInv'
    BY DEF FreshInv
  <2>3. RestartCures' /\ ResetRebuilds'
    BY DEF RestartCures, ResetRebuilds, Store!Ordinal
  <2> QED BY <1>h, <2>1, <2>2, <2>3 DEF StaleInv
<1>6. ASSUME OperatorStep PROVE StaleInv'
  <2> USE <1>t, <1>i DEF Same
  <2>1. ASSUME RotateKey \/ (\E k \in accepted : RevokeKey(k)) PROVE StaleInv'
    <3>1. JobsInv' /\ CleanInv' /\ ResetRebuilds'
      BY <2>1 DEF RotateKey, RevokeKey, JobsInv, CleanInv, ResetRebuilds, store, Store!Ordinal
    <3>2. FreshInv' /\ RestartCures'
      BY <2>1 DEF RotateKey, RevokeKey, FreshInv, RestartCures, store
    <3> QED BY <1>h, <3>1, <3>2 DEF StaleInv
  <2>2. ASSUME EditSettings PROVE StaleInv'
    <3>1. JobsInv' /\ CleanInv' /\ ResetRebuilds'
      BY <2>2 DEF EditSettings, JobsInv, CleanInv, ResetRebuilds
    <3>2. FreshInv' /\ RestartCures'
      BY <2>2 DEF EditSettings, FreshInv, RestartCures, store
    <3> QED BY <1>h, <3>1, <3>2 DEF StaleInv
  <2>3. ASSUME ResetCollection PROVE StaleInv'
    <3> USE <2>3 DEF ResetCollection, Store!DropCollection
    <3>1. JobsInv' /\ ResetRebuilds'
      BY DEF JobsInv, ResetRebuilds, Store!Ordinal
    <3>2. CleanInv'
      BY DEF CleanInv
    <3>3. FreshInv'
      BY DEF FreshInv
    <3>4. RestartCures'
      BY DEF RestartCures, FreshInv
    <3> QED BY <1>h, <3>1, <3>2, <3>3, <3>4 DEF StaleInv
  <2> QED BY <1>6, <2>1, <2>2, <2>3 DEF OperatorStep
<1>7. ASSUME UNCHANGED vars PROVE StaleInv'
  <2> USE <1>7, <1>i DEF vars, store
  <2>1. JobsInv' /\ CleanInv' /\ FreshInv'
    BY DEF JobsInv, CleanInv, FreshInv
  <2>2. RestartCures' /\ ResetRebuilds'
    BY DEF RestartCures, ResetRebuilds, Store!Ordinal
  <2> QED BY <1>h, <2>1, <2>2 DEF StaleInv
<1> QED BY <1>2, <1>3, <1>4, <1>5, <1>6, <1>7 DEF Next

LEMMA StaleInvHolds == Spec => []StaleInv
BY DeploymentTyping, StaleInit, StaleStep, PTL DEF Spec

(***************************************************************************)
(* The results.                                                            *)
(***************************************************************************)
\* A restart cures, for every number of pods and Jobs: a pod started after the
\* last rotation and edit, under which the collection was not deleted since,
\* spoils no question with its key, its handle or, once rebuilt, its vectors.
THEOREM RestartCuresHolds == Spec => []RestartCures
<1>1. StaleInv => RestartCures
  BY DEF StaleInv
<1> QED BY <1>1, StaleInvHolds, PTL

\* The documented reset leaves nothing of the old settings, however many Jobs
\* run on, as long as none of them has still to open the collection.
THEOREM ResetRebuildsHolds == Spec => []ResetRebuilds
<1>1. StaleInv => ResetRebuilds
  BY DEF StaleInv
<1> QED BY <1>1, StaleInvHolds, PTL

\* delete_by_source leaves no part of a page, unless an upsert overtook it,
\* whatever the size of the page and whoever else writes, deletes or fails.
THEOREM PageHasNoHolesHolds == Spec => []PageHasNoHoles
<1>1. Init => PageInv
  BY DEF Init, PageInv, Store!StoreInit, Store!NoHoles, Store!Ordinal, Store!Stored
<1>2. DeploymentTypeOK /\ StaleInv /\ PageInv /\ [Next]_vars => PageInv'
  <2> SUFFICES ASSUME DeploymentTypeOK, StaleInv, PageInv, [Next]_vars PROVE PageInv'
    OBVIOUS
  <2>1. \A j \in Job : at[j] = "upsert" => made_with[j] \in Nat \ {0}
    BY DEF DeploymentTypeOK, StaleInv, JobsInv, Process
  <2> QED BY <2>1, EveryStepIsStoreStep, PageStep DEF DeploymentTypeOK, StaleInv
<1>3. PageInv => PageHasNoHoles
  BY DEF PageInv, PageHasNoHoles
<1> QED BY <1>1, <1>2, <1>3, DeploymentTyping, StaleInvHolds, PTL DEF Spec

(***************************************************************************)
(* A handle that does not work.                                            *)
(***************************************************************************)
OffInv == \A c \in Process : at[c] = "off" => handle[c] = 0

Restarts(c) == IF c \in Pod THEN RestartPod(c) ELSE Ends(c)

\* The handle of a process changes when it opens the collection and has none,
\* when it starts, and when it ends.
HandleFate(c) ==
    \/ handle'[c] = handle[c] /\ (at'[c] = "off" => at[c] = "off")
    \/ handle[c] = 0 /\ at'[c] # "off"
    \/ at[c] = "off" /\ handle'[c] = 0
    \/ Restarts(c) /\ handle'[c] = 0

LEMMA HandleSteps ==
    ASSUME DeploymentTypeOK, Next, NEW c \in Process
    PROVE  HandleFate(c)
<1> USE DEF HandleFate, Moves
<1>1. at \in [Process -> Stage] /\ handle \in [Process -> Nat]
      /\ Pod \cap Job = {} /\ Pod \cap Sweeper = {} /\ Job \cap Sweeper = {}
  BY DeploymentAssumption DEF DeploymentTypeOK, Store!StoreTypeOK, DeploymentAssumption
<1>2. ASSUME NEW d \in Process, NEW s, s # "off", Opens(d, s) PROVE HandleFate(c)
  BY <1>1, <1>2 DEF Opens, Store!Ensure, store
<1>3. ASSUME NEW d \in Process, NEW from, NEW to, to # "off", handle' = handle,
             at' = at \/ Moves(d, from, to)
      PROVE  HandleFate(c)
  BY <1>1, <1>3
<1>4. ASSUME NEW p \in Pod, Ask(p) \/ PodStep(p) \/ RestartPod(p) PROVE HandleFate(c)
  <2>0. p \in Process
    BY DEF Process
  <2>1. CASE Ask(p) \/ EmbedQuestion(p) \/ Generate(p) \/ Outage(p)
    BY <1>1, <2>0, <2>1 DEF Ask, EmbedQuestion, Generate, Outage, Replies, store
  <2>2. CASE OpenForQuery(p)
    BY <1>2, <2>0, <2>2 DEF OpenForQuery
  <2>3. CASE QueryCollection(p)
    BY <1>1, <2>0, <2>3 DEF QueryCollection, Replies, store, Store!Read, Store!storeVars
  <2>4. CASE RestartPod(p)
    BY <1>1, <2>0, <2>4 DEF RestartPod, Starts, Store!Forget, Restarts
  <2> QED BY <1>4, <2>1, <2>2, <2>3, <2>4 DEF PodStep
<1>5. ASSUME NEW j \in Job, JobStep(j) PROVE HandleFate(c)
  <2>0. j \in Process
    BY DEF Process
  <2>1. CASE Launch(j)
    BY <1>1, <2>0, <2>1 DEF Launch, Starts, Store!Forget
  <2>2. CASE UseKey(j)
    BY <1>1, <2>0, <2>2 DEF UseKey, store
  <2>3. CASE OpenForUpsert(j)
    BY <1>2, <2>0, <2>3 DEF OpenForUpsert
  <2>4. CASE Upsert(j)
    BY <1>1, <2>0, <2>4 DEF Upsert, Store!UpsertChunks
  <2> QED BY <1>5, <2>1, <2>2, <2>3, <2>4 DEF JobStep
<1>6. ASSUME NEW s \in Sweeper, SweepStep(s) PROVE HandleFate(c)
  <2>0. s \in Process
    BY DEF Process
  <2>1. CASE Begin(s) \/ Count(s)
    BY <1>1, <2>0, <2>1 DEF Begin, Count, store, Store!Read, Store!storeVars
  <2>2. CASE OpenForSweep(s)
    BY <1>2, <2>0, <2>2 DEF OpenForSweep
  <2>3. CASE GetIds(s) \/ DeleteIds(s)
    BY <1>1, <2>0, <2>3 DEF GetIds, DeleteIds, Store!GetIds, Store!DeleteIds
  <2> QED BY <1>6, <2>1, <2>2, <2>3 DEF SweepStep
<1>7. ASSUME NEW d \in Job \cup Sweeper, Ends(d) PROVE HandleFate(c)
  <2>1. d \in Process /\ d \notin Pod
    BY <1>1 DEF Process
  <2> QED BY <1>1, <1>7, <2>1 DEF Ends, Store!Forget, Restarts
<1>8. CASE OperatorStep
  BY <1>1, <1>8 DEF OperatorStep, RotateKey, RevokeKey, EditSettings, ResetCollection, Same,
                    Store!DropCollection, store
<1> QED BY <1>4, <1>5, <1>6, <1>7, <1>8 DEF Next

\* Ids are never given twice.
LEMMA NewIdsAreNew ==
    ASSUME Store!StoreTypeOK, HandlesInv, StoreStep
    PROVE  collection' = collection \/ collection' = 0 \/ collection' = made + 1
<1>1. ASSUME NEW c \in Process, Store!Ensure(c)
      PROVE  collection' = collection \/ collection' = made + 1
  BY <1>1 DEF Store!Ensure
<1>2. ASSUME NEW c \in Process, Store!GetIds(c) \/ Store!DeleteIds(c) \/ Store!Forget(c)
      PROVE  collection' = collection
  BY <1>2 DEF Store!GetIds, Store!DeleteIds, Store!Forget
<1>3. ASSUME JobUpsert \/ UNCHANGED store PROVE collection' = collection
  BY <1>3 DEF JobUpsert, Store!UpsertChunks, store
<1>4. ASSUME Store!DropCollection PROVE collection' = 0
  BY <1>4 DEF Store!DropCollection
<1> QED BY <1>1, <1>2, <1>3, <1>4 DEF StoreStep

\* Only a restart cures, for every number of processes and of resets: a handle
\* to a collection that is gone never names another one.
THEOREM StaleStaysStaleHolds == Spec => StaleStaysStale
<1> DEFINE Stale ==
        \A c \in Process : handle[c] \notin {0, collection} =>
           \/ IF c \in Pod THEN RestartPod(c) ELSE Ends(c)
           \/ handle'[c] = handle[c] /\ handle'[c] # collection'
<1>1. Init => OffInv
  BY DEF Init, OffInv, Store!StoreInit
<1>2. DeploymentTypeOK /\ OffInv /\ [Next]_vars => OffInv'
  <2> SUFFICES ASSUME DeploymentTypeOK, OffInv, [Next]_vars, NEW c \in Process, at'[c] = "off"
               PROVE  handle'[c] = 0
    BY DEF OffInv, Process
  <2>1. CASE Next
    BY <2>1, HandleSteps DEF HandleFate, OffInv
  <2>2. CASE UNCHANGED vars
    BY <2>2 DEF OffInv, vars, store
  <2> QED BY <2>1, <2>2
<1>3. DeploymentTypeOK /\ StaleInv /\ OffInv /\ [Next]_vars => [Stale]_vars
  <2> SUFFICES ASSUME DeploymentTypeOK, StaleInv, OffInv, Next,
                      NEW c \in Process, handle[c] \notin {0, collection}, ~Restarts(c)
               PROVE  handle'[c] = handle[c] /\ handle'[c] # collection'
    BY DEF Restarts
  <2>1. handle'[c] = handle[c]
    BY HandleSteps DEF HandleFate, OffInv
  <2>2. /\ handle[c] \in Nat /\ made \in Nat /\ handle[c] <= made
        /\ collection' = collection \/ collection' = 0 \/ collection' = made + 1
    BY EveryStepIsStoreStep, NewIdsAreNew
       DEF DeploymentTypeOK, StaleInv, HandlesInv, Store!StoreTypeOK
  <2> QED BY <2>1, <2>2
<1> QED BY <1>1, <1>2, <1>3, DeploymentTyping, StaleInvHolds, PTL DEF Spec, StaleStaysStale

=============================================================================
