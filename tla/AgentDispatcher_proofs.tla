----------------------- MODULE AgentDispatcher_proofs -----------------------
(***************************************************************************)
(* Proofs about AgentDispatcher, for every set of requests, users and      *)
(* scopes.                                                                 *)
(***************************************************************************)
EXTENDS AgentDispatcher, TLAPS

\* The cache key of a request is the pair of its user and scope.
LEMMA SlotIsKey == ASSUME NEW r \in Requests, key[r] \in Keys PROVE Slot(r) = key[r]
BY DEF Slot, CacheKey, Keys

\* Nothing has happened: the invariant holds.
LEMMA InitIInv == Init => IInv
<1> SUFFICES ASSUME Init PROVE IInv
  OBVIOUS
<1>1. TypeOK
  BY DEF Init, TypeOK, Pcs, Tasks
<1>2. CachedTokens = {}
  BY DEF Init, CachedTokens
<1>3. OnlyFinished /\ CacheInv /\ OutcomeInv
  BY <1>2, NoneIsNew DEF Init, OnlyFinished, CacheInv, KeyIsolation, CacheIsIndexed,
     RevokedNotServed, OutcomeInv, Outcomes
<1> QED
  BY <1>1, <1>3 DEF IInv

-----------------------------------------------------------------------------
(* Steps that leave the cache alone.                                         *)

\* A step keeps CacheInv when it keeps the cache, the index and the keys of the
\* requests that have one, uses no other token, and revokes nothing.
LEMMA CacheFrame ==
  ASSUME CacheInv, UNCHANGED <<cacheVars, key, revoked>>,
         \A r \in Requests : used'[r] \in {used[r], None}
  PROVE  CacheInv'
BY DEF CacheInv, KeyIsolation, CacheIsIndexed, RevokedNotServed, CachedTokens, cacheVars

\* The requests that answer or end without touching cache, task and await.
LEMMA RequestEnds ==
  ASSUME IInv, NEW r \in Requests,
         NotTrusted(r) \/ Refuse(r) \/ CachedCallAnswers(r) \/ CachedCallRaises(r) \/ InitiateFails(r) \/ Initiate(r)
  PROVE  IInv'
<1> USE DEF IInv
<1>1. TypeOK'
  BY DEF TypeOK, RefusedAtOnce, NotTrusted, Refuse, CachedCallAnswers, CachedCallRaises, InitiateFails, Initiate, Pcs, Tasks,
     taskVars, a2aVars, cacheVars, revVars
<1>2. UNCHANGED <<cacheVars, key, revoked, known, outcome, minted, answer>>
  BY DEF RefusedAtOnce, NotTrusted, Refuse, CachedCallAnswers, CachedCallRaises, InitiateFails, Initiate, taskVars, a2aVars, revVars
<1>3. \A q \in Requests : used'[q] \in {used[q], None}
  BY DEF TypeOK, RefusedAtOnce, NotTrusted, Refuse, CachedCallAnswers, CachedCallRaises, InitiateFails, Initiate
<1>4. CacheInv'
  BY <1>2, <1>3, CacheFrame
<1>5. OnlyFinished' /\ OutcomeInv'
  <2>1. CASE NotTrusted(r) \/ Refuse(r) \/ CachedCallAnswers(r) \/ CachedCallRaises(r) \/ InitiateFails(r)
    <3>1. /\ task' = task /\ pc[r] # "consent" /\ used'[r] = None
          /\ pc[r] # "idle" => pc'[r] # "idle" /\ pc[r] # "error"
          /\ pc'[r] \in {"error", "result"} /\ \A q \in Requests : q # r => pc'[q] = pc[q]
          /\ pc'[r] = "result" => pc[r] = "calling"
      BY <2>1 DEF RefusedAtOnce, NotTrusted, Refuse, CachedCallAnswers, CachedCallRaises, InitiateFails, TypeOK, taskVars, OnlyFinished
    <3> QED
      BY <1>2, <1>3, <3>1 DEF OnlyFinished, OutcomeInv, CachedTokens, cacheVars
  <2>2. CASE Initiate(r)
    <3>1. /\ task[r] = "none" /\ key[r] \in Keys
          /\ task' = [task EXCEPT ![r] = "sleeping"] /\ pc' = [pc EXCEPT ![r] = "consent"]
      BY <2>2 DEF Initiate, OnlyFinished
    <3> QED
      <4>1. OnlyFinished'
        <5>1. pc[r] = "initiating" /\ used' = used /\ CachedTokens' = CachedTokens
          BY <1>2, <2>2 DEF Initiate, CachedTokens, cacheVars
        <5>2. /\ \A q \in Requests : q # r => task'[q] = task[q] /\ pc'[q] = pc[q]
              /\ task'[r] = "sleeping" /\ pc'[r] = "consent"
          BY <3>1 DEF TypeOK
        <5>3. \A q \in Requests : used'[q] # None => task'[used'[q]] = "done"
          BY <3>1, <5>1 DEF OnlyFinished, TypeOK
        <5>4. \A q \in CachedTokens' \cup known' : task'[q] = "done"
          BY <1>2, <3>1, <5>1 DEF OnlyFinished, TypeOK
        <5> QED
          BY <1>2, <3>1, <5>1, <5>2, <5>3, <5>4 DEF OnlyFinished
      <4>2. OutcomeInv'
        BY <1>2, <3>1 DEF OutcomeInv, TypeOK
      <4> QED
        BY <4>1, <4>2
  <2> QED
    BY <2>1, <2>2
<1> QED
  BY <1>1, <1>4, <1>5

\* The polls, the refusals, the token's issue and the failed tool call.
LEMMA TaskStepInv ==
  ASSUME IInv, NEW r \in Requests,
         \/ PollSend(r) \/ PollStops(r) \/ PollPending(r) \/ PollRefused(r)
         \/ PollToken(r) \/ ToolFails(r)
  PROVE  IInv'
<1> USE DEF IInv
<1>1. UNCHANGED <<reqVars, a2aVars, cacheVars, revVars>>
  BY DEF PollSend, PollStops, PollPending, PollRefused, PollToken, ToolFails, TaskOnly
<1>2. CacheInv'
  BY <1>1, CacheFrame DEF reqVars, revVars, TypeOK
<1>3. TypeOK'
  BY <1>1 DEF TypeOK, PollSend, PollStops, PollPending, PollRefused, PollToken, ToolFails,
     Finish, Tasks, Outcomes, Refusals, reqVars, a2aVars, cacheVars, revVars
<1>4. /\ task[r] \notin {"none", "done"}
      /\ task'[r] \in {"sleeping", "posting", "calling", "done"}
      /\ \A q \in Requests : q # r => task'[q] = task[q] /\ outcome'[q] = outcome[q]
                                      /\ (q \in minted' <=> q \in minted)
  BY DEF TypeOK, PollSend, PollStops, PollPending, PollRefused, PollToken, ToolFails, Finish
<1>5. OnlyFinished'
  BY <1>1, <1>4 DEF OnlyFinished, TypeOK, CachedTokens, reqVars, a2aVars, cacheVars, revVars
<1>6. OutcomeInv'
  <2>1. answer' = answer /\ answer[r] \notin Refusals
    BY <1>1, <1>4 DEF a2aVars, OutcomeInv
  <2>2. /\ task'[r] \in {"none", "sleeping", "posting"} => r \notin minted'
        /\ task'[r] = "done" /\ outcome'[r] \in Refusals => r \notin minted'
    BY DEF OutcomeInv, TypeOK, PollSend, PollStops, PollPending, PollRefused, PollToken,
       ToolFails, Finish, Refusals
  <2> QED
    BY <1>4, <2>1, <2>2 DEF OutcomeInv
<1> QED
  BY <1>2, <1>3, <1>5, <1>6

\* Awaits, cancels and the denylist's forgetting.
LEMMA A2AStepInv ==
  ASSUME IInv, NEW r \in Requests,
         Await(r) \/ AwaitEnds(r) \/ Cancel(r) \/ Forget(r)
  PROVE  IInv'
<1> USE DEF IInv
<1>1. UNCHANGED <<reqVars, taskVars, cacheVars, revoked>>
  BY DEF Await, AwaitEnds, AwaitCompletes, AwaitTimeout, Cancel, Forget, A2AOnly, revVars
<1>2. CacheInv'
  BY <1>1, CacheFrame DEF reqVars, TypeOK
<1>3. TypeOK'
  BY <1>1 DEF TypeOK, Await, AwaitEnds, AwaitCompletes, AwaitTimeout, Cancel, Forget,
     A2AOnly, Answered, reqVars, taskVars, cacheVars, a2aVars, revVars
<1>4. known \subseteq known' /\ \A q \in known' : task[q] = "done"
  BY DEF OnlyFinished, Await, AwaitEnds, AwaitCompletes, AwaitTimeout, Cancel, Forget, a2aVars
<1>5. OnlyFinished'
  BY <1>1, <1>4 DEF OnlyFinished, CachedTokens, reqVars, taskVars, cacheVars
<1>6. OutcomeInv'
  BY <1>1 DEF OutcomeInv, TypeOK, Await, AwaitEnds, AwaitCompletes, AwaitTimeout, Cancel,
     Forget, Answered, Refusals, taskVars, a2aVars
<1> QED
  BY <1>2, <1>3, <1>5, <1>6

-----------------------------------------------------------------------------
(* Steps that change the cache.                                              *)

\* Dropping the cached token of one key, and possibly the index entry of that
\* token, keeps what the cache promises.
LEMMA CacheDrop ==
  ASSUME TypeOK, CacheInv, NEW k \in Keys,
         cache' = [cache EXCEPT ![k] = None],
         \A t \in Requests : index'[t] = index[t] \/ index[t] = k,
         UNCHANGED key, revoked' \subseteq revoked \cup {cache[k]}
  PROVE  /\ \A j \in Keys : cache'[j] # None => cache'[j] = cache[j] /\ j # k
         /\ CachedTokens' \subseteq CachedTokens
         /\ CacheIsIndexed' /\ RevokedNotServed'
         /\ \A j \in Keys : cache'[j] # None => key'[cache'[j]] = j
<1>1. \A j \in Keys : cache'[j] = IF j = k THEN None ELSE cache[j]
  BY DEF TypeOK
<1>2. \A j \in Keys : cache[j] # None => cache[j] \in Requests /\ index[cache[j]] = j
  BY DEF TypeOK, CacheInv, CacheIsIndexed
<1>3. CachedTokens' \subseteq CachedTokens
  BY <1>1 DEF CachedTokens
<1>4. CacheIsIndexed'
  BY <1>1, <1>2 DEF CacheIsIndexed
<1>5. \A j \in Keys : cache'[j] # None => cache'[j] # cache[k]
  BY <1>1, <1>2
<1>6. RevokedNotServed'
  BY <1>3, <1>5 DEF RevokedNotServed, CacheInv, CachedTokens
<1> QED
  BY <1>1, <1>3, <1>4, <1>6 DEF CacheInv, KeyIsolation

\* A new request: only a token of its own key serves it.
LEMMA DispatchInv ==
  ASSUME IInv, NEW r \in Requests, NEW u \in Users, NEW s \in Scopes, Dispatch(r, u, s)
  PROVE  IInv'
<1> USE DEF IInv
<1> DEFINE k == CacheKey(u, s)
<1>1. k = <<u, s>> /\ k \in Keys /\ None \notin Requests
  BY NoneIsNew DEF CacheKey, Keys
<1>2. /\ pc[r] = "idle" /\ task[r] = "none" /\ r \notin CachedTokens /\ r \notin known
      /\ key' = [key EXCEPT ![r] = k] /\ pc'[r] \in {"calling", "initiating"}
      /\ \A q \in Requests : q # r => pc'[q] = pc[q]
      /\ UNCHANGED <<task, outcome, minted, known, answer, revoked>>
  BY <1>1 DEF Dispatch, OnlyFinished, TypeOK, taskVars, a2aVars, revVars
<1>3. TypeOK'
  BY <1>1 DEF TypeOK, Dispatch, DropDenied, Pcs, taskVars, a2aVars, cacheVars, revVars
<1>4. /\ CachedTokens' \subseteq CachedTokens /\ CacheIsIndexed' /\ RevokedNotServed'
      /\ \A j \in Keys : cache'[j] # None => cache'[j] = cache[j]
  <2>1. CASE UNCHANGED cacheVars
    BY <1>2, <2>1 DEF cacheVars, CachedTokens, CacheInv, CacheIsIndexed, RevokedNotServed
  <2>2. CASE cache[k] \in denied /\ DropDenied(k)
    <3>1. cache[k] # None /\ index[cache[k]] = k
      BY <1>1, <2>2 DEF TypeOK, CacheInv, CacheIsIndexed
    <3>2. /\ cache' = [cache EXCEPT ![k] = None] /\ index' = [index EXCEPT ![cache[k]] = None]
          /\ cache[k] \in Requests
      BY <1>1, <2>2, <3>1 DEF DropDenied, TypeOK
    <3>3. \A t \in Requests : index'[t] = index[t] \/ index[t] = k
      BY <3>1, <3>2 DEF TypeOK
    <3>5. \A j \in Keys : cache'[j] # None => cache'[j] = cache[j] /\ j # k
      BY <3>2 DEF TypeOK
    <3> QED
      BY <1>2, <3>1, <3>2, <3>3, <3>5
      DEF CachedTokens, CacheInv, CacheIsIndexed, RevokedNotServed, TypeOK
  <2> QED
    BY <2>1, <2>2 DEF Dispatch
<1>5. KeyIsolation'
  <2>1. \A q \in Requests : q # r => key'[q] = key[q] /\ used'[q] = used[q]
    BY <1>2 DEF Dispatch, TypeOK
  <2>2. \A j \in Keys : cache[j] # None => cache[j] \in Requests \ {r} /\ key[cache[j]] = j
    BY <1>2 DEF CachedTokens, CacheInv, KeyIsolation, TypeOK
  <2>3. \A q \in Requests : used[q] # None /\ q # r => used[q] # r
    BY <1>2 DEF TypeOK, OnlyFinished
  <2>4. \A q \in Requests : q # r /\ used'[q] # None => key'[used'[q]] = key'[q]
    BY <2>1, <2>3 DEF CacheInv, KeyIsolation, TypeOK
  <2>5. used'[r] # None => used'[r] = cache[k]
    BY <1>2 DEF Dispatch, OnlyFinished, TypeOK
  <2>6. used'[r] # None => key'[used'[r]] = key'[r]
    BY <1>1, <1>2, <2>1, <2>2, <2>5 DEF TypeOK
  <2> QED
    BY <1>4, <2>1, <2>2, <2>4, <2>6 DEF KeyIsolation
<1>6. \A q \in Requests : used'[q] # None => task[used'[q]] = "done"
  <2>1. \A q \in Requests : used'[q] \in {used[q], cache[k]}
    BY DEF Dispatch, TypeOK
  <2>2. cache[k] # None => task[cache[k]] = "done"
    BY <1>1 DEF OnlyFinished, CachedTokens
  <2> QED
    BY <2>1, <2>2 DEF OnlyFinished
<1>7. \A q \in Requests : pc'[q] # "calling" => used'[q] = None
  BY DEF Dispatch, OnlyFinished, TypeOK
<1>8. OnlyFinished' /\ OutcomeInv'
  BY <1>1, <1>2, <1>4, <1>6, <1>7 DEF OnlyFinished, OutcomeInv, TypeOK
<1> QED
  BY <1>3, <1>4, <1>5, <1>8 DEF CacheInv

\* The tool answers: the token enters cache and index; it was never reported,
\* so it was never revoked, and it is cached for no other key.
LEMMA ToolAnswersInv ==
  ASSUME IInv, NEW r \in Requests, ToolAnswers(r)
  PROVE  IInv'
<1> USE DEF IInv
<1> DEFINE k == key[r]
<1>1. /\ task[r] = "calling" /\ k \in Keys /\ Slot(r) = k
  BY SlotIsKey DEF ToolAnswers, OnlyFinished
<1>2. /\ cache' = [cache EXCEPT ![k] = r] /\ index' = [index EXCEPT ![r] = k]
      /\ task' = [task EXCEPT ![r] = "done"] /\ outcome' = [outcome EXCEPT ![r] = "result"]
      /\ UNCHANGED <<pc, key, used, minted, known, answer, revoked>>
      /\ UNCHANGED <<cancelled, pending, waiter, denied>>
  BY <1>1 DEF ToolAnswers, Finish, TaskOnly, reqVars, a2aVars, revVars
<1>3. TypeOK'
  BY <1>1, <1>2 DEF TypeOK, Tasks, Outcomes
<1>4. r \notin CachedTokens /\ r \notin revoked
  BY <1>1 DEF OnlyFinished
<1>5. \A j \in Keys : cache'[j] = IF j = k THEN r ELSE cache[j]
  BY <1>2 DEF TypeOK
<1>6. CachedTokens' \subseteq CachedTokens \cup {r}
  BY <1>5 DEF CachedTokens
<1>7. CacheInv'
  <2>1. KeyIsolation' /\ RevokedNotServed'
    BY <1>2, <1>4, <1>5, <1>6 DEF CacheInv, KeyIsolation, RevokedNotServed
  <2>2. CacheIsIndexed'
    BY <1>2, <1>4, <1>5 DEF CacheInv, CacheIsIndexed, CachedTokens, TypeOK
  <2> QED
    BY <2>1, <2>2 DEF CacheInv
<1>8. OnlyFinished'
  BY <1>1, <1>2, <1>6 DEF OnlyFinished, TypeOK
<1>9. OutcomeInv'
  BY <1>1, <1>2 DEF OutcomeInv, TypeOK, Refusals
<1> QED
  BY <1>3, <1>7, <1>8, <1>9

\* The resource server rejects a cached token: the key's entry is dropped.
LEMMA RejectedInv ==
  ASSUME IInv, NEW r \in Requests, CachedCallRejected(r)
  PROVE  IInv'
<1> USE DEF IInv
<1> DEFINE k == key[r]
<1>1. /\ pc[r] = "calling" /\ k \in Keys /\ Slot(r) = k
  BY SlotIsKey DEF CachedCallRejected, OnlyFinished
<1>2. /\ cache' = [cache EXCEPT ![k] = None] /\ pc' = [pc EXCEPT ![r] = "initiating"]
      /\ used' = [used EXCEPT ![r] = None]
      /\ UNCHANGED <<key, index, task, outcome, minted, known, answer, revoked>>
      /\ UNCHANGED <<cancelled, pending, waiter, denied>>
  BY <1>1 DEF CachedCallRejected, taskVars, a2aVars, revVars
<1>3. TypeOK'
  BY <1>1, <1>2 DEF TypeOK, Pcs
<1>4. /\ CachedTokens' \subseteq CachedTokens /\ CacheIsIndexed' /\ RevokedNotServed'
      /\ \A j \in Keys : cache'[j] # None => key'[cache'[j]] = j
  BY <1>1, <1>2, CacheDrop
<1>5. KeyIsolation'
  BY <1>2, <1>4 DEF KeyIsolation, CacheInv, TypeOK
<1>6. OnlyFinished' /\ OutcomeInv'
  BY <1>1, <1>2, <1>4 DEF OnlyFinished, OutcomeInv, TypeOK
<1> QED
  BY <1>3, <1>4, <1>5, <1>6 DEF CacheInv

\* A revocation: the index leads to the cached token, if there is one.
LEMMA RevokeInv ==
  ASSUME IInv, NEW t \in Requests, Revoke(t)
  PROVE  IInv'
<1> USE DEF IInv
<1>1. /\ t \in known /\ revoked' = revoked \cup {t}
      /\ index' = [index EXCEPT ![t] = None]
      /\ cache' = IF index[t] = None THEN cache ELSE [cache EXCEPT ![index[t]] = None]
      /\ UNCHANGED <<pc, key, used, task, outcome, minted, known, answer>>
      /\ UNCHANGED <<cancelled, pending, waiter>>
      /\ denied' = denied \cup {t}
  BY DEF Revoke, DropRevoked, reqVars, taskVars, a2aVars
<1>2. TypeOK'
  BY <1>1 DEF TypeOK
<1>3. \A j \in Keys : cache[j] # None => cache[j] \in Requests /\ index[cache[j]] = j
  BY DEF TypeOK, CacheInv, CacheIsIndexed
<1>4. \A j \in Keys : cache'[j] # None => cache'[j] = cache[j] /\ cache[j] # t
  <2>1. CASE index[t] = None
    BY <1>1, <1>3, <2>1, NoneIsNew
  <2>2. CASE index[t] # None
    <3>1. index[t] \in Keys
      BY <2>2 DEF TypeOK
    <3>2. \A j \in Keys : cache'[j] = IF j = index[t] THEN None ELSE cache[j]
      BY <1>1, <2>2, <3>1 DEF TypeOK
    <3> QED
      BY <1>3, <3>2
  <2> QED
    BY <2>1, <2>2
<1>5. CachedTokens' \subseteq CachedTokens \ {t}
  BY <1>4 DEF CachedTokens
<1>6. KeyIsolation'
  BY <1>1, <1>4 DEF KeyIsolation, CacheInv
<1>7. CacheIsIndexed'
  BY <1>1, <1>3, <1>4 DEF CacheIsIndexed, TypeOK
<1>8. RevokedNotServed'
  BY <1>1, <1>5 DEF RevokedNotServed, CacheInv
<1>9. OnlyFinished' /\ OutcomeInv'
  BY <1>1, <1>5 DEF OnlyFinished, OutcomeInv
<1> QED
  BY <1>2, <1>6, <1>7, <1>8, <1>9 DEF CacheInv

\* A restart empties the cache and loses the running tasks.
LEMMA RestartInv == ASSUME IInv, AgentRestart PROVE IInv'
<1> USE DEF IInv
<1>1. TypeOK'
  BY DEF TypeOK, AgentRestart, Pcs, Tasks
<1>2. CachedTokens' = {}
  BY DEF AgentRestart, CachedTokens
<1>3. CacheInv'
  BY <1>2 DEF AgentRestart, CacheInv, KeyIsolation, CacheIsIndexed, RevokedNotServed
<1>4. \A r \in Requests :
        /\ task'[r] = IF task[r] \in {"none", "done"} THEN task[r] ELSE "lost"
        /\ answer'[r] = IF waiter[r] = "waiting" THEN "lost" ELSE answer[r]
        /\ pc'[r] = IF pc[r] \in {"calling", "initiating"} THEN "error" ELSE pc[r]
        /\ used'[r] = None
  BY DEF AgentRestart
<1>5. UNCHANGED <<key, outcome, minted, known, revoked>>
  BY DEF AgentRestart
<1>6. OnlyFinished'
  BY <1>2, <1>4, <1>5 DEF OnlyFinished, TypeOK
<1>7. OutcomeInv'
  BY <1>4, <1>5 DEF OutcomeInv, Refusals
<1> QED
  BY <1>1, <1>3, <1>6, <1>7

-----------------------------------------------------------------------------

\* Nothing the invariant speaks about changes.
LEMMA StutterInv == ASSUME IInv, UNCHANGED vars PROVE IInv'
BY DEF IInv, TypeOK, OnlyFinished, CacheInv, KeyIsolation, CacheIsIndexed, RevokedNotServed,
   CachedTokens, OutcomeInv, vars, reqVars, taskVars, a2aVars, cacheVars, revVars

\* Every step preserves the invariant.
LEMMA NextIInv == IInv /\ [Next]_vars => IInv'
<1> SUFFICES ASSUME IInv, [Next]_vars PROVE IInv'
  OBVIOUS
<1>1. ASSUME NEW r \in Requests, RequestStep(r) PROVE IInv'
  BY <1>1, RequestEnds, DispatchInv, RejectedInv DEF RequestStep
<1>2. ASSUME NEW r \in Requests, TaskStep(r) PROVE IInv'
  BY <1>2, TaskStepInv, ToolAnswersInv DEF TaskStep
<1>3. ASSUME NEW r \in Requests, Await(r) \/ AwaitEnds(r) \/ Cancel(r) \/ Forget(r)
      PROVE  IInv'
  BY <1>3, A2AStepInv
<1> QED
  BY <1>1, <1>2, <1>3, RevokeInv, RestartInv, StutterInv DEF Next

\* IInv holds in every reachable state of the agent: tokens in the cache are
\* indexed, of finished consents, and not revoked; outcomes are final.
THEOREM Inductive == Spec => []IInv
<1> QED
  BY InitIInv, NextIInv, PTL DEF Spec

\* TypeOK: every variable of the dispatcher keeps its type.
THEOREM TypeCorrect == Spec => []TypeOK
<1>1. IInv => TypeOK
  BY DEF IInv
<1> QED
  BY <1>1, Inductive, PTL

\* KeyIsolation: no request is served with the token of another user or scope
\* (the cache_key of the dispatcher), also while its call is running.
THEOREM KeysAreIsolated == Spec => []KeyIsolation
<1>1. IInv => KeyIsolation
  BY DEF IInv, CacheInv
<1> QED
  BY <1>1, Inductive, PTL

\* RevokedNotServed: what revoke_jti dropped never returns to the cache.
THEOREM RevokedStaysOut == Spec => []RevokedNotServed
<1>1. IInv => RevokedNotServed
  BY DEF IInv, CacheInv
<1> QED
  BY <1>1, Inductive, PTL

\* RefusedMeansNoToken: an await answered with a refusal tells the truth.
THEOREM RefusalsAreTrue == Spec => []RefusedMeansNoToken
<1>1. IInv => RefusedMeansNoToken
  BY DEF IInv, OutcomeInv, RefusedMeansNoToken
<1> QED
  BY <1>1, Inductive, PTL

-----------------------------------------------------------------------------
(* A cancel between two polls.                                               *)

\* Where a consent can be once its cancel was seen between two polls: still
\* there, or over without a token.
Quiet(r) ==
  /\ r \notin minted
  /\ \/ task[r] = "sleeping" /\ r \in cancelled
     \/ task[r] \in {"done", "lost"}

\* No step leads out: the poll loop looks at the cancel event before each request,
\* a finished task writes nothing, and a restart forgets cancel and task alike.
LEMMA QuietStays ==
  ASSUME IInv, [Next]_vars, NEW r \in Requests, Quiet(r)
  PROVE  Quiet(r)'
<1>1. task \in [Requests -> Tasks] /\ (task[r] # "none" => pc[r] = "consent")
  BY DEF IInv, TypeOK, OnlyFinished
<1>2. ASSUME NEW q \in Requests, RequestStep(q) PROVE Quiet(r)'
  BY <1>1, <1>2 DEF Quiet, RequestStep, RefusedAtOnce, NotTrusted, Refuse, CachedCallAnswers,
     CachedCallRejected, CachedCallRaises, InitiateFails, Initiate, Dispatch, taskVars, a2aVars
<1>3. ASSUME NEW q \in Requests, TaskStep(q) PROVE Quiet(r)'
  BY <1>1, <1>3 DEF Quiet, TaskStep, PollSend, PollStops, PollPending, PollRefused, PollToken,
     ToolAnswers, ToolFails, Finish, TaskOnly, a2aVars
<1>4. ASSUME NEW q \in Requests, Await(q) \/ AwaitEnds(q) \/ Cancel(q) PROVE Quiet(r)'
  BY <1>4 DEF Quiet, Await, AwaitEnds, AwaitCompletes, AwaitTimeout, Answered, Cancel, A2AOnly, taskVars
<1>5. ASSUME NEW q \in Requests, Revoke(q) \/ Forget(q) PROVE Quiet(r)'
  BY <1>5 DEF Quiet, Revoke, Forget, taskVars, a2aVars
<1>6. ASSUME AgentRestart PROVE Quiet(r)'
  BY <1>1, <1>6 DEF Quiet, AgentRestart
<1>7. CASE UNCHANGED vars
  BY <1>7 DEF Quiet, vars, taskVars, a2aVars
<1> QED
  BY <1>2, <1>3, <1>4, <1>5, <1>6, <1>7 DEF Next

\* QuietCancelMintsNothing: a consent whose cancel arrives between two polls of
\* the CIBA client never brings a token, whatever its user does later.
THEOREM QuietCancelsHold == Spec => QuietCancelMintsNothing
<1>1. SUFFICES ASSUME NEW r \in Requests
               PROVE  Spec => [](task[r] = "sleeping" /\ r \in cancelled => [](r \notin minted))
  BY DEF QuietCancelMintsNothing
<1>2. IInv /\ task[r] = "sleeping" /\ r \in cancelled => Quiet(r)
  BY DEF IInv, OutcomeInv, Quiet
<1>3. IInv /\ [Next]_vars /\ Quiet(r) => Quiet(r)'
  BY QuietStays
<1>4. Quiet(r) => r \notin minted
  BY DEF Quiet
<1> QED
  BY <1>2, <1>3, <1>4, Inductive, PTL DEF Spec

-----------------------------------------------------------------------------
(* The cache and its index implement RevocableCache.                         *)

\* The dispatcher starts with an empty cache.
LEMMA InitMaps == Init => Abstract!Init
BY DEF Init, Abstract!Init

\* Dropping one key's token is a Drop of that key.
LEMMA DropMaps ==
  ASSUME NEW k \in Keys, cache' = [cache EXCEPT ![k] = None], TypeOK, UNCHANGED revoked
  PROVE  Abstract!Next
<1>1. cache' = [j \in Keys |-> IF j \in {k} THEN None ELSE cache[j]]
  BY DEF TypeOK
<1>2. Abstract!Drop({k})
  BY <1>1 DEF Abstract!Drop
<1> QED
  BY <1>2 DEF Abstract!Next

\* A step of a request drops at most the token of its key.
LEMMA RequestMaps ==
  ASSUME IInv, NEW r \in Requests, RequestStep(r)
  PROVE  Abstract!Next \/ UNCHANGED Abstract!vars
<1>1. CASE NotTrusted(r) \/ Refuse(r) \/ CachedCallAnswers(r) \/ CachedCallRaises(r) \/ InitiateFails(r) \/ Initiate(r)
  BY <1>1 DEF RefusedAtOnce, NotTrusted, Refuse, CachedCallAnswers, CachedCallRaises, InitiateFails, Initiate, cacheVars, revVars, Abstract!vars
<1>2. CASE CachedCallRejected(r)
  <2>1. Slot(r) \in Keys
    BY <1>2, SlotIsKey DEF IInv, OnlyFinished, CachedCallRejected
  <2> QED
    BY <1>2, <2>1, DropMaps DEF IInv, CachedCallRejected, revVars
<1>3. ASSUME NEW u \in Users, NEW s \in Scopes, Dispatch(r, u, s)
      PROVE  Abstract!Next \/ UNCHANGED Abstract!vars
  <2>1. CacheKey(u, s) \in Keys /\ UNCHANGED revoked
    BY <1>3 DEF CacheKey, Keys, Dispatch, revVars
  <2>2. UNCHANGED cacheVars \/ DropDenied(CacheKey(u, s))
    BY <1>3 DEF Dispatch
  <2> QED
    BY <2>1, <2>2, DropMaps DEF DropDenied, cacheVars, IInv, Abstract!vars
<1> QED
  BY <1>1, <1>2, <1>3 DEF RequestStep

\* The only step of a background task that changes the cache is a Put.
LEMMA TaskMaps ==
  ASSUME IInv, NEW r \in Requests, TaskStep(r)
  PROVE  Abstract!Next \/ UNCHANGED Abstract!vars
<1>1. CASE ToolAnswers(r)
  <2>1. Slot(r) \in Keys
    BY <1>1, SlotIsKey DEF IInv, OnlyFinished, ToolAnswers
  <2>2. r \notin revoked /\ \A j \in Keys : cache[j] # r
    BY <1>1, NoneIsNew DEF IInv, OnlyFinished, ToolAnswers, CachedTokens
  <2>3. Abstract!Put(Slot(r), r)
    BY <1>1, <2>2 DEF ToolAnswers, TaskOnly, revVars, Abstract!Put
  <2> QED
    BY <2>1, <2>3 DEF Abstract!Next
<1>2. CASE ~ToolAnswers(r)
  BY <1>2 DEF TaskStep, PollSend, PollStops, PollPending, PollRefused, PollToken, ToolFails,
     TaskOnly, cacheVars, revVars, Abstract!vars
<1> QED
  BY <1>1, <1>2

\* A revocation drops the key the index names: with the index complete, that
\* covers every key caching the token.
LEMMA RevokeMaps ==
  ASSUME IInv, NEW t \in Requests, Revoke(t)
  PROVE  Abstract!Next
<1> DEFINE K == {k \in Keys : k = index[t]}
<1>1. \A k \in Keys : cache[k] = t => k \in K
  BY NoneIsNew DEF IInv, CacheInv, CacheIsIndexed
<1>2. cache' = [k \in Keys |-> IF k \in K THEN None ELSE cache[k]]
  <2>1. cache = [k \in Keys |-> cache[k]]
    BY DEF IInv, TypeOK
  <2>2. CASE index[t] = None
    <3>1. K = {}
      BY <2>2, NoneIsNew DEF Keys
    <3> QED
      BY <2>1, <2>2, <3>1 DEF Revoke, DropRevoked
  <2>3. CASE index[t] # None
    <3>1. cache' = [cache EXCEPT ![index[t]] = None]
      BY <2>3 DEF Revoke, DropRevoked
    <3> QED
      BY <2>1, <3>1
  <2> QED
    BY <2>2, <2>3
<1>3. Abstract!Revoke(t, K)
  BY <1>1, <1>2 DEF Revoke, Abstract!Revoke
<1> QED
  BY <1>3 DEF Abstract!Next

\* ImplementsRevocableCache: whatever requests, consents, restarts and
\* revocations do, cache and index behave as one map from which a revoked token
\* is gone at once and for good.
THEOREM Implements == Spec => ImplementsRevocableCache
<1>1. ASSUME IInv, [Next]_vars PROVE [Abstract!Next]_(Abstract!vars)
  <2>1. ASSUME NEW r \in Requests,
               Await(r) \/ AwaitEnds(r) \/ Cancel(r) \/ Forget(r)
        PROVE  UNCHANGED Abstract!vars
    BY <2>1 DEF Await, AwaitEnds, AwaitCompletes, AwaitTimeout, Cancel, Forget, A2AOnly,
       cacheVars, revVars, Abstract!vars
  <2>2. ASSUME AgentRestart PROVE Abstract!Next
    <3>1. Abstract!Drop(Keys)
      BY <2>2 DEF AgentRestart, Abstract!Drop
    <3> QED
      BY <3>1 DEF Abstract!Next
  <2>3. CASE UNCHANGED vars
    BY <2>3 DEF vars, cacheVars, revVars, Abstract!vars
  <2> QED
    BY <1>1, <2>1, <2>2, <2>3, RequestMaps, TaskMaps, RevokeMaps DEF Next
<1> QED
  BY <1>1, InitMaps, Inductive, PTL DEF Spec, ImplementsRevocableCache, Abstract!Spec

-----------------------------------------------------------------------------
(* The agent implements ConsentTask.                                         *)

\* A consent's stage as the refinement reads it.
LEMMA StageOf ==
  /\ \A r \in Requests : [q \in Requests |-> Stage(q)][r] = Stage(r)
  /\ \A r \in Requests : [q \in Requests |-> Stage(q)]'[r] = Stage(r)'
OBVIOUS

\* A step that moves no task and lets no token into the cache.
LEMMA ConsentRests ==
  ASSUME UNCHANGED <<task, outcome>>, cancelled \subseteq cancelled',
         CachedTokens' \subseteq CachedTokens
  PROVE  Consent!Next
<1>1. \A r \in Requests : Stage(r)' = Stage(r)
  BY DEF Stage
<1> QED
  BY <1>1, StageOf DEF Consent!Next, Consent!Moved

\* Only the background task of a consent moves it.
LEMMA ConsentMoves ==
  ASSUME IInv, NEW r \in Requests, TaskStep(r) PROVE Consent!Next
<1>1. cancelled' = cancelled
  BY DEF TaskStep, PollSend, PollStops, PollPending, PollRefused, PollToken, ToolAnswers,
     ToolFails, TaskOnly, a2aVars
<1>2. \A q \in Requests \ {r} : Stage(q)' = Stage(q)
  <2>1. \A q \in Requests \ {r} : task'[q] = task[q] /\ outcome'[q] = outcome[q]
    BY DEF IInv, TypeOK, TaskStep, PollSend, PollStops, PollPending, PollRefused, PollToken,
       ToolAnswers, ToolFails, Finish
  <2> QED
    BY <2>1 DEF Stage
<1>3. /\ <<Stage(r), Stage(r)'>> \in Consent!Moves
      /\ Stage(r)' = "posting" => r \notin cancelled
      /\ ToolAnswers(r) => Stage(r) = "minted" /\ Stage(r)' = "result"
  <2>1. CASE PollSend(r)
    BY <2>1 DEF IInv, TypeOK, PollSend, ToolAnswers, Stage, Consent!Moves
  <2>2. CASE PollStops(r) \/ PollRefused(r) \/ ToolFails(r)
    <3>1. /\ task[r] \in {"sleeping", "posting", "calling"}
          /\ task'[r] = "done" /\ outcome'[r] # "result"
      BY <2>2 DEF IInv, TypeOK, PollStops, PollRefused, ToolFails, Finish
    <3>2. ~ToolAnswers(r)
      BY <3>1 DEF ToolAnswers, Finish, IInv, TypeOK
    <3> QED
      BY <3>1, <3>2 DEF Stage, Consent!Moves
  <2>3. CASE PollPending(r) \/ PollToken(r)
    BY <2>3 DEF IInv, TypeOK, PollPending, PollToken, ToolAnswers, Stage, Consent!Moves
  <2>4. CASE ToolAnswers(r)
    BY <2>4 DEF IInv, TypeOK, ToolAnswers, Finish, Stage, Consent!Moves
  <2> QED
    BY <2>1, <2>2, <2>3, <2>4 DEF TaskStep
<1>4. CachedTokens' \subseteq CachedTokens \/ (ToolAnswers(r) /\ CachedTokens' \subseteq CachedTokens \cup {r})
  <2>1. CASE ToolAnswers(r)
    <3>1. cache' = [cache EXCEPT ![Slot(r)] = r] /\ cache \in [Keys -> Requests \cup {None}]
      BY <2>1 DEF ToolAnswers, IInv, TypeOK
    <3>2. \A k \in Keys : cache'[k] \in {cache[k], r}
      BY <3>1
    <3> QED
      BY <2>1, <3>2 DEF CachedTokens
  <2>2. CASE ~ToolAnswers(r)
    BY <2>2 DEF TaskStep, PollSend, PollStops, PollPending, PollRefused, PollToken, ToolFails,
       cacheVars, CachedTokens
  <2> QED
    BY <2>1, <2>2
<1> QED
  BY <1>1, <1>2, <1>3, <1>4, StageOf DEF Consent!Next, Consent!Moved

\* A crash ends every consent and forgets the cancels with them.
LEMMA ConsentCrash == ASSUME IInv, AgentRestart PROVE Consent!Next
<1>1. \A r \in Requests : /\ outcome'[r] = outcome[r]
                          /\ task[r] \in Tasks
                          /\ task'[r] = IF task[r] \in {"none", "done"} THEN task[r] ELSE "lost"
  BY DEF AgentRestart, IInv, TypeOK
<1>2. \A r \in Requests : Stage(r)' # Stage(r) => <<Stage(r), Stage(r)'>> \in Consent!Moves
  BY <1>1 DEF Stage, Tasks, Consent!Moves
<1>3. \A r \in Requests : Stage(r)' \notin Consent!Polls
  BY <1>1 DEF Stage, Tasks, Consent!Polls
<1>4. CachedTokens' = {} /\ cancelled \subseteq Requests
  BY DEF AgentRestart, CachedTokens, IInv, TypeOK
<1> QED
  BY <1>2, <1>3, <1>4, StageOf DEF Consent!Next, Consent!Moved, Consent!Polls

\* Requests and revocations drop tokens from the cache and move no task, but for
\* the consent a request starts.
LEMMA ConsentRequests ==
  ASSUME IInv, NEW r \in Requests, RequestStep(r) \/ Revoke(r) PROVE Consent!Next
<1>1. CASE Initiate(r)
  <2>1. task[r] = "none"
    BY <1>1 DEF Initiate, IInv, OnlyFinished
  <2>2. \A q \in Requests : q # r => task'[q] = task[q] /\ outcome'[q] = outcome[q]
    BY <1>1 DEF Initiate, IInv, TypeOK
  <2>3. task'[r] = "sleeping" /\ cancelled' = cancelled /\ cache' = cache
    BY <1>1 DEF Initiate, IInv, TypeOK, cacheVars
  <2>4. Stage(r) = "none" /\ Stage(r)' = "sleeping"
    BY <2>1, <2>3 DEF Stage
  <2>5. \A q \in Requests : q # r => Stage(q)' = Stage(q)
    BY <2>2 DEF Stage
  <2> QED
    BY <2>3, <2>4, <2>5, StageOf DEF Consent!Next, Consent!Moved, Consent!Moves, CachedTokens
<1>2. CASE ~Initiate(r)
  <2>1. UNCHANGED <<task, outcome, cancelled>>
    BY <1>2 DEF RequestStep, Revoke, RefusedAtOnce, NotTrusted, Refuse, CachedCallAnswers, CachedCallRejected,
       CachedCallRaises, InitiateFails, Dispatch, taskVars, a2aVars
  <2>2. CachedTokens' \subseteq CachedTokens
    <3>1. \/ cache' = cache
          \/ \E k \in Keys \cup {None} : cache' = [cache EXCEPT ![k] = None]
      <4>1. CASE Revoke(r)
        BY <4>1 DEF Revoke, DropRevoked, IInv, TypeOK
      <4>2. CASE CachedCallRejected(r)
        BY <4>2, SlotIsKey DEF CachedCallRejected, IInv, OnlyFinished
      <4>3. ASSUME NEW u \in Users, NEW s \in Scopes, Dispatch(r, u, s)
            PROVE  cache' = cache \/ \E k \in Keys : cache' = [cache EXCEPT ![k] = None]
        BY <4>3 DEF Dispatch, DropDenied, CacheKey, Keys, cacheVars
      <4>4. CASE NotTrusted(r) \/ Refuse(r) \/ CachedCallAnswers(r) \/ CachedCallRaises(r) \/ InitiateFails(r)
        BY <4>4 DEF RefusedAtOnce, NotTrusted, Refuse, CachedCallAnswers, CachedCallRaises, InitiateFails, cacheVars
      <4> QED
        BY <1>2, <4>1, <4>2, <4>3, <4>4 DEF RequestStep
    <3>2. \A k \in Keys : cache'[k] \in {cache[k], None}
      BY <3>1 DEF IInv, TypeOK
    <3> QED
      BY <3>2 DEF CachedTokens
  <2> QED
    BY <2>1, <2>2, ConsentRests
<1> QED
  BY <1>1, <1>2

\* ImplementsConsentTask: whatever the agent does, cancels hold back every later
\* poll, and a token enters the cache once at most, as its consent succeeds.
THEOREM ImplementsConsents == Spec => ImplementsConsentTask
<1>1. Init => Consent!Init
  BY DEF Init, Consent!Init, Stage, CachedTokens
<1>2. ASSUME IInv, [Next]_vars PROVE [Consent!Next]_(Consent!vars)
  <2>1. ASSUME NEW r \in Requests, Await(r) \/ AwaitEnds(r) \/ Cancel(r) \/ Forget(r)
        PROVE  Consent!Next
    <3>1. UNCHANGED <<task, outcome, cache>> /\ cancelled \subseteq cancelled'
      BY <2>1 DEF Await, AwaitEnds, AwaitCompletes, AwaitTimeout, Answered, Cancel, Forget,
         A2AOnly, taskVars, cacheVars, a2aVars
    <3> QED
      BY <3>1, ConsentRests DEF CachedTokens
  <2>2. CASE UNCHANGED vars
    <3>1. UNCHANGED <<task, outcome, cache, cancelled>>
      BY <2>2 DEF vars, taskVars, cacheVars, a2aVars
    <3> QED
      BY <3>1, ConsentRests DEF CachedTokens
  <2> QED
    BY <1>2, <2>1, <2>2, ConsentMoves, ConsentCrash, ConsentRequests DEF Next
<1> QED
  BY <1>1, <1>2, Inductive, PTL DEF Spec, ImplementsConsentTask, Consent!Spec

-----------------------------------------------------------------------------
(* What liveness rests on: awaits and the tasks they wait for.               *)

\* What AnswersAreFinal says of one request.
StaysAnswered(r) ==
  /\ waiter[r] = "answered" => UNCHANGED <<waiter[r], answer[r]>> /\ r \notin pending'
  /\ task[r] \in {"done", "lost"} => UNCHANGED <<task[r], outcome[r], r \in minted>>

\* The dispatch of a request: a consent it starts has its task and its entry.
LEMMA RequestWaits ==
  ASSUME IInv, NoAwaitHangs, NEW r \in Requests, RequestStep(r)
  PROVE  NoAwaitHangs' /\ \A q \in Requests : StaysAnswered(q)
<1>1. TypeOK /\ (pc[r] # "consent" => task[r] = "none")
  BY DEF IInv, OnlyFinished
<1>2. CASE Initiate(r)
  <2>1. /\ pc[r] = "initiating" /\ task[r] = "none" /\ pc' = [pc EXCEPT ![r] = "consent"]
        /\ task' = [task EXCEPT ![r] = "sleeping"] /\ pending' = pending \cup {r}
        /\ UNCHANGED <<outcome, minted, waiter, answer>>
    BY <1>1, <1>2 DEF Initiate
  <2>2. pc'[r] = "consent" /\ task'[r] = "sleeping" /\ waiter[r] # "answered" /\ waiter[r] # "waiting"
    BY <1>1, <2>1 DEF TypeOK, NoAwaitHangs
  <2>3. \A q \in Requests \ {r} : /\ UNCHANGED <<pc[q], task[q], outcome[q], waiter[q], answer[q]>>
                                  /\ q \in pending' <=> q \in pending
    BY <1>1, <2>1 DEF TypeOK
  <2> QED
    BY <2>1, <2>2, <2>3 DEF NoAwaitHangs, StaysAnswered
<1>3. ASSUME UNCHANGED <<taskVars, a2aVars>>, pc[r] # "consent", pc'[r] # "consent",
             \A q \in Requests \ {r} : pc'[q] = pc[q]
      PROVE  NoAwaitHangs' /\ \A q \in Requests : StaysAnswered(q)
  BY <1>3 DEF NoAwaitHangs, StaysAnswered, taskVars, a2aVars
<1>4. CASE ~Initiate(r)
  <2>1. /\ UNCHANGED <<taskVars, a2aVars>> /\ pc[r] # "consent"
        /\ \E p \in Pcs \ {"consent"} : pc' = [pc EXCEPT ![r] = p]
    BY <1>1, <1>4 DEF RequestStep, NotTrusted, Refuse, RefusedAtOnce, CachedCallAnswers,
       CachedCallRejected, CachedCallRaises, InitiateFails, Dispatch, TypeOK, Pcs
  <2> QED
    BY <1>1, <1>3, <2>1 DEF TypeOK
<1> QED
  BY <1>2, <1>4

\* The task: it runs to an outcome, and not beyond.
LEMMA TaskWaits ==
  ASSUME IInv, NoAwaitHangs, NEW r \in Requests, TaskStep(r)
  PROVE  NoAwaitHangs' /\ \A q \in Requests : StaysAnswered(q)
<1>1. UNCHANGED <<pc, waiter, answer, pending>>
  BY DEF TaskStep, PollSend, PollStops, PollPending, PollRefused, PollToken, ToolAnswers, ToolFails,
     TaskOnly, reqVars, a2aVars
<1>2. task[r] \in {"sleeping", "posting", "calling"} /\ TypeOK
  BY DEF IInv, TaskStep, PollSend, PollStops, PollPending, PollRefused, PollToken, ToolAnswers, ToolFails
<1>3. /\ task'[r] \in {"sleeping", "posting", "calling", "done"}
      /\ task'[r] = "done" => outcome'[r] \in Outcomes
      /\ \A q \in Requests \ {r} : UNCHANGED <<task[q], outcome[q], q \in minted>>
  BY <1>2 DEF TaskStep, PollSend, PollStops, PollPending, PollRefused, PollToken, ToolAnswers, ToolFails,
     Finish, TypeOK, Outcomes, Refusals
<1> QED
  BY <1>1, <1>2, <1>3, NoneIsNew DEF NoAwaitHangs, StaysAnswered

\* The await, its answer, and the cancel.
LEMMA AwaitWaits ==
  ASSUME IInv, NoAwaitHangs, NEW r \in Requests, Await(r) \/ AwaitEnds(r) \/ Cancel(r)
  PROVE  NoAwaitHangs' /\ \A q \in Requests : StaysAnswered(q)
<1>1. UNCHANGED <<pc, task, outcome, minted>> /\ TypeOK
  BY DEF IInv, Await, AwaitEnds, AwaitCompletes, AwaitTimeout, Cancel, A2AOnly, reqVars, taskVars
<1>2. CASE Cancel(r)
  BY <1>1, <1>2 DEF Cancel, NoAwaitHangs, StaysAnswered
<1>3. CASE Await(r)
  <2>1. CASE r \in pending /\ waiter' = [waiter EXCEPT ![r] = "waiting"] /\ UNCHANGED <<answer, pending>>
    BY <1>1, <1>3, <2>1 DEF Await, NoAwaitHangs, StaysAnswered, TypeOK
  <2>2. CASE /\ r \notin pending /\ waiter' = [waiter EXCEPT ![r] = "answered"]
             /\ answer' = [answer EXCEPT ![r] = "not_found"] /\ UNCHANGED pending
    BY <1>1, <1>3, <2>2, NoneIsNoAnswer DEF Await, NoAwaitHangs, StaysAnswered, TypeOK
  <2> QED
    BY <1>3, <2>1, <2>2 DEF Await
<1>4. CASE AwaitEnds(r)
  <2>1. PICK a \in Outcomes \cup {"server_await_timeout"} : Answered(r, a) /\ waiter[r] = "waiting"
    BY <1>1, <1>4 DEF AwaitEnds, AwaitCompletes, AwaitTimeout, NoAwaitHangs, TypeOK
  <2> QED
    BY <1>1, <2>1, NoneIsNew, NoneIsNoAnswer DEF Answered, NoAwaitHangs, StaysAnswered, TypeOK
<1> QED
  BY <1>2, <1>3, <1>4

\* Every step of the agent, its restart included.
LEMMA StepWaits ==
  ASSUME IInv, NoAwaitHangs, [Next]_vars
  PROVE  NoAwaitHangs' /\ \A r \in Requests : StaysAnswered(r)
<1>1. CASE UNCHANGED <<pc, task, outcome, minted, waiter, answer, pending>>
  BY <1>1 DEF NoAwaitHangs, StaysAnswered
<1>2. ASSUME NEW r \in Requests, Revoke(r) \/ Forget(r)
      PROVE  UNCHANGED <<pc, task, outcome, minted, waiter, answer, pending>>
  BY <1>2 DEF Revoke, Forget, reqVars, taskVars, a2aVars
<1>3. CASE UNCHANGED vars
  BY <1>1, <1>3 DEF vars, reqVars, taskVars, a2aVars
<1>4. CASE AgentRestart
  BY <1>4, NoneIsNoAnswer DEF AgentRestart, IInv, TypeOK, NoAwaitHangs, StaysAnswered
<1> QED
  BY <1>1, <1>2, <1>3, <1>4, RequestWaits, TaskWaits, AwaitWaits DEF Next

\* NoAwaitHangs, AnswersAreFinal: an open /a2a/await has its pending entry and a task
\* that still runs or has an outcome for it; once it is answered the entry is gone
\* for good, and a task that is over changes neither outcome nor tokens.
THEOREM AwaitsAreServed == Spec => []NoAwaitHangs /\ AnswersAreFinal
<1>1. Init => NoAwaitHangs
  BY DEF Init, NoAwaitHangs
<1>2. IInv /\ NoAwaitHangs /\ [Next]_vars => NoAwaitHangs'
  BY StepWaits
<1>3. IInv /\ NoAwaitHangs /\ [Next]_vars
        => [\A r \in Requests :
              /\ waiter[r] = "answered" => UNCHANGED <<waiter[r], answer[r]>> /\ r \notin pending'
              /\ task[r] \in {"done", "lost"} => UNCHANGED <<task[r], outcome[r], r \in minted>>]_vars
  BY StepWaits DEF StaysAnswered
<1> QED
  BY <1>1, <1>2, <1>3, Inductive, PTL DEF Spec, AnswersAreFinal

=============================================================================
