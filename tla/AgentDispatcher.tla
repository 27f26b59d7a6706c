--------------------------- MODULE AgentDispatcher ---------------------------
(***************************************************************************)
(* A specialist agent: the A2A server (common/a2a/server.py), the          *)
(* dispatcher with its OBO token cache (hr_agent/ciba/orchestrator.py; the *)
(* one of it_agent is its mirror), the CIBA poll loop                      *)
(* (common/auth/ciba_client.py) and the receiver of revocations            *)
(* (common/revocation/internal_events.py).                                 *)
(*                                                                         *)
(* A message/send request is served from the cache or starts a consent,    *)
(* whose background task polls for the token, calls the tool and caches    *)
(* the token.  The orchestrator then awaits or cancels the consent, and    *)
(* later revokes tokens it was told of.  Each request starts at most one   *)
(* consent, so a request also names its auth_req_id and its token.         *)
(***************************************************************************)
EXTENDS Naturals, FiniteSets

CONSTANTS
  Requests,  \* message/send requests
  Users,     \* user_sub of the validated token-A
  Scopes,    \* CIBA scopes of the registered tools
  None       \* Python's None

Keys == Users \X Scopes

\* What _run_to_completion writes: a refusal of the consent (denied, expired,
\* timed out, cancelled), the result, or the error of anything else.
Refusals == {"ERR-CIBA-005", "ERR-CIBA-009", "polling_timeout", "cancelled"}
Outcomes == Refusals \cup {"result", "failed"}

ASSUME NoneIsNew == None \notin Requests \cup Keys \cup Outcomes

\* None is no answer to an await either.
ASSUME NoneIsNoAnswer == None \notin {"server_await_timeout", "not_found", "lost"}

VARIABLES
  pc,        \* a request: where its dispatch is, or how it was answered
  key,       \* its cache_key
  used,      \* the cached token it calls the tool with
  task,      \* poll_task of its consent
  outcome,   \* A2APendingState.result or .error
  cancelled, \* consents whose cancel_event is set
  pending,   \* keys of A2ARouterConfig.pending
  waiter,    \* the /a2a/await request of a consent
  answer,    \* what it was answered
  cache,     \* _token_cache
  index,     \* _jti_to_cache_key
  denied,    \* the agent's denylist
  minted,    \* history: tokens the agent received
  known,     \* history: tokens the orchestrator was told of
  revoked    \* history: tokens the agent was ever told to revoke

reqVars   == <<pc, key, used>>
taskVars  == <<task, outcome, minted>>
a2aVars   == <<cancelled, pending, waiter, answer, known>>
cacheVars == <<cache, index>>
revVars   == <<denied, revoked>>
vars      == <<reqVars, taskVars, a2aVars, cacheVars, revVars>>

Pcs   == {"idle", "calling", "initiating", "consent", "result", "error"}
Tasks == {"none", "sleeping", "posting", "calling", "done", "lost"}

TypeOK ==
  /\ pc \in [Requests -> Pcs]
  /\ key \in [Requests -> Keys \cup {None}]
  /\ used \in [Requests -> Requests \cup {None}]
  /\ task \in [Requests -> Tasks]
  /\ outcome \in [Requests -> Outcomes \cup {None}]
  /\ waiter \in [Requests -> {"idle", "waiting", "answered"}]
  /\ answer \in [Requests -> Outcomes \cup {"server_await_timeout", "not_found", "lost", None}]
  /\ cache \in [Keys -> Requests \cup {None}]
  /\ index \in [Requests -> Keys \cup {None}]
  /\ \A S \in {cancelled, pending, denied, minted, known, revoked} :
       S \subseteq Requests

Init ==
  /\ pc = [r \in Requests |-> "idle"]
  /\ key = [r \in Requests |-> None]
  /\ used = [r \in Requests |-> None]
  /\ task = [r \in Requests |-> "none"]
  /\ outcome = [r \in Requests |-> None]
  /\ waiter = [r \in Requests |-> "idle"]
  /\ answer = [r \in Requests |-> None]
  /\ cache = [k \in Keys |-> None]
  /\ index = [r \in Requests |-> None]
  /\ cancelled = {} /\ pending = {} /\ denied = {} /\ minted = {} /\ known = {} /\ revoked = {}

-----------------------------------------------------------------------------
(* POST /a2a/message/send: dispatch.                                         *)

\* Mutant of CacheKey: the user is left out.
ScopeOnly(u, s) == <<CHOOSE v \in Users : TRUE, s>>

CacheKey(u, s) == <<u, s>>

\* Where the token of a request's user and scope is cached.
Slot(r) == CacheKey(key[r][1], key[r][2])

\* Nothing but the answer: no token is looked up, no consent is asked for.
RefusedAtOnce(r) ==
  /\ pc[r] = "idle"
  /\ pc' = [pc EXCEPT ![r] = "error"]
  /\ UNCHANGED <<key, used, taskVars, a2aVars, cacheVars, revVars>>

\* _validate_token_and_peer: token-A or the peer that sends it is not trusted.
NotTrusted(r) == RefusedAtOnce(r)

\* message/send is no valid request; or the tool is unknown, or misses an argument.
Refuse(r) == RefusedAtOnce(r)

\* A cached token on the denylist is dropped with its index entry.
DropDenied(k) ==
  /\ cache' = [cache EXCEPT ![k] = None]
  /\ index' = [index EXCEPT ![cache[k]] = None]

\* The dispatch up to its first await: a cached token calls the tool unless it
\* is denied, or within 30 s of its expiry (time is a choice here).
Dispatch(r, u, s) ==
  LET k == CacheKey(u, s)
      t == cache[k]
  IN
  /\ pc[r] = "idle"
  /\ key' = [key EXCEPT ![r] = <<u, s>>]
  /\ \/ /\ t # None /\ t \notin denied
        /\ pc' = [pc EXCEPT ![r] = "calling"]
        /\ used' = [used EXCEPT ![r] = t]
        /\ UNCHANGED cacheVars
     \/ /\ pc' = [pc EXCEPT ![r] = "initiating"]
        /\ IF t \in denied THEN DropDenied(k) ELSE UNCHANGED cacheVars
        /\ UNCHANGED used
  /\ UNCHANGED <<taskVars, a2aVars, revVars>>

CachedCallAnswers(r) ==
  /\ pc[r] = "calling"
  /\ pc' = [pc EXCEPT ![r] = "result"]
  /\ used' = [used EXCEPT ![r] = None]
  /\ UNCHANGED <<key, taskVars, a2aVars, cacheVars, revVars>>

\* The resource server rejects the cached token: whatever is cached for the key
\* by now is dropped, its index entry stays, and a new consent is asked for.
CachedCallRejected(r) ==
  /\ pc[r] = "calling"
  /\ pc' = [pc EXCEPT ![r] = "initiating"]
  /\ cache' = [cache EXCEPT ![Slot(r)] = None]
  /\ used' = [used EXCEPT ![r] = None]
  /\ UNCHANGED <<key, taskVars, a2aVars, index, revVars>>

\* The cached call raises something else than an HTTP status: the request fails,
\* the token stays cached.
CachedCallRaises(r) ==
  /\ pc[r] = "calling"
  /\ pc' = [pc EXCEPT ![r] = "error"]
  /\ used' = [used EXCEPT ![r] = None]
  /\ UNCHANGED <<key, taskVars, a2aVars, cacheVars, revVars>>

\* No actor token, or the identity server refuses the CIBA request or answers it
\* without an auth_req_id.
InitiateFails(r) ==
  /\ pc[r] = "initiating"
  /\ pc' = [pc EXCEPT ![r] = "error"]
  /\ UNCHANGED <<key, used, taskVars, a2aVars, cacheVars, revVars>>

\* The consent is initiated: background task, pending entry, consent_required.
Initiate(r) ==
  /\ pc[r] = "initiating"
  /\ pc' = [pc EXCEPT ![r] = "consent"]
  /\ task' = [task EXCEPT ![r] = "sleeping"]
  /\ pending' = pending \cup {r}
  /\ UNCHANGED <<key, used, outcome, minted, cancelled, waiter, answer,
                 known, cacheVars, revVars>>

-----------------------------------------------------------------------------
(* The background task: poll_for_token, the tool call, the result.           *)

\* state.result or state.error is written and completion is set (finally).
Finish(r, o) ==
  /\ outcome' = [outcome EXCEPT ![r] = o]
  /\ task' = [task EXCEPT ![r] = "done"]

TaskOnly == UNCHANGED <<reqVars, a2aVars, revVars>>

\* Mutant of PollSend: the cancel event is not looked at.
PollSendAlways(r) ==
  /\ task[r] = "sleeping"
  /\ task' = [task EXCEPT ![r] = "posting"]
  /\ UNCHANGED <<outcome, minted, cacheVars>> /\ TaskOnly

\* Next round of the loop: budget, then cancel event, then the request.
PollSend(r) ==
  /\ task[r] = "sleeping"
  /\ r \notin cancelled
  /\ task' = [task EXCEPT ![r] = "posting"]
  /\ UNCHANGED <<outcome, minted, cacheVars>> /\ TaskOnly

\* Mutant of PollStops: there is no poll budget.
PollStopsIfCancelled(r) ==
  /\ task[r] = "sleeping"
  /\ r \in cancelled
  /\ Finish(r, "cancelled")
  /\ UNCHANGED <<minted, cacheVars>> /\ TaskOnly

\* Mutant of PollStops: the budget spans the tool call.
PollStopsInCall(r) ==
  /\ task[r] \in {"sleeping", "calling"}
  /\ Finish(r, IF r \in cancelled THEN "cancelled" ELSE "polling_timeout")
  /\ UNCHANGED <<minted, cacheVars>> /\ TaskOnly

\* Mutant of PollStops: the poll's timeout is reported as the await's.
PollStopsAsAwait(r) ==
  /\ task[r] = "sleeping"
  /\ Finish(r, IF r \in cancelled THEN "cancelled" ELSE "server_await_timeout")
  /\ UNCHANGED <<minted, cacheVars>> /\ TaskOnly

\* CIBATimeoutError: cancelled, or the poll budget is spent (time is a choice);
\* the reason it is given depends on the cancel event alone.
PollStops(r) ==
  /\ task[r] = "sleeping"
  /\ Finish(r, IF r \in cancelled THEN "cancelled" ELSE "polling_timeout")
  /\ UNCHANGED <<minted, cacheVars>> /\ TaskOnly

\* authorization_pending, slow_down or a network error.
PollPending(r) ==
  /\ task[r] = "posting"
  /\ task' = [task EXCEPT ![r] = "sleeping"]
  /\ UNCHANGED <<outcome, minted, cacheVars>> /\ TaskOnly

\* access_denied, expired_token; or another error of the identity server, or a
\* request that times out, which is not retried.
PollRefused(r) ==
  /\ task[r] = "posting"
  /\ \E o \in {"ERR-CIBA-005", "ERR-CIBA-009", "failed"} : Finish(r, o)
  /\ UNCHANGED <<minted, cacheVars>> /\ TaskOnly

\* The token is received, also when the consent was cancelled during the request.
PollToken(r) ==
  /\ task[r] = "posting"
  /\ task' = [task EXCEPT ![r] = "calling"]
  /\ minted' = minted \cup {r}
  /\ UNCHANGED <<outcome, cacheVars>> /\ TaskOnly

\* Mutant of ToolAnswers: the token is cached but not indexed.
ToolAnswersNoIndex(r) ==
  /\ task[r] = "calling"
  /\ Finish(r, "result")
  /\ cache' = [cache EXCEPT ![Slot(r)] = r]
  /\ UNCHANGED <<minted, index>> /\ TaskOnly

\* The tool call succeeds: the token replaces what is cached for its key.
ToolAnswers(r) ==
  /\ task[r] = "calling"
  /\ Finish(r, "result")
  /\ cache' = [cache EXCEPT ![Slot(r)] = r]
  /\ index' = [index EXCEPT ![r] = Slot(r)]
  /\ UNCHANGED <<minted>> /\ TaskOnly

\* The tool call fails: the token is neither cached nor reported.
ToolFails(r) ==
  /\ task[r] = "calling"
  /\ Finish(r, "failed")
  /\ UNCHANGED <<minted, cacheVars>> /\ TaskOnly

-----------------------------------------------------------------------------
(* POST /a2a/await and POST /a2a/cancel.                                     *)

A2AOnly == UNCHANGED <<reqVars, taskVars, cacheVars, revVars>>

\* The orchestrator awaits a consent it was told of; it may never do so (the
\* answer to message/send was lost).
Await(r) ==
  /\ pc[r] = "consent"
  /\ waiter[r] = "idle"
  /\ \/ /\ r \in pending
        /\ waiter' = [waiter EXCEPT ![r] = "waiting"]
        /\ UNCHANGED answer
     \/ /\ r \notin pending
        /\ waiter' = [waiter EXCEPT ![r] = "answered"]
        /\ answer' = [answer EXCEPT ![r] = "not_found"]
  /\ UNCHANGED <<cancelled, pending, known>> /\ A2AOnly

\* Mutant of Answered: the pending entry stays.
AnsweredKeepsEntry(r, a) ==
  /\ waiter' = [waiter EXCEPT ![r] = "answered"]
  /\ answer' = [answer EXCEPT ![r] = a]
  /\ UNCHANGED <<cancelled, pending>>

\* The await request is answered and its pending entry removed.
Answered(r, a) ==
  /\ waiter' = [waiter EXCEPT ![r] = "answered"]
  /\ answer' = [answer EXCEPT ![r] = a]
  /\ pending' = pending \ {r}
  /\ UNCHANGED cancelled

\* The completion event is set; the answer may still be lost on its way.
AwaitCompletes(r) ==
  /\ waiter[r] = "waiting"
  /\ task[r] = "done"
  /\ Answered(r, outcome[r])
  /\ known' \in {known, IF outcome[r] = "result" THEN known \cup {r} ELSE known}
  /\ A2AOnly

\* 330 s have passed; the task runs on.
AwaitTimeout(r) ==
  /\ waiter[r] = "waiting"
  /\ task[r] # "done"
  /\ Answered(r, "server_await_timeout")
  /\ UNCHANGED known /\ A2AOnly

\* A cancel of an unknown consent is answered not_found and changes nothing.
Cancel(r) ==
  /\ r \in pending
  /\ cancelled' = cancelled \cup {r}
  /\ UNCHANGED <<pending, waiter, answer, known>> /\ A2AOnly

-----------------------------------------------------------------------------
(* POST /internal/events.                                                    *)

\* Mutant of DropRevoked: the index entry goes, the cached token stays.
DropIndexOnly(t) ==
  /\ index' = [index EXCEPT ![t] = None]
  /\ UNCHANGED cache

\* revoke_jti: the index names the key whose cached token is dropped, whichever
\* token of the key is cached by now.
DropRevoked(t) ==
  /\ index' = [index EXCEPT ![t] = None]
  /\ cache' = IF index[t] = None THEN cache ELSE [cache EXCEPT ![index[t]] = None]

\* The denylist first, then the cache.  The sender may repeat an event.
Revoke(t) ==
  /\ t \in known
  /\ denied' = denied \cup {t}
  /\ revoked' = revoked \cup {t}
  /\ DropRevoked(t)
  /\ UNCHANGED <<reqVars, taskVars, a2aVars>>

\* The denylist forgets a token: it was swept, or evicted at the cap.
Forget(t) ==
  /\ t \in denied
  /\ denied' = denied \ {t}
  /\ UNCHANGED <<reqVars, taskVars, a2aVars, cacheVars, revoked>>

-----------------------------------------------------------------------------
(* A crash: everything the agent holds is in memory.                         *)

AgentRestart ==
  /\ \E r \in Requests : pc[r] # "idle"
  /\ pc' = [r \in Requests |-> IF pc[r] \in {"calling", "initiating"} THEN "error" ELSE pc[r]]
  /\ used' = [r \in Requests |-> None]
  /\ task' = [r \in Requests |-> IF task[r] \in {"none", "done"} THEN task[r] ELSE "lost"]
  /\ waiter' = [r \in Requests |-> IF waiter[r] = "waiting" THEN "answered" ELSE waiter[r]]
  /\ answer' = [r \in Requests |-> IF waiter[r] = "waiting" THEN "lost" ELSE answer[r]]
  /\ cache' = [k \in Keys |-> None]
  /\ index' = [r \in Requests |-> None]
  /\ pending' = {} /\ cancelled' = {} /\ denied' = {}
  /\ UNCHANGED <<key, outcome, minted, known, revoked>>

-----------------------------------------------------------------------------

RequestStep(r) ==
  \/ NotTrusted(r) \/ Refuse(r) \/ CachedCallAnswers(r) \/ CachedCallRejected(r)
  \/ CachedCallRaises(r) \/ InitiateFails(r) \/ Initiate(r)
  \/ \E u \in Users, s \in Scopes : Dispatch(r, u, s)

TaskStep(r) ==
  \/ PollSend(r) \/ PollStops(r) \/ PollPending(r) \/ PollRefused(r)
  \/ PollToken(r) \/ ToolAnswers(r) \/ ToolFails(r)

AwaitEnds(r) == AwaitCompletes(r) \/ AwaitTimeout(r)

Next ==
  \/ \E r \in Requests :
       \/ RequestStep(r) \/ TaskStep(r)
       \/ Await(r) \/ AwaitEnds(r) \/ Cancel(r)
       \/ Revoke(r) \/ Forget(r)
  \/ AgentRestart

Spec == Init /\ [][Next]_vars

-----------------------------------------------------------------------------
(* Safety.                                                                   *)

CachedTokens == {cache[k] : k \in Keys} \ {None}

\* A token is only ever used for the user and the scope its consent was given
\* for, also when a request's call outlives the cache entry it was taken from.
KeyIsolation ==
  /\ \A k \in Keys : cache[k] # None => key[cache[k]] = k
  /\ \A r \in Requests : used[r] # None => key[used[r]] = key[r]

\* A token the agent was told to revoke is never cached again, so no later
\* request is served with it, even after the denylist has forgotten it and
\* however many consents of the key overlapped (FIX-19).
RevokedNotServed == CachedTokens \cap revoked = {}

\* An await answered with a refusal (denied, expired, timed out, cancelled)
\* tells the truth: the agent has received no token for it and never will.
RefusedMeansNoToken ==
  \A r \in Requests : answer[r] \in Refusals => r \notin minted /\ task[r] = "done"

\* hr_agent/ciba/orchestrator.py:341 says that the jti index is updated on cache
\* write and pop alongside _token_cache.
IndexMatchesCache ==
  \A t \in Requests : index[t] # None => cache[index[t]] = t

-----------------------------------------------------------------------------
(* The inductive invariant behind the safety properties.                    *)

\* Every cached token is found through the index; the converse does not hold.
CacheIsIndexed == \A k \in Keys : cache[k] # None => index[cache[k]] = k

\* Only a finished task has cached or reported its token.  (Where a request is
\* determines what it has.)
OnlyFinished ==
  /\ \A r \in Requests : task[r] # "none" => key[r] \in Keys
  /\ \A r \in Requests : pc[r] \notin {"idle", "error"} => key[r] \in Keys
  /\ \A r \in Requests : pc[r] # "consent" => task[r] = "none"
  /\ \A r \in Requests : pc[r] # "calling" => used[r] = None
  /\ \A r \in Requests : used[r] # None => task[used[r]] = "done"
  /\ \A r \in CachedTokens \cup known : task[r] = "done"
  /\ revoked \subseteq known

\* An outcome is final, and a refusal is only ever the outcome of a consent for
\* which no token was received.
OutcomeInv ==
  \A r \in Requests :
    /\ task[r] \in {"none", "sleeping", "posting"} => r \notin minted
    /\ task[r] = "done" /\ outcome[r] \in Refusals => r \notin minted
    /\ answer[r] \in Refusals => task[r] = "done" /\ outcome[r] = answer[r]

CacheInv == KeyIsolation /\ CacheIsIndexed /\ RevokedNotServed

IInv == TypeOK /\ OnlyFinished /\ CacheInv /\ OutcomeInv

-----------------------------------------------------------------------------
(* Refinement: the cache and its index together are a RevocableCache.        *)

Abstract == INSTANCE RevocableCache WITH Tokens <- Requests

ImplementsRevocableCache == Abstract!Spec

\* A consent as the orchestrator meets it: the task of a request, lost or not.
Stage(r) ==
  CASE task[r] = "calling" -> "minted"
    [] task[r] = "done" -> IF outcome[r] = "result" THEN "result" ELSE "error"
    [] task[r] = "lost" -> "error"
    [] OTHER -> task[r]

Consent == INSTANCE ConsentTask WITH
  Consents <- Requests, stage <- [r \in Requests |-> Stage(r)],
  stopped <- cancelled, cached <- CachedTokens

\* The agent keeps the promise about consents that the agent of SessionCascade,
\* the one the orchestrator's model sees, keeps too.
ImplementsConsentTask == Consent!Spec

-----------------------------------------------------------------------------
(* What liveness rests on: nobody waits in vain, and no answer is taken back.  *)

\* Every consent has a task that runs, has an outcome, or was lost with the agent;
\* an open await has its entry, and a task that can still complete it; an answered
\* one has neither entry nor an empty answer.
NoAwaitHangs ==
  \A r \in Requests :
    /\ pc[r] = "consent" => task[r] # "none"
    /\ task[r] = "done" => outcome[r] # None
    /\ r \in pending => pc[r] = "consent" /\ task[r] # "lost"
    /\ waiter[r] = "waiting" => r \in pending
    /\ waiter[r] = "answered" => r \notin pending /\ pc[r] = "consent"
    /\ waiter[r] = "answered" <=> answer[r] # None

\* What was answered stays so and its entry does not come back, and a task that is
\* over writes nothing more, whatever is cancelled and whenever the agent restarts.
AnswersAreFinal ==
  [][\A r \in Requests :
       /\ waiter[r] = "answered" => UNCHANGED <<waiter[r], answer[r]>> /\ r \notin pending'
       /\ task[r] \in {"done", "lost"} => UNCHANGED <<task[r], outcome[r], r \in minted>>]_vars

-----------------------------------------------------------------------------
(* Liveness.  The event loop runs the background task and the await handler; *)
(* requests to the identity server and the resource server have timeouts;    *)
(* the poll loop, entered again and again, at last meets its deadline.       *)
(* Nothing else is fair.                                                     *)

Fairness ==
  \A r \in Requests :
    WF_vars(TaskStep(r)) /\ SF_vars(PollStops(r)) /\ WF_vars(AwaitEnds(r))

FairSpec == Spec /\ Fairness

\* Every consent comes to an end, whatever the user, the identity server and
\* the tool do, and tells its outcome, unless the agent restarts.
ConsentEnds ==
  \A r \in Requests :
    pc[r] = "consent" ~> task[r] = "lost" \/ (task[r] = "done" /\ outcome[r] # None)

\* Every await is answered, and from then on the consent's entry is gone: a late
\* cancel is answered not_found.
AwaitAnswered ==
  \A r \in Requests :
    waiter[r] = "waiting" ~> [](waiter[r] = "answered" /\ r \notin pending)

\* A consent whose cancel arrives between two polls never brings a token,
\* also when its user approves it later.  (A poll already on its way may.)
QuietCancelMintsNothing ==
  \A r \in Requests :
    [](task[r] = "sleeping" /\ r \in cancelled => [](r \notin minted))

=============================================================================
