# Smart Employee Assistant: TLA+ specifications and proofs

These modules specify the Smart Employee Assistant: how sessions are opened and
torn down, how consents become tokens, how tokens are revoked, what each service
remembers of that, what a tool call needs on its way, what the resource servers
keep, and what the user sees of it all. TLC checks them on small instances; TLAPS
proves the refinements and all safety properties of the passing runs for every
value of the constants. Only liveness is left to TLC.

Source paths below are relative to `src/`.

1. The system
2. The modules, and how they correspond to the code
3. The plan
4. What the runs check
5. Fairness
6. What is proved
7. What is only model-checked
8. Where code and documents disagree
9. Known limits of the code that are no violation
10. What is not modelled
11. Running the checks

## 1. The system

Five Python services on asyncio event loops, a browser client and the identity
server (IS). All state of the services is in memory.

| Component | State it keeps | Operations | What is hard about it |
|---|---|---|---|
| Session store `orchestrator/auth/session_store.py` | sessions with their fence, pending consents, log of completed consents, logout reason; per-user locks and reasons; sid index | create, get, find by user, delete, register sid, record and take a reason | the Session object outlives its entry: running chats hold it |
| Sign-in and sign-out routes `orchestrator/auth/routes.py` | pending logins (TTL, cap) | login, callback page, exchange, logout | the login state is popped before an await |
| Back-channel logout receiver `orchestrator/auth/bcl_receiver.py` | logout tokens already seen | validate, deduplicate, run the cascade, sweep | IS retries; key fetch awaited in the middle of validation |
| Logout cascade `orchestrator/auth/logout_handler.py` | none of its own | lock, fence, cancel barrier, revoke token-A, fan out, announce, delete | races with itself, with chats and with agents that poll |
| Revocation client `orchestrator/agent_registry/revoke_client.py`, `auth/is_revoke.py` | none | one leg per receiver, one retry | a leg may fail, or succeed after its timeout |
| Chat fan-out `orchestrator/chat/routes.py`, reports `orchestrator/reports/` | per chat: position in its tool loop | accept, route, call agents one after the other, await consents, reply | goes on while its session is torn down |
| Event streams `orchestrator/events/` | a queue per session | publish, stream, disconnect hook | all streams of a session share its queue; a dead stream still takes events; the hook runs in a cancelled task |
| Planner and composer `orchestrator/llm/`, `chat/keyword_fallback.py` | none | plan tool calls, phrase replies | ordered rules; names and scopes agreed on in five places |
| MCP clients `hr_agent/mcp/`, `it_agent/mcp/` | none | one method per tool | fields must be those the server demands |
| Discovery `orchestrator/agent_registry/` | agent cards | fetch and look up | written at start-up |
| Agent dispatchers `hr_agent/ciba/`, `it_agent/ciba/` (mirrors) | OBO-token cache by (user, scope), jti index, denylist | dispatch, background task of a consent, revoke | overlapping consents of one key; revocation during a call |
| A2A protocol `common/a2a/` | pending consents of an agent | send, await (330 s), cancel | await, cancel and completion race |
| CIBA client `common/auth/ciba_client.py` | none | initiate, poll loop with budget and cancel event | cancel races a poll on its way |
| Revocation receivers `common/revocation/` | rate buckets, denylist (cap, sweep) | receive an event, sweep | rate limit before authentication; late and repeated posts |
| Token validation `common/auth/jwt_validator.py`, `*_server/auth/` | key caches | signature, claims, expiry with leeway, denylist | concurrent key fetches land in any order; what is refused when the denylist has forgotten |
| Actor tokens `common/auth/actor_token_provider.py` | one cached token, a lock | get | double-checked locking, a capped life |
| HR resource server `hr_server/` | users, balances, leave requests, cubicles | MCP tools by sub, REST handlers by username, reset | nothing is reserved between asking and deciding; two doors; who is known by what name |
| IT resource server `it_server/` | users, assignments, counts of the catalogue | issue, list, report | issuing again; two doors |
| Browser client `client/` | one consent card, its timers, one composer | send, approve, cancel, retry, handle events | two fan-outs share the card; timers of cards that are gone |
| Identity server | sessions, consents, tokens | external | answers late, twice or never |

### How they interact

- A sign-in ends in `POST /auth/exchange`, which awaits IS and then creates a
  session, registers its sid and takes over the logout reason, if one waits for
  that user.
- `POST /api/chat` checks the cookie and the fence, answers 202, and leaves a
  background task that plans tool calls and performs them one at a time. Each
  call is a `message/send` to an agent. The agent answers from its cache or with
  `consent_required`; the task then registers a pending consent on the session
  and awaits `/a2a/await`. A result adds the token's jti to the session's log.
- The agent's own background task polls IS until the user has approved, calls
  the MCP tool with the token, caches the token, and sets the completion event.
- A logout, by the button or through IS, runs one cascade per user at a time:
  fence all sessions of the user; then for each, read its log, wait up to 100 ms
  for its pending consents to be acknowledged, revoke token-A, post every logged
  jti to every receiver (agents and MCP servers), push `session_terminated`,
  record the reason, delete the session.
- A receiver puts the jti on its denylist, and an agent also drops the cached
  token; MCP servers refuse a token whose jti is on the list.
- `POST /api/ciba/cancel` sends an A2A cancel. So would the hook that runs when an
  event stream breaks, but it is cancelled before its first request is out
  (section 8).

One loop per service means that a piece of code between two awaits is atomic.
So an action here is what runs from one point of suspension to the next, and all
interleavings of such pieces, across services too, are explored.

### Hard behaviours and the properties they call for

| Component | What makes it correct |
|---|---|
| Sessions and cascade | a fenced session is removed; once; last, after its revocations; its user alone; the reason waits for the user; every chat is answered |
| Agents | a token serves only its user and scope; a revoked one never again; a refusal is the truth; every consent and await ends |
| Sign-in | one state, one exchange; a fresh sign-in can be completed; one cascade per logout token; it ends every session of its user |
| Receivers | an acknowledged revocation holds; eviction takes the least recent; the rate limit is an exact window |
| Resource servers | balances and decisions add up in every order; everybody finds what the report has under the name, and nothing else |
| Actor tokens | one mint at a time; a deactivated agent is handed a token for a bounded time |
| Key caches | a published key is found, a retired one is not trusted for ever, however fetches overtake each other |
| Tool calls | what the user consents to is what the server wants |
| Screen and streams | the card that is waited for is visible, nobody is locked out; what nobody watches any more, or was declined, does not run |

## 2. The modules

| Module | About | Theorems |
|---|---|---|
| `SessionCascade` | sessions, chats, agents' flows and the cascade together | `SessionCascade_proofs` |
| `SignOut` | abstract: what signing out promises | refined by `SessionCascade` |
| `AgentDispatcher` | one agent: A2A server, dispatcher, poll loop, revocation | `AgentDispatcher_proofs` |
| `RevocableCache` | abstract: what a token cache promises | refined by `AgentDispatcher` |
| `ConsentTask` | abstract: what an agent promises about a consent | refined by `AgentDispatcher` and by `SessionCascade` |
| `SignIn` | pending logins, exchange, sid index, logout tokens, lock and fence | `SignIn_proofs` |
| `Denylist` | one receiver with rate limit, denylist, validator; the leg that posts to it | `Denylist_proofs` |
| `OrderedDict` | the bounded record three services use | `OrderedDict_proofs` |
| `HrServer` | the HR store and its two doors | `ResourceServers_proofs` |
| `ItServer` | the IT store and its two doors | `ResourceServers_proofs` |
| `KeyCache` | validations and their two kinds of key cache | `ResourceServers_proofs` |
| `ActorToken` | the token of an agent or of the orchestrator | `ResourceServers_proofs` |
| `ToolPath` | planner, agent, client and server of a tool call | `ResourceServers_proofs` |
| `ConsentScreen` | fan-outs, the session's queue, streams, the page | `ConsentScreen_proofs` |
| `MCServices` | `Denylist` and the last six side by side, one moving per behaviour | `Services_proofs` |
| `MCFairness` | `AgentDispatcher` and `SignIn` side by side under fair scheduling, likewise | |
| `MC...` | constants and symmetry for TLC | |

`PROJECT.json` maps every definition to the lines it stands for. The main
correspondences:

**SessionCascade.** `owner`, `store`, `terminating`, `pendingCiba`,
`completedLog`, `lastReason`, `pendingReason` and `lock` are the fields of
Session and SessionStore. A chat's `chatPc` is the await its background task
stands at: `routing` (resolve_tool_calls), `sending` (message_send), `awaiting`
(await_completion), `composing` (compose_reply). `ready` is the head of the tool
loop. A cascade's `casPc` likewise: `waiting` for the lock, `barrier`
(_cancel_pending_ciba), `revoke` (revoke_token), `fanout` (the gather of the
legs of one record). `DropSession` is not an action: it is what happens in the
same step as the last answer a session's teardown waited for, together with the
entry into the next session's teardown. A consent is named by its chat and
call number, which stands for its auth_req_id and for the jti of its token.
The plan of a chat is any number of calls up to `MaxCalls`. `owed`,
`revokeTried`, `fannedOut`, `terminated`, `replies` and `reasonSends` are
history. `pendingReason` is a record with a cap (`ReasonCap`): where it is full,
`RecordReason` evicts whoever has waited longest. Its order is `later`: for each
user, those whose reasons were recorded after that user's last. An event stream that ends
cancels nothing (section 8), so it is no action here. The local cancel event of a pending consent is not state, because
nothing reads it. The order in which a session set or a log is walked is left
open, which allows more than the code does.

**AgentDispatcher.** `cache` is `_token_cache`, `index` is `_jti_to_cache_key`,
`pending` the A2A router's map, `denied` the agent's denylist. A request that
finds a cached token holds it in `used` over the await of its tool call, while
others replace or revoke it. `outcome` is what the background task writes before
it sets the completion event; `waiter` and `answer` are the `/a2a/await` request.
Time is a choice: the expiry buffer of a cached token, the poll budget and the
await limit may apply at any moment they are looked at. `AgentRestart` loses
everything in memory.

**SignIn.** `logins` and `seen` are ordered records; `Fresh`, `MakeRoom` and
`Push` are the inline sweep, the eviction and the insert of `/auth/login`.
`Exchange` is the handler up to its await, `ExchangeDone` and `ExchangeFails`
the rest. A delivery reads the clock in `Deliver` (`started`), awaits the key,
and is decided in `Accept`, all of which is one step in the code as well:
deduplication, lookup of the user by sub or sid, choice of the cascade. Of the
cascade this module keeps lock, fence, deletions and end.

**Denylist.** A leg posts once, waits, posts again; a post and its leg are
separate state, because a post may arrive after its leg has given up. `Receive`
is the whole handler: rate limit, then `Add`. `Strays` are posts of the same
address that are turned away after the rate limit has counted them. `Honoured`
is the validator's check of exp, leeway and denylist.

**OrderedDict.** A record is its set of keys and the relation "inserted before".
A sequence would be shorter to print, but filtering one (`SelectSeq`) is
recursive, and nothing about it can be proved with the provers at hand; every
operation on the set and relation is a plain set expression.

**HrServer.** `known` is `store.users`: a caller is registered by sub, without a
name, by the MCP door, and with name and email by the REST door, which completes
the record. `request` and `counter` are the leave requests and the number the next
one gets. No function of `hr_service` awaits, so every call is one step, except
that `POST /leaves` and `reject` read their body after they have authenticated
(`reading`): anything may happen in between, a reset too. Cubicles are numbered as
the rows of the store are ordered, and one employee may be assigned several.
`MyCubicle` is `get_my_cubicle`, which returns the first row that matches the
caller's sub or name; the two doors reach it with different knowledge of the
caller. `met` and `told` are history.

**ItServer.** `asset` is whom each issued asset is assigned to, `available` the
counts of the catalogue. The MCP door looks a caller's name up by sub. Nothing
resets the store while the process lives.

**KeyCache.** A validation (`call`) looks its key up, may fetch the key set (the
answer is what is published when the identity server reads it, and lands up to
`Transit` later), replaces the whole cached set, and judges the token in the step
in which it has the key. `ages` tells the cache with a time to live
(`JWKSCache`) from the REST doors' caches, which never age and allow no leeway.
`Retire` and `Publish` are the identity server's. A REST door's `_get_jwks`
looks at its cache once more after the fetch has closed its HTTP client
(`hr_server/auth/jwt_validator.py:56`); `Land` takes fetch and look as one step.
A set that another fetch lands in between is seen here by the validations that
begin then, not by the one that is closing its client.

**ActorToken.** `Ask` is the fast path, `Lock` the second look under the lock, then
one action per request of the mint. The token's life at the identity server and
the capped life in the cache are different things, and only the latter bounds how
long a deactivated agent goes on. The identity server is assumed to refuse logins
and tokens to a deactivated agent.

**ToolPath.** Tables translated from the registries: the keyword rules in their
order with the phrases that contain each other, the tools' client methods, scopes
and passed arguments, the methods' paths and fields, the servers' scopes and
required fields. The behaviour is one user's: a message is planned by rule or by
a model that names any tool with any listed arguments, each call is refused for a
missing argument, served from a cached token, or asked consent for, and the
server judges body, then scope.

**ConsentScreen.** A job is one fan-out. `queue` is the session's, `stream` the open
and dropped event streams, `page` the variables of `app.js` that matter:
the consent whose card is shown, its state, the running countdowns (one that
belongs to a replaced card runs on), the animation, the composer and the request
in flight. Each event handler is a function on the page record, applied when a
stream hands over the event. A stream whose browser is gone takes events until
the server notices (`Close`), and cancels the task that waits in the stream's
generator. The disconnect hook then sets out to cancel all that the session awaits
(`Abandoned`), in a task whose every await raises `CancelledError`: of the requests it
would make, `SentWhenCancelled` is what is sent, which is nothing. This is a rule of the
framework (Starlette's `StreamingResponse` under uvicorn 0.32, and anyio), stated as an
external definition. The identity server's page is `opened`, its verdict is seen when the wait
at the agent returns.

**SignOut** knows sessions, the tokens recorded for them, which of them were owed
when the session was fenced, and notices. A session closes only when every
owed token's revocation was attempted, and with exactly one notice.
**RevocableCache** knows a cache and a set of revoked tokens: a revoked token is
gone at once and never put back; dropping more than asked for is allowed.
**ConsentTask** knows the stage of each consent, the cancels and the cached tokens:
stages only go forward, but for a poll that is answered "pending"; a cancelled
consent is not polled again, and a cancel is forgotten only together with the
polling; a token enters the cache only in the step in which its consent succeeds.

## 3. The plan

Written in this order: `SignOut` and `SessionCascade` (the heart: what a sign-out
does to everything else), `RevocableCache` and `AgentDispatcher` (where the
tokens live), `OrderedDict`, `SignIn` (where sessions come from and what asks for
their end), `Denylist` (whether a revocation holds); then `HrServer` and
`ItServer` (what the tools change), `KeyCache` and `ActorToken` (what every
request depends on), `ConsentScreen` (what the user sees and decides) and
`ToolPath` (what the parts must agree on).

`ConsentTask` came after both models of an agent: `AgentDispatcher` is the agent
itself, with its requests, keys and restarts, and `SessionCascade` has the agent as
the orchestrator meets it. Both implement the one abstract module, which is what
ties them together.

Next: the composition proper, `AgentDispatcher` under the calls of `SessionCascade`'s
chats and cascades; so far the two meet in `ConsentTask` only, and the orders of
calls they allow are stated twice.

## 4. What the runs check

| Run | Instance | Shows |
|---|---|---|
| `cascade_safety` | 1 user, 2 sessions, 2 chats of 1 call, 2 cascades, 2 receivers | type correctness; `NoSessionStuckFenced`, `TornDownOnce`, `RemovalComesLast`, `PendingIsAwaited`, `ReasonToldOnce`, `RevokedNotCached`; refinement of `SignOut` |
| `cascade_liveness` | 2 users, 2 sessions, 1 chat of 1 call, 2 cascades, room for 1 reason, fair | `OnlyOwnSessions`, `ReasonToldOnce`, `ChatAnswered`, `LogoutEndsSessions` |
| `late_token` | 1 of each | violation: a token survives the barrier (section 8) |
| `dispatcher_safety` | 3 requests, 2 users, 1 scope | type correctness; `KeyIsolation`, `RevokedNotServed`, `RefusedMeansNoToken`; refinement of `RevocableCache` |
| `fairness` | per behaviour the agent with 2 requests of 1 key, or the sign-in with 2 users, 2 sids and 1 logout token without sub; fair | `ConsentEnds`, `AwaitAnswered`, `QuietCancelMintsNothing`; `NamedSessionsEnd` |
| `jti_index` | 2 requests of 1 key | violation: the index names a token that is no longer cached |
| `signin_safety` | 1 user, 2 login states, 2 exchanges, 2 logout tokens, 2 deliveries, both caps 1, clock to 2 | type correctness with the caps; `OneExchangePerState`, `SignInStaysOpen`, `RunsOnce` |
| `sid_index` | 1 of each | violation: a sid outlives its session in the index |
| `services_safety` | per behaviour one of seven instances, see below | type correctness; `AckedIsRefused`, `RecentStay`, `RateBound`; `BalancesAddUp`, `AnswersStand`, `CubicleFound`; `StockAddsUp`, `AssetsFound`; `PublishedKeyFound`, `TrustEnds`; `SingleFlight`, `DeactivationLag`; `ScreenUsable`; `ConsentFitsCall` |
| `denylist_leeway` | 1 token | violation: a revoked token is honoured in its leeway |
| `declined_runs` | 1 tab, 2 jobs of 1 call, 1 stream | violation: a consent the user declined on the page comes to a token |
| `unwatched` | 1 tab, 2 jobs of 1 call, 1 stream | violation: a stream ends, and the agents of the consents it took are not told |

The instances of `services_safety`:

| Component | Instance |
|---|---|
| `Denylist` | 3 tokens of which one expires at once, 1 stray post, cap 2, limit 2, window 1, leeway 2, clock to 2, two faults at most (`FewFaults`) |
| `HrServer` | an employee and an approver who also applies, 1 leave type of 2 days, requests of 1 or 2 days, 2 requests between resets, 1 reset, 2 cubicles |
| `ItServer` | 2 people, an asset of which 2 are in stock, one outside the catalogue |
| `KeyCache` | 2 validations, 2 keys, both kinds of cache, time to live, transit and leeway 1, clock to 3 |
| `ActorToken` | 3 callers, cap 2, buffer 1, life 5, answers that take up to 1, 2 login steps, clock to 4 |
| `ConsentScreen` | 1 tab, 2 jobs of 1 call, 2 streams |
| `ToolPath` | an employee and an administrator, 2 messages of up to 2 cues, every subset of the details |

The seven share no state and no step, so checking them side by side is checking
each alone: `subject` names the one that moves, the others stay as they start, and
the state space is the sum of the seven, not their product. `ServicesTypeOK` and
the symmetry are those of the moving component.

### The bounds, and why they suffice

- Two cascades of one user are enough for one to hold the lock and one to wait;
  two sessions for one to be torn down while the other is fenced and waits its
  turn; two chats for one session's reason, and for one chat to log a token
  while another's consent is pending. One call per chat: calls of a chat are
  serial, and what a second call adds (it starts after the fence) a second chat
  accepted before the fence adds too. In both runs of the cascade one consent is
  cancelled at most, and where one is, one logout is asked for (`Focus`): a cancel
  and a second logout meet only through the state of the consent, in which a poll
  that times out, or is refused, leaves the same. What `Focus` forbids are actions of users;
  nothing that fairness is about.
- A cap of 1 with two users makes every second reason evict the first one; the same
  user's overwrites it.
- Two receivers, of which one is the agent, tell "a leg has ended" from "all
  legs have ended".
- Three requests of one key: one serving from the cache, one consent that fills
  it and one that replaces it. Two users are enough for a token to reach the
  wrong one.
- A cap of 1 with two login states (and two logout tokens) evicts; a TTL and a
  tolerance of 1 with a clock of 0..2 give "just inside", "at the edge" and
  "past it". The skew of 30 s is 0 ticks in the run, and logout tokens are still
  sent from one tick ahead, which is refused. A state with more than two logouts
  and deliveries under way is checked and not explored further (`FewCascades`): two
  cascades already contend for the lock, and two tokens, or one delivered twice,
  for the record.
- A denylist of 2 with three tokens evicts and makes recency visible; a limit of
  2 with seven posts refuses; three ticks separate a post from the far edge of
  its window. One restart: a second one finds what the first left. Of restarts,
  stray posts and legs that need their second attempt a behaviour has two at most
  (`FewFaults`), which is every pair of them.
- Two requests that are covered one by one and not together are what balances need;
  one reset makes numbers come again. Two people are enough to find another's
  cubicle or asset, and two cubicles for one employee to hold both.
- With two validations one fetch overtakes another; a clock to 3 lets a key be
  retired, the time to live run out and a late answer land.
- Three callers: one mints, one waits, one takes the fast path. A life of 5 in a
  clock to 4 means that only the cap ends a token.
- Two jobs share the card; two streams are one that ended and one that followed
  it. One tab: a second tab would be a second stream whose events are astray for
  the first, which a dropped stream already brings about.
- Two messages: the second finds what the first has cached. Two cues in one message
  make rules of one agent compete, and rules of two agents go together.
- The clock and the restarts are bounded by guards (`MaxTime`, `MaxRestarts`),
  the calls of a chat by `MaxCalls`. The theorems hold for every bound.

Symmetry is used in safety runs only, and no definition chooses (`CHOOSE`) between
values that it exchanges, but for a mutant. `CHECK_DEADLOCK FALSE` everywhere: the pools of
requests, sessions and cascades are finite, and once they are used up the system
rests.

Each property has, in `PROJECT.json`, a plausible fault of the code that makes
its run fail: a dropped guard, a missing reset, an early return, a swapped
order. The faulty definition stands before the right one in the module, with a
comment that says so.

## 5. Fairness

- `SessionCascade`: weak fairness for each chat's task and each cascade. Every
  await of either is bounded: the LLM client, A2A requests, the revocation and
  every leg have timeouts, the barrier waits 100 ms. Nothing the user or the
  agent does is fair: a consent may be left open for ever and a chat is answered
  all the same. For two cascades of one user, weak fairness is enough because
  the one that waits stays enabled once the other is done.
- `AgentDispatcher`: weak fairness for each consent's task and each await handler,
  and strong fairness for `PollStops`. The loop alternates between sleeping and
  a request, so its deadline is enabled again and again but not continuously;
  the code tests the deadline on every round, and time passes.
- `SignIn`: weak fairness for exchanges, validations, deletions and ends of
  cascades; strong fairness for `CascadeStarts`, because the user's lock is an
  asyncio lock with a first-in, first-out queue, and other cascades of the user may
  take and release it in between.

`fairness` checks the last two in one run: they share no state and no step, `subject`
names the one that moves, and the other stays as it starts. What never starts has
nothing fair that it could do, so the fairness of both can be asked for at once.

A chat's task is created without a reference being kept, and the event loop
holds tasks weakly. The fairness of chats assumes that it is not collected.

## 6. What is proved

Assumptions: those named `ASSUME` in the modules (the constants have their
types, `None` is new, caps are positive), nothing else. Each main theorem follows
the same line: an inductive invariant `IInv`, `Init => IInv`,
`IInv /\ [Next]_vars => IInv'` with one lemma per group of actions, then PTL.

| Module | Theorem | Property |
|---|---|---|
| `SessionCascade_proofs` | `TypeCorrect` | `TypeOK` |
| | `FencedSessionsAreRemoved` | `NoSessionStuckFenced` |
| | `OneTeardown` | `TornDownOnce` |
| | `RemovalIsLast` | `RemovalComesLast` |
| | `BarrierSeesAwaits` | `PendingIsAwaited` |
| | `RevokedLeavesCache` | `RevokedNotCached` |
| | `SignOutIsPersonal` | `OnlyOwnSessions` |
| | `ReasonsAreToldOnce` | `ReasonToldOnce` |
| | `Implements` | `ImplementsSignOut` |
| | `ImplementsConsents` | `ImplementsConsentTask` |
| | `ChatsAreAnsweredOnce` | `OneReply`, `ChatsMoveOn` |
| | `LogoutsMoveOn` | `NoCascadeHangs`, `CascadesMoveOn` |
| `AgentDispatcher_proofs` | `TypeCorrect` | `TypeOK` |
| | `KeysAreIsolated` | `KeyIsolation` |
| | `RevokedStaysOut` | `RevokedNotServed` |
| | `RefusalsAreTrue` | `RefusedMeansNoToken` |
| | `QuietCancelsHold` | `QuietCancelMintsNothing` |
| | `Implements` | `ImplementsRevocableCache` |
| | `ImplementsConsents` | `ImplementsConsentTask` |
| | `AwaitsAreServed` | `NoAwaitHangs`, `AnswersAreFinal` |
| `SignIn_proofs` | `StateUsedOnce` | `OneExchangePerState` |
| | `SignInsStayOpen` | `SignInStaysOpen` |
| | `OneCascadePerToken` | `RunsOnce` |
| | `RecordsStayCapped` | `TypeOK`, with the caps |
| | `FencesAreLifted` | `NoFenceLeft`, `CascadesMoveOn` |
| `Denylist_proofs` | `AcknowledgedIsRefused` | `AckedIsRefused` |
| | `RateIsBounded` | `RateBound` |
| | `RecentOnesStay` | `RecentStay` |
| | `ReceiverStaysCapped` | `TypeOK`, with the caps |
| `ResourceServers_proofs` | `BalancesHold` | `BalancesAddUp` |
| | `DecisionsStand` | `AnswersStand` |
| | `CubiclesAreFound` | `CubicleFound` |
| | `StockIsKept` | `StockAddsUp` |
| | `AssetsAreFound` | `AssetsFound` |
| | `HrTypeCorrect`, `ItTypeCorrect` | types of the two stores |
| | `PublishedKeysAreFound` | `PublishedKeyFound` |
| | `TrustIsBounded` | `TrustEnds` |
| | `OneMintAtATime` | `SingleFlight` |
| | `DeactivationIsBounded` | `DeactivationLag` |
| | `ConsentsFit` | `ConsentFitsCall` |
| | `KcTypeCorrect`, `AtTypeCorrect`, `TpTypeCorrect` | types of the caches and of calls |
| `ConsentScreen_proofs` | `ScreenStaysUsable` | `ScreenUsable` |
| `Services_proofs` | `ServicesTypeCorrect` | `ServicesTypeOK` |
| | `ServicesAreComponents` | `MCServices` is its seven components |

`Inductive` of each module, and `HrInductive`, `ItInductive`, `KcInductive`,
`AtInductive`, `TpInductive` and `CsInductive`, are the invariants themselves.

`ImplementsConsentTask` is stated in both models and proved of both; no run lists it.

**Progress.** Liveness under fairness is left to TLC, but what it rests on is proved.
Fairness only ever takes a chat, a cascade or an await to its next step. That those
steps lead to the end, for any number of them, is a matter of safety: nobody waits
for something that cannot come, each step is one nearer to the end, and nobody
else's step leads back.

- A chat: `Left` counts its steps, three for each tool call it still has, and every
  step of its own lowers it (`ChatsMoveOn`); the reply comes in the last step and in
  no other (`OneReply`).
- A cascade: it waits behind one that works, never behind one that is done
  (`NoCascadeHangs`, from `LockInv` and `RecordInv`), and each of its steps leaves
  fewer sessions, records of the current session, or legs of the current record
  (`Nearer`). What a chat logs meanwhile, and a login of the same user, do not count:
  the lists were read when the session was begun and at the fence. (They are finite:
  a step adds one session to the store, or one record to a log, at most.)
- An await: its entry and a task that can complete it are there as long as it is
  open, and a restart that loses the task ends the await with it (`NoAwaitHangs`);
  what was answered, and what a task wrote last, stays (`AnswersAreFinal`).
- A cascade as `SignIn` sees it: every fenced session has the running cascade of its
  user, of which there is one at most (`NoFenceLeft`), and that one is given no more
  sessions while it runs (`CascadesMoveOn`).

TLC finds these to hold on the instances of the safety runs too. No run lists them:
the liveness runs check what they are for.

**SessionCascade.** None of the three safety properties is inductive. That a
session is torn down once needs that cascades exclude each other (`LockInv`: a
working cascade holds its user's lock and the lock names a working cascade) and
that what a cascade has before it is stored, fenced, its own user's and without
the current session in the rest (`WalkInv`). That removal comes last needs that
every owed token is either fanned out or in the list the cascade still holds
(`RecordInv`), which is not a fact about the session's log: the log may have
grown since it was read. Four properties come on top of `IInv`, each with one
invariant of its own: `AwaitInv` (a pending entry is the call that its chat stands
at, and what is acknowledged is behind it), `TokenInv` (what is logged, cached or
denied is a finished consent, of a chat on the session that logged it, and what
is denied is of a fenced session), `FenceInv` (a fence has a cascade of its owner
that got the lock) and `ReasonInv` (who has sessions no more has a reason waiting, or at
least `ReasonCap` others in `later`: who is evicted had all others waiting in `later`,
`ReasonCap` of them with the newcomer, and the set only grows). They share the facts of `Steady`: what is
finished, fenced or owned stays so. The refinement maps a session to `unused`, `open`,
`ending` or `closed`; the end of one teardown and the beginning of the next is a
single step of the code and maps to `Close`.

**AgentDispatcher.** That a revoked token never comes back rests on two facts:
every cached token is indexed under the key it is cached for (`CacheIsIndexed`),
and only a finished consent has been reported, so that only a finished one can
be revoked, and a finished one does not write the cache again (`OnlyFinished`).
The converse of the first is false, see section 8, and the proof does without.
Refusals are true because outcomes are final and only the sleeping or posting
task, which has no token, refuses (`OutcomeInv`). A cancel that arrived between two
polls holds for good, though a restart forgets it: the invariant is that the
consent is cancelled and sleeping, or over without a token (`Quiet`). The refinement
of `ConsentTask` needs of `IInv` only that a request that is not answered
`consent_required` has no task.

**SignIn.** `RunsOnce` rests on `TokenInv`: a token whose cascade was asked for is
on record, or was evicted, or is too old to be accepted at the present time. A
lookup at a later time than the one the validation went by breaks the chain, and
is the exception `late` in the property. The caps are `CapInv`: both records are
lines and within their caps.

**Denylist.** `AckedIsRefused` rests on `DenyInv`: whatever post was answered with
2xx left its jti on the list, until it expired or was lost. `RateBound` needs
`RateInv`: the bucket still holds every post the current window may hold, so
what was pruned cannot count in any window that a later post is in. `RecentStay`
compares the list with a record of all that was ever added: until a restart the
list has that record's order, so that the one evicted has all others on the list,
`Cap` of them, after it, and they stay after it (`RecentInv`).

**OrderedDict_proofs.** What `Keep`, `Push`, `MakeRoom` and `MoveToEnd` return, that
each keeps a record a line (`Line`: the order is total, strict and of the keys),
and that `MakeRoom` before `Push` keeps it within the cap (`WithinCap`). For the
latter a non-empty record must have an oldest key to evict. That follows without
induction: the strict subset order on the subsets of a finite set is
well-founded, so among the sets of keys before a key one is minimal, and the key
it belongs to has none before it.

**ResourceServers.** Both stores fall into parts that few actions touch (people;
requests; rows or assets), so each action is first reduced to what it does to each
part. Who has been met by a REST call is known by name (`MetInv`, `GreetedInv`), and
a row or an asset names a person rightly or by the username only (`RowInv`), which
is all that finding one's own takes. A decision that was told stands because only a
pending request is decided and a reset clears both.

Balances are days: what a kind of leave has cost is the number of elements of a set
of days, `days` for each approved request (`DaysTaken`), so that approving one adds
just as many to a finite set as it takes from the balance (`DaysInv`); the bound
below, that a balance is never negative, is the check at the decision, not the one
at the request.

**KeyCache and ActorToken.** `KeyCache`: an answer on its way is at most `Transit` old
and has every key that was live since its validation began (`AnswerInv`); the cached
set was read at most `Transit` before it landed (`CacheInv`), however many fetches
overtake each other. `ActorToken`: who mints holds the lock, and has found no token to
share since it took it (`LockInv`, `NeededInv`); a token was issued before the agent
was deactivated and is cached for the cap at most (`AgeInv`).

**ToolPath.** For each of the fourteen tools the tables fit (`EveryToolFits`, one
step per tool): the method takes what it is passed, the scope asked for is the
endpoint's, and what the endpoint demands is required by the agent or filled in,
two tools apart. A call that the agent let through has what the agent requires
(`UnderwayInv`), whoever planned it, so it is refused for those two tools at most.
That a message with one cue gets the tool of that cue follows rule by rule.

**Services.** Whoever moves, each of the seven components takes a step of its own or
none, so that a behaviour of `MCServices` is one of each component and every
component's theorems hold of it.

**ConsentScreen.** `ScreenUsable` speaks of a system at rest, so the invariant says what
a tab that is not free is still owed: a tab that is locked has a job under way, or
the answer of one in the queue (`Expecting`); a card that asks has a job that
awaits a consent, or the state change of one in the queue (`Asking`). That is
inductive only with `QueueInv`: a card in the queue is followed there by what ends it
and by the answer of its job, or its job is not that far. Without it the page
could render a card whose end it has already seen. An event of another tab, or
one that a dead stream took, breaks the chain, which is the exception `astray`.

## 7. What is only model-checked

- Liveness: `ChatAnswered`, `LogoutEndsSessions`, `ConsentEnds`, `AwaitAnswered` and
  `NamedSessionsEnd`. TLAPS has no support for fairness and `ENABLED` here; what they
  rest on is proved, see Progress in section 6. All other properties of the passing
  runs are theorems.
- `DeclinedDoesNotRun`, `UnwatchedCancelled`, `RevokedStaysRefused`, `NoTokenSurvives`,
  `IndexMatchesCache` and `SidIndexLive` are false (section 8).

No module declares a recursive operator of its own.

## 8. Where code and documents disagree

Six runs find a property violated that a document, a comment or the program's own
message states. None is needed by another property.

- **A token minted behind the barrier** (`late_token`, `NoTokenSurvives`). The
  comments at `orchestrator/auth/logout_handler.py:354` and
  `orchestrator/chat/routes.py:522` say that after the cancel barrier no token-B is
  minted. The barrier sets an event that nobody reads and gives up after 100 ms;
  the agent polls on, and a consent approved during the teardown yields a token
  that is cached and never revoked. The fence at `chat/routes.py:934` is looked at
  on entry only.
- **The jti index** (`jti_index`, `IndexMatchesCache`).
  `hr_agent/ciba/orchestrator.py:340` says it is updated alongside the cache. A
  token that is overwritten or popped leaves its entry, which then names a key
  with another token or none: a later revocation of the old token drops the new one.
- **The sid index** (`sid_index`, `SidIndexLive`).
  `orchestrator/auth/session_store.py:242` says entries are evicted on session
  delete; nothing evicts them.
- **The leeway** (`denylist_leeway`, `RevokedStaysRefused`). `README.md:174` says a
  revoked token is refused. The sweep forgets it at its exp, and validators accept
  it for 30 s more. `AckedIsRefused` shows that this, an eviction and a restart are
  the only ways.
- **An unwatched consent** (`unwatched`, `UnwatchedCancelled`). `orchestrator/main.py:550`
  says that on a disconnect the session's consents are cancelled, and
  `orchestrator/events/sse_router.py:186` that the hook can complete. It runs in the
  `finally` block of a generator whose task was cancelled together with its cancel
  scope, so its first await raises `CancelledError` again. Neither
  `except Exception` (`main.py:571`, `sse_router.py:198`) catches that, and no agent is
  told. The agent polls until its budget is used up.
- **A declined consent** (`declined_runs`, `DeclinedDoesNotRun`). The page says "the
  agent will not run for this request" (`client/app.js:77`), and
  `docs/use-cases/UC-04-user-denies-consent.md:29` has it send the auth_req_id. The
  event that brings the card has no such id, the page sends the id of the request,
  and `/api/ciba/cancel` finds nothing. If the user had already opened the approval
  page and approves there, the call is made.

## 9. Known limits of the code that are no violation

The code does these things and, where nothing else is said, does not claim the
contrary. No run is about them; a reader should know them.

- A pending consent at an agent is removed by the await that answers it. When the
  answer to `message/send` is lost, nobody awaits, and the entry stays until the
  agent restarts (`common/a2a/server.py:489`).
- A logout token may overtake the exchange of the sign-in it is about. It is then
  recorded as seen and answered, finds no session, and its retry is a duplicate;
  the session created a moment later outlives the logout at IS
  (`orchestrator/auth/routes.py:497`).
- A logout token that is validated over a slow key fetch near the end of its
  window can be accepted after the sweep has forgotten it, and starts a second
  cascade (`late` in `SignIn`).
- A consent whose tool call fails after its token was issued leaves a token that
  is in no cache and no log.
- After a restart of the orchestrator, tokens minted before it are in no session's
  log. After a restart of a receiver its denylist is empty. Both are the price of
  keeping state in memory.
- The REST interface of the HR server does not consult the denylist; the MCP
  interface does. `Honoured` is the latter.
- Two HR tools, `hr.cubicle_assign` and `hr.cubicle_list_floor`, are asked consent for
  with arguments that the server must turn away (422), because `_REQUIRED_ARGS`
  does not list what they need (`hr_agent/ciba/orchestrator.py:80`).
  `ConsentFitsCall` names them as its exceptions. The comment above the list
  (lines 76-79) says otherwise: tools that are not listed "accept empty args", and
  write-tier tools, of which `hr.cubicle_assign` is one, "name what they need to fail
  clearly".
- The text of an approve or reject consent is looked up in the agent's own, empty,
  copy of the HR store, so it never shows the request.
- `onApproveClick` is defined twice in `client/app.js` (680 and 1625). The second
  replaces the first, so the approve button of the reports view opens the page of
  whatever card is shown instead of sending the decision. `Approve` is what it does.
- The two fan-outs of a session share one card. A card that is replaced leaves its
  countdown running, which may expire the next card early; the state change of one
  job ends the card of another (`RunOut`, `OnState`). No tab stays locked
  (`ScreenUsable`), and the user can ask again.
- The disconnect hook, if it could run to its end, would cancel all consents of the
  session, also one that another tab, or the same page after it connected anew, is
  showing (`Abandoned`). A stream that is cancelled while it hands over an event, not
  while it waits for one, leaves its generator to be finalised by the event loop in
  another task; this is not modelled.
- An employee may be assigned two cubicles. `get_my_cubicle` returns the first row that
  matches the sub or the name; its docstring has "sub then username", but each row
  is tried with both (`hr_server/service/hr_service.py:374`).
- `/a2a/cancel` answers without the JSON-RPC envelope that the client's `cancel`
  parses (`common/a2a/server.py:506`, `common/a2a/client.py:307`). The agent is told
  all the same; the caller logs an error.
- After `POST /reset` of the HR server leave requests are numbered from 1 again: a
  decision that was on its way finds another request under the same number.
- The MCP door registers callers by sub only. An employee whom no REST call has met
  since the start (or the reset) does not find a cubicle or assets issued to the
  username; the sidebar's REST calls repair that. This is the condition `s \in met`
  of `CubicleFound` and `greeted` of `AssetsFound`.

## 10. What is not modelled

Listed with reasons under `components` in `PROJECT.json`. In short: wiring,
configuration, logging, prompts, formats and value types have no behaviour over
time; public chat and the report proxy keep no state; signature, audience and
issuer checks are functions of one token and appear as one accept-or-refuse choice.
Of the browser client, sign-in pages, sidebar panels and rendering are left out;
of the actor token `force_refresh` and `invalidate`, which have no caller. Scripts,
capability tests and documents are not part of the running system.
`prune_expired` and `sweep_pending_logout_reasons` of the session store have no
caller in the running program. Exceptions other than those the code names are
not raised by the models. IS is external: it answers, refuses or times out,
approves a consent at any time, sends logout tokens at any time, adds and retires
keys, and refuses a deactivated agent.

## 11. Running the checks

    tlc -workers 2 -config MCSessionCascade_safety.cfg MCSessionCascade
    tlapm SessionCascade_proofs.tla

and likewise for the other configurations and proof modules. The longest runs,
`services_safety` (1.2 million states) and `signin_safety`, take one to one and a half
minutes on two workers.
