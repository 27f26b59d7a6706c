--------------------------- MODULE SessionCascade ---------------------------
(***************************************************************************)
(* The orchestrator's sessions under concurrent sign-in, chat and logout.  *)
(*                                                                         *)
(* Four kinds of coroutine share the Session objects of the store:         *)
(*   - POST /auth/exchange creates a session (orchestrator/auth/routes.py);*)
(*   - POST /api/chat and the report actions spawn a serial tool fan-out   *)
(*     (orchestrator/chat/routes.py, orchestrator/reports/routes.py);      *)
(*   - POST /api/ciba/cancel cancels a pending consent                     *)
(*     (orchestrator/chat/routes.py); a broken event stream does not, see  *)
(*     ConsentScreen;                                                      *)
(*   - the logout cascade tears down every session of a user               *)
(*     (orchestrator/auth/logout_handler.py).                              *)
(* The fifth actor is the specialist agent, which polls the identity       *)
(* server for the OBO token of a consent and then caches that token        *)
(* (hr_agent, it_agent, common/auth/ciba_client.py).                       *)
(*                                                                         *)
(* All five run on event loops: a step here is what runs between two       *)
(* awaits that can suspend.  A Session object outlives its entry in the    *)
(* store, because a running fan-out keeps a reference to it.               *)
(***************************************************************************)
EXTENDS Naturals, FiniteSets

CONSTANTS
  Users,      \* values of user_sub
  Sids,       \* pool of session ids; each names at most one login
  Chats,      \* accepted POST /api/chat and report requests
  Cascades,   \* logout cascades (UC-09 and UC-10)
  Receivers,  \* targets of the revocation fan-out
  Agent,      \* the receiver that caches OBO tokens
  MaxCalls,   \* bound on the tool calls of one chat
  ReasonCap,  \* _PENDING_LOGOUT_REASONS_HARD_CAP
  None        \* Python's None

ASSUME ConstantsOK ==
  /\ Agent \in Receivers
  /\ MaxCalls \in Nat
  /\ ReasonCap \in Nat \ {0}
  /\ None \notin Users \cup Sids \cup Chats \cup Cascades

Reasons == {"user_signed_out", "admin_terminated"}
ASSUME NoneIsNoReason == None \notin Reasons

\* One consent: the i-th tool call (counted down) of chat c.  It stands for the
\* auth_req_id of the consent and for the jti of the token the consent yields.
Flows == Chats \X (1..MaxCalls)
ASSUME NoneIsNoFlow == None \notin Flows

VARIABLES
  owner,         \* Session.user_sub; None while the id is unused
  store,         \* keys of SessionStore._sessions
  terminating,   \* sessions whose terminating flag is set
  pendingCiba,   \* Session.pending_ciba
  acked,         \* pending entries whose cancelled_ack is set
  completedLog,  \* Session.completed_ciba_log
  lastReason,    \* Session.last_logout_reason
  terminated,    \* number of SessionTerminatedEvents pushed per session
  pendingReason, \* SessionStore._pending_logout_reasons
  later,         \* whose reasons were recorded after a user's last: its order
  chatPc, chatSess, calls, \* a chat: where it is, its session, calls left
  replies,       \* number of ChatMessageEvents a chat has published
  reasonSends,   \* number of messages that carried a session's logout reason
  flow,          \* the agent's background task of a consent
  agentCancel,   \* A2APendingState.cancel_event of a consent
  cancelCalls,   \* A2A cancel requests in flight
  held,          \* tokens in the agent's OBO cache
  lock,          \* SessionStore._user_locks: holder, or None
  casPc, casUser, casReason, \* a cascade: where it is, whose, why
  cur, todo,     \* the session it is tearing down, and those after it
  log, rec, legs,\* records left to fan out, the current one, its open legs
  barrier,       \* pending_list the cancel barrier waits for
  owed,          \* history: a session's log when its sign-out began
  revokeTried,   \* sessions whose token-A was submitted for revocation
  fannedOut,     \* tokens for which fan_out has returned
  denied         \* denylist of each receiver

sessVars  == <<owner, store, terminating, lastReason, terminated, pendingReason, later>>
cibaVars  == <<pendingCiba, acked, completedLog>>
chatVars  == <<chatPc, chatSess, calls, replies, reasonSends>>
agentVars == <<flow, agentCancel, cancelCalls, held>>
walkVars  == <<casPc, cur, todo, log, rec, legs, barrier, lock>>
revVars   == <<casUser, casReason, owed, revokeTried, fannedOut, denied>>
casVars   == <<walkVars, revVars>>
vars      == <<sessVars, cibaVars, chatVars, agentVars, casVars>>

ChatPcs == {"idle", "routing", "ready", "sending", "awaiting", "composing", "done"}
FlowPcs == {"none", "sleeping", "posting", "minted", "result", "error"}
CasPcs  == {"idle", "waiting", "barrier", "revoke", "fanout", "done"}

SessTypeOK ==
  /\ owner \in [Sids -> Users \cup {None}]
  /\ store \subseteq Sids
  /\ terminating \subseteq Sids
  /\ lastReason \in [Sids -> Reasons \cup {None}]
  /\ terminated \in [Sids -> Nat]
  /\ pendingReason \in [Users -> Reasons \cup {None}]
  /\ later \in [Users -> SUBSET Users]

CibaTypeOK ==
  /\ pendingCiba \in [Sids -> SUBSET Flows]
  /\ acked \subseteq Flows
  /\ completedLog \in [Sids -> SUBSET Flows]

ChatTypeOK ==
  /\ chatPc \in [Chats -> ChatPcs]
  /\ chatSess \in [Chats -> Sids \cup {None}]
  /\ calls \in [Chats -> 0..MaxCalls]
  /\ replies \in [Chats -> Nat]
  /\ reasonSends \in [Sids -> Nat]

AgentTypeOK ==
  /\ flow \in [Flows -> FlowPcs]
  /\ agentCancel \subseteq Flows
  /\ cancelCalls \subseteq Flows
  /\ held \subseteq Flows

WalkTypeOK ==
  /\ lock \in [Users -> Cascades \cup {None}]
  /\ casPc \in [Cascades -> CasPcs]
  /\ cur \in [Cascades -> Sids \cup {None}]
  /\ todo \in [Cascades -> SUBSET Sids]
  /\ log \in [Cascades -> SUBSET Flows]
  /\ rec \in [Cascades -> Flows \cup {None}]
  /\ legs \in [Cascades -> SUBSET Receivers]
  /\ barrier \in [Cascades -> SUBSET Flows]

RevokeTypeOK ==
  /\ casUser \in [Cascades -> Users \cup {None}]
  /\ casReason \in [Cascades -> Reasons \cup {None}]
  /\ owed \in [Sids -> SUBSET Flows]
  /\ revokeTried \subseteq Sids
  /\ fannedOut \subseteq Flows
  /\ denied \in [Receivers -> SUBSET Flows]

TypeOK ==
  /\ SessTypeOK /\ CibaTypeOK /\ ChatTypeOK
  /\ AgentTypeOK /\ WalkTypeOK /\ RevokeTypeOK

Init ==
  /\ owner = [s \in Sids |-> None]
  /\ store = {}
  /\ terminating = {}
  /\ pendingCiba = [s \in Sids |-> {}]
  /\ acked = {}
  /\ completedLog = [s \in Sids |-> {}]
  /\ lastReason = [s \in Sids |-> None]
  /\ terminated = [s \in Sids |-> 0]
  /\ pendingReason = [u \in Users |-> None]
  /\ later = [u \in Users |-> {}]
  /\ chatPc = [c \in Chats |-> "idle"]
  /\ chatSess = [c \in Chats |-> None]
  /\ calls = [c \in Chats |-> 0]
  /\ replies = [c \in Chats |-> 0]
  /\ reasonSends = [s \in Sids |-> 0]
  /\ flow = [f \in Flows |-> "none"]
  /\ agentCancel = {}
  /\ cancelCalls = {}
  /\ held = {}
  /\ lock = [u \in Users |-> None]
  /\ casPc = [k \in Cascades |-> "idle"]
  /\ casUser = [k \in Cascades |-> None]
  /\ casReason = [k \in Cascades |-> None]
  /\ cur = [k \in Cascades |-> None]
  /\ todo = [k \in Cascades |-> {}]
  /\ log = [k \in Cascades |-> {}]
  /\ rec = [k \in Cascades |-> None]
  /\ legs = [k \in Cascades |-> {}]
  /\ barrier = [k \in Cascades |-> {}]
  /\ owed = [s \in Sids |-> {}]
  /\ revokeTried = {}
  /\ fannedOut = {}
  /\ denied = [r \in Receivers |-> {}]

-----------------------------------------------------------------------------
(* Sign-in: POST /auth/exchange after the code exchange has returned.       *)

\* SessionStore.create
Create(u, s) ==
  /\ owner[s] = None
  /\ owner' = [owner EXCEPT ![s] = u]
  /\ store' = store \cup {s}

\* The session takes over the reason the last cascade left.
TakeReason(u, s) ==
  /\ lastReason' = [lastReason EXCEPT ![s] = pendingReason[u]]
  /\ pendingReason' = [pendingReason EXCEPT ![u] = None]
  /\ UNCHANGED later

Login(u, s) ==
  /\ Create(u, s)
  /\ TakeReason(u, s)
  /\ UNCHANGED <<terminating, terminated, cibaVars, chatVars, agentVars, casVars>>

-----------------------------------------------------------------------------
(* Chat: POST /api/chat, the report actions and _run_serial_fan_out.        *)

\* The guard both entry points share: the cookie resolves, no fence.
Accepts(s) == s \in store /\ s \notin terminating

\* post_chat up to the await of resolve_tool_calls.
PostChat(c, s) ==
  /\ chatPc[c] = "idle"
  /\ Accepts(s)
  /\ chatPc' = [chatPc EXCEPT ![c] = "routing"]
  /\ chatSess' = [chatSess EXCEPT ![c] = s]
  /\ UNCHANGED <<sessVars, cibaVars, calls, replies, reasonSends, agentVars, casVars>>

\* Mutant of Routed: an empty plan does not return early.
RoutedNoEarlyReturn(c, n) ==
  /\ chatPc[c] = "routing"
  /\ calls' = [calls EXCEPT ![c] = n]
  /\ chatPc' = [chatPc EXCEPT ![c] = "ready"]
  /\ UNCHANGED <<sessVars, cibaVars, chatSess, replies, reasonSends, agentVars, casVars>>

\* The router answers; the fence is not consulted again.  No tool call leads
\* straight to a reply.
Routed(c, n) ==
  /\ chatPc[c] = "routing"
  /\ calls' = [calls EXCEPT ![c] = n]
  /\ chatPc' = [chatPc EXCEPT ![c] = IF n = 0 THEN "composing" ELSE "ready"]
  /\ UNCHANGED <<sessVars, cibaVars, chatSess, replies, reasonSends, agentVars, casVars>>

\* approve_leave and reject_leave spawn the fan-out with one synthetic call.
PostReportAction(c, s) ==
  /\ chatPc[c] = "idle"
  /\ Accepts(s)
  /\ MaxCalls > 0
  /\ chatPc' = [chatPc EXCEPT ![c] = "ready"]
  /\ chatSess' = [chatSess EXCEPT ![c] = s]
  /\ calls' = [calls EXCEPT ![c] = 1]
  /\ UNCHANGED <<sessVars, cibaVars, replies, reasonSends, agentVars, casVars>>

CurrentFlow(c) == <<c, calls[c]>>

\* The end of one iteration of the tool loop.
NextCall(c) ==
  /\ calls' = [calls EXCEPT ![c] = @ - 1]
  /\ chatPc' = [chatPc EXCEPT ![c] = IF calls[c] = 1 THEN "composing" ELSE "ready"]

\* Mutant of StartCall: the logout reason is sent but not nulled.
StartCallKeepsReason(c) ==
  LET s == chatSess[c] IN
  /\ chatPc[c] = "ready"
  /\ chatPc' = [chatPc EXCEPT ![c] = "sending"]
  /\ reasonSends' = IF lastReason[s] = None THEN reasonSends
                    ELSE [reasonSends EXCEPT ![s] = @ + 1]
  /\ UNCHANGED <<sessVars, cibaVars, chatSess, calls, replies, agentVars, casVars>>

\* The iteration up to the await of message_send: the logout reason is taken
\* from the session and nulled.
StartCall(c) ==
  LET s == chatSess[c] IN
  /\ chatPc[c] = "ready"
  /\ chatPc' = [chatPc EXCEPT ![c] = "sending"]
  /\ reasonSends' = IF lastReason[s] = None THEN reasonSends
                    ELSE [reasonSends EXCEPT ![s] = @ + 1]
  /\ lastReason' = [lastReason EXCEPT ![s] = None]
  /\ UNCHANGED <<owner, store, terminating, terminated, pendingReason, later, cibaVars,
                 chatSess, calls, replies, agentVars, casVars>>

\* The agent is not registered: an error event and the next iteration.
SkipCall(c) ==
  /\ chatPc[c] = "ready"
  /\ NextCall(c)
  /\ UNCHANGED <<sessVars, cibaVars, chatSess, replies, reasonSends, agentVars, casVars>>

\* The call is over without a consent to wait for.
CallSettled(c) ==
  /\ chatPc[c] = "sending"
  /\ NextCall(c)
  /\ UNCHANGED <<sessVars, cibaVars, chatSess, replies, reasonSends, agentVars, casVars>>

\* message_send raises: an error envelope, no answer in time, no connection.
\* The agent may have started a flow all the same (its answer was lost).
SendRaises(c) == CallSettled(c)

\* message_send answers with an error or a cached token's result: no flow.
SendAnswers(c) == CallSettled(c) /\ flow[CurrentFlow(c)] = "none"

\* message_send answers consent_required: the pending entry is registered and
\* the await leg starts.
ConsentRequired(c) ==
  LET f == CurrentFlow(c) IN
  /\ chatPc[c] = "sending"
  /\ flow[f] # "none"
  /\ pendingCiba' = [pendingCiba EXCEPT ![chatSess[c]] = @ \cup {f}]
  /\ chatPc' = [chatPc EXCEPT ![c] = "awaiting"]
  /\ UNCHANGED <<sessVars, acked, completedLog, chatSess, calls, replies,
                 reasonSends, agentVars, casVars>>

\* Mutant of LeaveAwait: the pending entry is acknowledged but never removed.
LeaveAwaitKeepsEntry(c) ==
  /\ chatPc[c] = "awaiting"
  /\ acked' = acked \cup {CurrentFlow(c)}
  /\ NextCall(c)
  /\ UNCHANGED <<pendingCiba, sessVars, chatSess, replies, reasonSends, agentVars, casVars>>

\* The pending entry goes and its barrier is acknowledged on every exit of the
\* await leg.
LeaveAwait(c) ==
  /\ chatPc[c] = "awaiting"
  /\ acked' = acked \cup {CurrentFlow(c)}
  /\ pendingCiba' = [pendingCiba EXCEPT ![chatSess[c]] = @ \ {CurrentFlow(c)}]
  /\ NextCall(c)
  /\ UNCHANGED <<sessVars, chatSess, replies, reasonSends, agentVars, casVars>>

\* await_completion returns a result: the token's record joins the log of the
\* session, whether or not that session is still in the store.
AwaitResult(c) ==
  /\ LeaveAwait(c)
  /\ flow[CurrentFlow(c)] = "result"
  /\ completedLog' = [completedLog EXCEPT ![chatSess[c]] = @ \cup {CurrentFlow(c)}]

\* await_completion returns an error payload, or raises although the agent's
\* task still runs (network error, restart, the 330 s limit of /a2a/await).
AwaitError(c) ==
  /\ LeaveAwait(c)
  /\ UNCHANGED completedLog

\* Mutant of Reply: a chat whose session is gone publishes no reply.
ReplyOnlyIfStored(c) ==
  /\ chatPc[c] = "composing"
  /\ chatSess[c] \in store
  /\ chatPc' = [chatPc EXCEPT ![c] = "done"]
  /\ replies' = [replies EXCEPT ![c] = @ + 1]
  /\ UNCHANGED <<sessVars, cibaVars, chatSess, calls, reasonSends, agentVars, casVars>>

\* compose_reply has returned: the terminal ChatMessageEvent.
Reply(c) ==
  /\ chatPc[c] = "composing"
  /\ chatPc' = [chatPc EXCEPT ![c] = "done"]
  /\ replies' = [replies EXCEPT ![c] = @ + 1]
  /\ UNCHANGED <<sessVars, cibaVars, chatSess, calls, reasonSends, agentVars, casVars>>

-----------------------------------------------------------------------------
(* Cancelling a consent.  The local cancel_event and status these handlers   *)
(* also set are read by nobody, so they are not state here.                  *)

\* POST /api/ciba/cancel up to the await of the A2A cancel.
PostCancel(s, f) ==
  /\ Accepts(s)
  /\ f \in pendingCiba[s]
  /\ cancelCalls' = cancelCalls \cup {f}
  /\ UNCHANGED <<sessVars, cibaVars, chatVars, flow, agentCancel, held, casVars>>

\* The A2A cancel request reaches the agent, or fails and is only logged.
CancelArrives(f) ==
  /\ f \in cancelCalls
  /\ cancelCalls' = cancelCalls \ {f}
  /\ agentCancel' \in {agentCancel, agentCancel \cup {f}}
  /\ UNCHANGED <<sessVars, cibaVars, chatVars, flow, held, casVars>>

-----------------------------------------------------------------------------
(* The agent: dispatch, the poll loop, the tool call and the token cache.    *)

AgentStep(f, from, to) ==
  /\ flow[f] = from
  /\ flow' = [flow EXCEPT ![f] = to]
  /\ UNCHANGED <<sessVars, cibaVars, chatVars, agentCancel, cancelCalls, casVars>>

\* The dispatcher has no usable cached token: it initiates CIBA and starts the
\* background task.
Initiate(c) ==
  /\ chatPc[c] = "sending"
  /\ AgentStep(CurrentFlow(c), "none", "sleeping")
  /\ UNCHANGED held

\* The poll loop tests the cancel event only before a request.
PollSend(f) == f \notin agentCancel /\ AgentStep(f, "sleeping", "posting") /\ UNCHANGED held
PollCancelled(f) == f \in agentCancel /\ AgentStep(f, "sleeping", "error") /\ UNCHANGED held
PollDeadline(f) == AgentStep(f, "sleeping", "error") /\ UNCHANGED held
PollPending(f) == AgentStep(f, "posting", "sleeping") /\ UNCHANGED held
PollRefused(f) == AgentStep(f, "posting", "error") /\ UNCHANGED held
\* The user has approved: the identity server issues the token.
PollToken(f) == AgentStep(f, "posting", "minted") /\ UNCHANGED held
\* The tool call succeeds: the token is cached for the next call.
ToolDone(f) == AgentStep(f, "minted", "result") /\ held' = held \cup {f}
ToolFails(f) == AgentStep(f, "minted", "error") /\ UNCHANGED held

-----------------------------------------------------------------------------
(* The logout cascade.                                                       *)

\* Mutant of SessionsOf: the filter on user_sub is missing.
AllSessions(u) == store

SessionsOf(u) == {s \in store : owner[s] = u}

\* The handler waits for the user's lock.  (asyncio takes a free lock without
\* suspending; letting others run in between only adds behaviours.)
Queue(k, u, why) ==
  /\ casPc[k] = "idle"
  /\ casPc' = [casPc EXCEPT ![k] = "waiting"]
  /\ casUser' = [casUser EXCEPT ![k] = u]
  /\ casReason' = [casReason EXCEPT ![k] = why]
  /\ UNCHANGED <<sessVars, cibaVars, chatVars, agentVars, cur, todo, log, rec, legs,
                 barrier, lock, owed, revokeTried, fannedOut, denied>>

\* POST /auth/logout finds the session of the cookie (UC-09).
PostLogout(k, s) == s \in store /\ Queue(k, owner[s], "user_signed_out")

\* The back-channel logout receiver finds a session of the user (UC-10).
BackChannelLogout(k, u) == SessionsOf(u) # {} /\ Queue(k, u, "admin_terminated")

\* Mutant of LockFree: the cascade runs without the user's lock.
NoLock(k) == TRUE

\* get_user_lock: one cascade of a user at a time.
LockFree(k) == lock[casUser[k]] = None

\* Mutant of Release: the lock is never given back.
KeepLock(k) == UNCHANGED lock

Release(k) == lock' = [lock EXCEPT ![casUser[k]] = None]

\* Mutant of Fence: the sessions are not marked.
NoFence(S) ==
  /\ UNCHANGED terminating
  /\ owed' = [s \in Sids |-> IF s \in S THEN completedLog[s] ELSE owed[s]]

\* Every session of the user is marked before anything is torn down.
Fence(S) ==
  /\ terminating' = terminating \cup S
  /\ owed' = [s \in Sids |-> IF s \in S THEN completedLog[s] ELSE owed[s]]

\* Those who have a reason waiting, and who of them has waited longest.
Waiting == {u \in Users : pendingReason[u] # None}
LongestWaiting == {u \in Waiting : Waiting \ {u} \subseteq later[u]}

\* popitem(last=False), when a new entry finds no room; u's own entry is
\* overwritten and moves to the end.
Evicted(u) ==
  IF u \in Waiting \/ Cardinality(Waiting) < ReasonCap THEN {} ELSE LongestWaiting

\* Mutant of RecordReason: where there is no room, the new entry is dropped.
RecordIfRoom(u, why) ==
  /\ pendingReason' = IF Evicted(u) = {} THEN [pendingReason EXCEPT ![u] = why] ELSE pendingReason
  /\ later' = [v \in Users |-> IF v = u THEN {} ELSE later[v] \cup {u}]

\* record_pending_logout_reason
RecordReason(u, why) ==
  /\ pendingReason' = [v \in Users |->
       IF v = u THEN why ELSE IF v \in Evicted(u) THEN None ELSE pendingReason[v]]
  /\ later' = [v \in Users |-> IF v = u THEN {} ELSE later[v] \cup {u}]

\* Mutant of Enter: only the first session is torn down.
EnterFirstOnly(k, s, rest) ==
  /\ cur' = [cur EXCEPT ![k] = s]
  /\ todo' = [todo EXCEPT ![k] = {}]
  /\ log' = [log EXCEPT ![k] = completedLog[s]]
  /\ barrier' = [barrier EXCEPT ![k] = pendingCiba[s]]
  /\ casPc' = [casPc EXCEPT ![k] = IF pendingCiba[s] = {} THEN "revoke" ELSE "barrier"]

\* The teardown of session s up to its first await: what is pending and what is
\* logged are read before any cancellation, and the barrier is skipped when
\* nothing is pending.
Enter(k, s, rest) ==
  /\ cur' = [cur EXCEPT ![k] = s]
  /\ todo' = [todo EXCEPT ![k] = rest]
  /\ log' = [log EXCEPT ![k] = completedLog[s]]
  /\ barrier' = [barrier EXCEPT ![k] = pendingCiba[s]]
  /\ casPc' = [casPc EXCEPT ![k] = IF pendingCiba[s] = {} THEN "revoke" ELSE "barrier"]

\* The lock is obtained, sessions are left: all are fenced before anything else.
BeginCascade(k) ==
  LET mine == SessionsOf(casUser[k]) IN
  /\ casPc[k] = "waiting"
  /\ LockFree(k)
  /\ Fence(mine)
  /\ lock' = [lock EXCEPT ![casUser[k]] = k]
  /\ \E s \in mine : Enter(k, s, mine \ {s})
  /\ UNCHANGED <<owner, store, lastReason, terminated, pendingReason, later, cibaVars,
                 chatVars, agentVars, casUser, casReason, rec, legs, revokeTried,
                 fannedOut, denied>>

\* The lock is obtained, but another cascade has already removed the sessions.
CascadeAlreadyRun(k) ==
  /\ casPc[k] = "waiting"
  /\ LockFree(k)
  /\ SessionsOf(casUser[k]) = {}
  /\ casPc' = [casPc EXCEPT ![k] = "done"]
  /\ UNCHANGED <<sessVars, cibaVars, chatVars, agentVars, casUser, casReason, cur,
                 todo, log, rec, legs, barrier, lock, owed, revokeTried,
                 fannedOut, denied>>

LeaveBarrier(k) ==
  /\ casPc[k] = "barrier"
  /\ casPc' = [casPc EXCEPT ![k] = "revoke"]
  /\ barrier' = [barrier EXCEPT ![k] = {}]
  /\ UNCHANGED <<sessVars, cibaVars, chatVars, agentVars, casUser, casReason, cur,
                 todo, log, rec, legs, lock, owed, revokeTried, fannedOut, denied>>

\* Every pending flow has acknowledged, or 100 ms have passed.
BarrierAcked(k) == barrier[k] \subseteq acked /\ LeaveBarrier(k)
BarrierTimeout(k) == ~ (barrier[k] \subseteq acked) /\ LeaveBarrier(k)

\* SessionStore.delete
Remove(s) == store' = store \ {s}

\* The end of one session's teardown: the event, the reason, the removal; then
\* the next session, or the lock is released.
DropSession(k) ==
  LET s == cur[k] IN
  /\ terminated' = [terminated EXCEPT ![s] = @ + 1]
  /\ RecordReason(owner[s], casReason[k])
  /\ Remove(s)
  /\ rec' = [rec EXCEPT ![k] = None]
  /\ \/ /\ todo[k] = {}
        /\ casPc' = [casPc EXCEPT ![k] = "done"]
        /\ Release(k)
        /\ cur' = [cur EXCEPT ![k] = None]
        /\ log' = [log EXCEPT ![k] = {}]
        /\ UNCHANGED <<todo, barrier>>
     \/ /\ \E t \in todo[k] : Enter(k, t, todo[k] \ {t})
        /\ UNCHANGED lock

\* The fan-out of the next record starts all legs in parallel.
NextRecord(k, left) ==
  /\ left # {}
  /\ casPc' = [casPc EXCEPT ![k] = "fanout"]
  /\ \E f \in left : rec' = [rec EXCEPT ![k] = f]
  /\ log' = [log EXCEPT ![k] = left]
  /\ UNCHANGED <<store, terminated, pendingReason, later, lock, cur, todo, barrier>>

\* After a record, or after the revocation of token-A.
Proceed(k, left) ==
  \/ /\ NextRecord(k, left)
     /\ legs' = [legs EXCEPT ![k] = Receivers]
  \/ /\ left = {}
     /\ DropSession(k)
     /\ legs' = [legs EXCEPT ![k] = {}]

\* Mutant of RevokeTokenA: a RevokeError skips the fan-out as well.
RevokeErrorSkipsFanout(k) ==
  /\ casPc[k] = "revoke"
  /\ revokeTried' = revokeTried \cup {cur[k]}
  /\ Proceed(k, log[k]) \/ Proceed(k, {})
  /\ UNCHANGED <<owner, terminating, lastReason, cibaVars, chatVars, agentVars,
                 casUser, casReason, owed, fannedOut, denied>>

\* revoke_access_token returns or raises a RevokeError.
SubmitTokenA(s) == revokeTried' = revokeTried \cup {s}

\* /oauth2/revoke has answered; a RevokeError is logged and ignored.
RevokeTokenA(k) ==
  /\ casPc[k] = "revoke"
  /\ SubmitTokenA(cur[k])
  /\ Proceed(k, log[k])
  /\ UNCHANGED <<owner, terminating, lastReason, cibaVars, chatVars, agentVars,
                 casUser, casReason, owed, fannedOut, denied>>

\* Mutant of LegOutcome: the agent denies the token but keeps it cached.
LegKeepsCache(k, r) ==
  /\ denied' = [denied EXCEPT ![r] = @ \cup {rec[k]}]
  /\ UNCHANGED held

\* One leg ends after at most two attempts: the receiver has denied the token
\* (the agent has also dropped it from its cache), or the leg has failed.
LegOutcome(k, r) ==
  \/ /\ denied' = [denied EXCEPT ![r] = @ \cup {rec[k]}]
     /\ held' = IF r = Agent THEN held \ {rec[k]} ELSE held
  \/ UNCHANGED <<denied, held>>

LegEnds(k, r) ==
  /\ casPc[k] = "fanout"
  /\ r \in legs[k]
  /\ LegOutcome(k, r)
  /\ \/ /\ legs[k] # {r}
        /\ legs' = [legs EXCEPT ![k] = @ \ {r}]
        /\ UNCHANGED <<store, terminated, pendingReason, later, casPc, rec, log, lock,
                       cur, todo, barrier, fannedOut>>
     \/ /\ legs[k] = {r}
        /\ fannedOut' = fannedOut \cup {rec[k]}
        /\ Proceed(k, log[k] \ {rec[k]})
  /\ UNCHANGED <<owner, terminating, lastReason, cibaVars, chatVars, flow,
                 agentCancel, cancelCalls, casUser, casReason, owed, revokeTried>>

-----------------------------------------------------------------------------

ChatStep(c) ==
  \/ \E n \in 0..MaxCalls : Routed(c, n)
  \/ StartCall(c) \/ SkipCall(c) \/ SendRaises(c) \/ SendAnswers(c)
  \/ ConsentRequired(c) \/ AwaitResult(c) \/ AwaitError(c) \/ Reply(c)

AgentAction(f) ==
  \/ PollSend(f) \/ PollCancelled(f) \/ PollDeadline(f) \/ PollPending(f)
  \/ PollRefused(f) \/ PollToken(f) \/ ToolDone(f) \/ ToolFails(f)

CascadeStep(k) ==
  \/ BeginCascade(k) \/ CascadeAlreadyRun(k)
  \/ BarrierAcked(k) \/ BarrierTimeout(k) \/ RevokeTokenA(k)
  \/ \E r \in Receivers : LegEnds(k, r)

UserStep ==
  \/ \E u \in Users, s \in Sids : Login(u, s)
  \/ \E c \in Chats, s \in Sids : PostChat(c, s) \/ PostReportAction(c, s)
  \/ \E s \in Sids, f \in Flows : PostCancel(s, f)
  \/ \E k \in Cascades, s \in Sids : PostLogout(k, s)
  \/ \E k \in Cascades, u \in Users : BackChannelLogout(k, u)

Next ==
  \/ UserStep
  \/ \E c \in Chats : ChatStep(c) \/ Initiate(c)
  \/ \E f \in Flows : AgentAction(f) \/ CancelArrives(f)
  \/ \E k \in Cascades : CascadeStep(k)

Spec == Init /\ [][Next]_vars

-----------------------------------------------------------------------------
(* Safety.                                                                   *)

Closed(s) == owner[s] # None /\ s \notin store
Working(k) == casPc[k] \in {"barrier", "revoke", "fanout"}
AwaitedIn(s) == {CurrentFlow(c) : c \in {d \in Chats : chatPc[d] = "awaiting" /\ chatSess[d] = s}}

\* A fenced session is never left behind: while it is still in the store, the
\* cascade holding its owner's lock has it before it (logout_handler: every
\* session fenced at the start is also removed).
NoSessionStuckFenced ==
  \A s \in store \cap terminating :
    LET k == lock[owner[s]] IN k # None /\ s \in todo[k] \cup {cur[k]}

\* Two concurrent logouts of one user never tear down the same session twice,
\* and a session leaves the store only with its session_terminated event
\* (FIX-12, BLOCK-H): the event count is exactly the number of removals.
TornDownOnce ==
  \A s \in Sids : terminated[s] = IF Closed(s) THEN 1 ELSE 0

\* Removal is the last step of a teardown (BLOCK-H): token-A was submitted for
\* revocation and every token the session had logged when sign-out began has
\* been fanned out, even when the log was read only after the teardown of the
\* user's other sessions.
RemovalComesLast ==
  \A s \in Sids : Closed(s) => s \in revokeTried /\ owed[s] \subseteq fannedOut

\* The pending entries of a session are exactly the consents its fan-outs wait
\* for, and none of those is acknowledged: a barrier passed without a timeout
\* means that the await legs have ended (BLOCK-A).
PendingIsAwaited ==
  /\ \A s \in Sids : pendingCiba[s] = AwaitedIn(s)
  /\ \A s \in Sids : acked \cap pendingCiba[s] = {}

\* A logout reason is told once (FIX-17: a one-shot signal): it reaches at most
\* one agent call of a session, however many chats run on it; and a signed-out
\* user who returns is told: whenever a user who had sessions has none left, a
\* reason is waiting for the next sign-in, unless as many other users as the cap
\* allows for were signed out since.
ReasonToldOnce ==
  /\ \A s \in Sids : reasonSends[s] + (IF lastReason[s] = None THEN 0 ELSE 1) <= 1
  /\ \A u \in Users :
       SessionsOf(u) = {} /\ (\E s \in Sids : owner[s] = u) =>
         pendingReason[u] # None \/ Cardinality(later[u]) >= ReasonCap

\* A token the agent was told to revoke is not in its cache afterwards: the log
\* a fan-out reads never runs ahead of the cache write.
RevokedNotCached == denied[Agent] \cap held = {}

\* One user's sign-out never fences a session or revokes a token of another.
OnlyOwnSessions ==
  /\ \A s \in terminating :
       \E k \in Cascades : casUser[k] = owner[s] /\ casPc[k] \notin {"idle", "waiting"}
  /\ \A r \in Receivers : \A f \in denied[r] : chatSess[f[1]] \in terminating

\* What logout_handler.py:354, chat/routes.py:522 and chat/routes.py:934 promise:
\* the cancel barrier and the fence leave no token minted for a session in the
\* agent's cache after its teardown, unless its revocation was at least tried.
NoTokenSurvives ==
  \A f \in held : Closed(chatSess[f[1]]) => f \in fannedOut

-----------------------------------------------------------------------------
(* The inductive invariant behind NoSessionStuckFenced, TornDownOnce and       *)
(* RemovalComesLast.                                                           *)

ChatInv ==
  \A c \in Chats :
    /\ chatPc[c] # "idle" => chatSess[c] \in Sids /\ owner[chatSess[c]] # None
    /\ chatPc[c] \in {"ready", "sending", "awaiting"} => calls[c] \in 1..MaxCalls

StoreInv ==
  /\ \A s \in store \cup terminating : owner[s] # None
  /\ \A s \in Sids : Closed(s) => s \in terminating

LockInv ==
  /\ \A u \in Users : lock[u] # None => Working(lock[u]) /\ casUser[lock[u]] = u
  /\ \A k \in Cascades : Working(k) => lock[casUser[k]] = k

\* What a cascade has before it: sessions of its user, fenced and in the store.
Before(k) == todo[k] \cup {cur[k]}

WalkInv ==
  \A k \in Cascades :
    /\ casPc[k] # "idle" => casUser[k] \in Users /\ casReason[k] \in Reasons
    /\ Working(k) => /\ cur[k] \in Sids /\ cur[k] \notin todo[k]
                     /\ Before(k) \subseteq store \cap terminating
                     /\ \A s \in Before(k) : owner[s] = casUser[k]

RecordInv ==
  /\ \A s \in Sids : owed[s] \subseteq completedLog[s]
  /\ \A k \in Cascades :
       /\ Working(k) => /\ log[k] \subseteq completedLog[cur[k]]
                        /\ owed[cur[k]] \subseteq fannedOut \cup log[k]
       /\ casPc[k] = "fanout" => /\ rec[k] \in log[k] /\ legs[k] # {}
                                 /\ cur[k] \in revokeTried

CascadeInv ==
  /\ StoreInv /\ LockInv /\ WalkInv /\ RecordInv
  /\ NoSessionStuckFenced /\ TornDownOnce /\ RemovalComesLast

IInv == TypeOK /\ ChatInv /\ CascadeInv

-----------------------------------------------------------------------------
(* Refinement: what sign-out promises, see SignOut.                          *)

Phase(s) ==
  IF owner[s] = None THEN "unused"
  ELSE IF s \notin store THEN "closed"
  ELSE IF s \in terminating THEN "ending" ELSE "open"

Promise == INSTANCE SignOut WITH
  Sids <- Sids, Tokens <- Flows,
  phase <- [s \in Sids |-> Phase(s)], log <- completedLog, owed <- owed,
  attempted <- fannedOut, notices <- terminated

\* The cascade implements the abstract sign-out.
ImplementsSignOut == Promise!Spec

\* The agent seen from the orchestrator keeps the promise about consents that
\* AgentDispatcher, the agent itself, keeps too.
Consent == INSTANCE ConsentTask WITH
  Consents <- Flows, stage <- flow, stopped <- agentCancel, cached <- held

ImplementsConsentTask == Consent!Spec

-----------------------------------------------------------------------------
(* What liveness rests on: nobody waits in vain, and each step of a chat or a  *)
(* cascade takes it nearer to its end, whoever else moves.                     *)

\* The most steps a chat has left: three for a tool call, one for the reply.
Left(c) ==
  CASE chatPc[c] = "routing" -> 3 * MaxCalls + 2
    [] chatPc[c] = "ready" -> 3 * calls[c] + 1
    [] chatPc[c] = "sending" -> 3 * calls[c]
    [] chatPc[c] = "awaiting" -> 3 * calls[c] - 1
    [] chatPc[c] = "composing" -> 1
    [] OTHER -> 0

\* A chat publishes its reply in its last step and no other: a fan-out has at
\* most three steps per tool call, and no logout, cancel or agent adds to them.
OneReply == \A c \in Chats : replies[c] = IF chatPc[c] = "done" THEN 1 ELSE 0

ChatsMoveOn ==
  [][\A c \in Chats : chatPc[c] # "idle" =>
       \/ Left(c)' < Left(c)
       \/ UNCHANGED <<chatPc[c], calls[c]>>]_vars

Fewer(S, T) == S \subseteq T /\ S # T

\* One step nearer to the end: fewer sessions, records or legs to go.
Nearer(k) ==
  \/ casPc[k] = "waiting" /\ casPc'[k] \in {"barrier", "revoke", "done"}
  \/ Working(k) /\ casPc'[k] = "done" /\ lock'[casUser[k]] = None
  \/ Working(k) /\ Working(k)' /\ Fewer(todo'[k], todo[k])
  \/ /\ UNCHANGED <<cur[k], todo[k]>>
     /\ \/ casPc[k] = "barrier" /\ casPc'[k] = "revoke"
        \/ casPc[k] = "revoke" /\ casPc'[k] = "fanout"
        \/ casPc[k] = "fanout" /\ casPc'[k] = "fanout" /\ Fewer(log'[k], log[k])
        \/ UNCHANGED <<casPc[k], log[k], rec[k]>> /\ Fewer(legs'[k], legs[k])

\* A cascade that waits for the lock waits for one that works, and one that fans
\* out has legs that are open, of a record that is left.
NoCascadeHangs ==
  \A k \in Cascades :
    /\ casPc[k] = "waiting" => LockFree(k) \/ Working(lock[casUser[k]])
    /\ casPc[k] = "fanout" => legs[k] # {} /\ rec[k] \in log[k]

\* Logins, chats and other cascades never set a cascade back, and it leaves the
\* lock free when it ends.
CascadesMoveOn ==
  [][\A k \in Cascades : casPc[k] # "idle" =>
       \/ Nearer(k)
       \/ UNCHANGED <<casPc[k], casUser[k], cur[k], todo[k], log[k], rec[k], legs[k]>>]_vars

-----------------------------------------------------------------------------
(* Liveness.  Every await of the orchestrator is bounded by a timeout, so its *)
(* coroutines keep running; the user's steps and the agent's are not fair.    *)

Fairness ==
  /\ \A c \in Chats : WF_vars(ChatStep(c))
  /\ \A k \in Cascades : WF_vars(CascadeStep(k))

FairSpec == Spec /\ Fairness

\* Every accepted chat gets exactly one terminal reply, also when its session
\* is torn down or its agent never answers.
ChatAnswered ==
  \A c \in Chats : chatPc[c] # "idle" ~> [](chatPc[c] = "done" /\ replies[c] = 1)

\* A requested logout ends every session the user has at that moment, whatever
\* other cascades of the user are queued and whatever chats are running.
LogoutEndsSessions ==
  \A k \in Cascades, s \in Sids :
    casPc[k] = "waiting" /\ s \in SessionsOf(casUser[k]) ~> Closed(s) /\ casPc[k] = "done"

=============================================================================
