------------------------------- MODULE SignIn -------------------------------
(***************************************************************************)
(* How sessions come and go: GET /auth/login, the code exchange and its    *)
(* session (orchestrator/auth/routes.py), the sid index of the session     *)
(* store, and POST /backchannel-logout with its record of logout tokens    *)
(* already seen (orchestrator/auth/bcl_receiver.py).                       *)
(*                                                                         *)
(* Of the cascade this module keeps the lock, the fence and the removals;  *)
(* SessionCascade has the rest of it, tokens and logout reasons included.  *)
(* Time is in ticks of no fixed length.                                    *)
(***************************************************************************)
EXTENDS OrderedDict

CONSTANTS
  Users,
  States,      \* the login states GET /auth/login draws
  Requests,    \* POST /auth/exchange; a request also names the session it creates
  Sids,        \* the identity server's sessions
  Tokens,      \* logout tokens, by jti
  Deliveries,  \* POST /backchannel-logout
  None,
  SidUser,     \* whose session a sid is
  TokenSid,    \* the sid a logout token is about
  NamesSub,    \* logout tokens that name their user, not only the sid
  LoginCap, LoginTTL,     \* _PENDING_LOGINS_HARD_CAP, _PENDING_LOGINS_TTL_SECONDS
  SeenCap, Tolerance,     \* hard_cap, _IAT_TOLERANCE_SECONDS
  Skew,                   \* the 30 s an iat may lie ahead
  MaxTime                 \* bound of the clock

\* Who starts cascades: POST /auth/logout with a session's cookie, and deliveries.
Cascades == Requests \cup Deliveries

ASSUME SignInAssumption ==
  /\ SidUser \in [Sids -> Users]
  /\ TokenSid \in [Tokens -> Sids]
  /\ NamesSub \subseteq Tokens
  /\ {LoginCap, SeenCap} \subseteq Nat \ {0}
  /\ {LoginTTL, Tolerance, Skew, MaxTime} \subseteq Nat
  /\ Requests \cap Deliveries = {}
  /\ None \notin Users \cup States \cup Sids \cup Tokens \cup Nat

VARIABLES
  now,
  issued,      \* when a login state was drawn (created_at)
  logins,      \* pending_logins, oldest first
  crowded,     \* history: login states evicted at the cap
  session,     \* where an exchange request, and the session it creates, is
  popped,      \* the login state it popped
  user, sid,   \* the session's user_sub, and the sid of its id_token
  sidIndex,    \* _sid_to_user_sub
  iat,         \* a logout token's iat, once the identity server has sent it
  seen,        \* SeenLogoutTokens, oldest first
  phase,       \* where a logout or a delivery is
  target,      \* the user its cascade is for
  token,       \* a delivery's logout token
  started,     \* the now its validation goes by
  runs,        \* history: cascades asked for by a logout token
  evicted,     \* history: logout tokens evicted at the cap
  late         \* history: logout tokens looked up after their window had closed

loginVars == <<issued, logins, crowded>>
sessVars  == <<session, popped, user, sid, sidIndex>>
bclVars   == <<iat, seen, token, started, runs, evicted, late>>
vars      == <<now, loginVars, sessVars, phase, target, bclVars>>

Times == 0 .. MaxTime + Skew + 1

Typed ==
  /\ now \in 0 .. MaxTime
  /\ issued \in [States -> 0 .. MaxTime \cup {None}]
  /\ logins \in Ordered(States)
  /\ crowded \subseteq States
  /\ session \in [Requests -> {"idle", "waiting", "refused", "open", "fenced", "gone"}]
  /\ popped \in [Requests -> States \cup {None}]
  /\ user \in [Requests -> Users \cup {None}]
  /\ sid \in [Requests -> Sids \cup {None}]
  /\ sidIndex \in [Sids -> Users \cup {None}]
  /\ iat \in [Tokens -> Times \cup {None}]
  /\ seen \in Ordered(Tokens)
  /\ phase \in [Cascades -> {"idle", "validating", "queued", "running", "answered"}]
  /\ target \in [Cascades -> Users \cup {None}]
  /\ token \in [Deliveries -> Tokens \cup {None}]
  /\ started \in [Deliveries -> 0 .. MaxTime]
  /\ runs \in [Tokens -> Nat]
  /\ evicted \subseteq Tokens /\ late \subseteq Tokens

\* Neither record outgrows its cap.
TypeOK ==
  /\ Typed
  /\ Cardinality(logins.keys) <= LoginCap
  /\ Cardinality(seen.keys) <= SeenCap

Init ==
  /\ now = 0
  /\ issued = [s \in States |-> None] /\ logins = Empty /\ crowded = {}
  /\ session = [x \in Requests |-> "idle"]
  /\ popped = [x \in Requests |-> None]
  /\ user = [x \in Requests |-> None] /\ sid = [x \in Requests |-> None]
  /\ sidIndex = [i \in Sids |-> None]
  /\ phase = [c \in Cascades |-> "idle"]
  /\ target = [c \in Cascades |-> None]
  /\ iat = [t \in Tokens |-> None]
  /\ seen = Empty
  /\ token = [d \in Deliveries |-> None] /\ started = [d \in Deliveries |-> 0]
  /\ runs = [t \in Tokens |-> 0]
  /\ evicted = {} /\ late = {}

-----------------------------------------------------------------------------
(* Sign-in.                                                                  *)

\* Mutant of Fresh: the sweep drops a login state at its TTL.
FreshStrict == Keep(logins, {s \in logins.keys : issued[s] + LoginTTL > now})

\* The pending logins the inline sweep keeps.
Fresh == Keep(logins, {s \in logins.keys : issued[s] + LoginTTL >= now})

Login(s) ==
  LET kept == MakeRoom(Fresh, LoginCap) IN
  /\ issued[s] = None
  /\ issued' = [issued EXCEPT ![s] = now]
  /\ logins' = Push(kept, s)
  /\ crowded' = crowded \cup (Fresh.keys \ kept.keys)
  /\ UNCHANGED <<now, sessVars, phase, target, bclVars>>

\* Mutant of Take: the login state is looked up, and stays.
LookUp(s) == UNCHANGED logins

\* pending_logins.pop
Take(s) == logins' = Keep(logins, logins.keys \ {s})

\* The relay page, or a reload of it, posts a state; an unknown one is refused.
\* (The age of a known one is not looked at.)
Exchange(x, s) ==
  /\ session[x] = "idle"
  /\ issued[s] # None
  /\ \/ /\ s \in logins.keys
        /\ Take(s)
        /\ session' = [session EXCEPT ![x] = "waiting"]
        /\ popped' = [popped EXCEPT ![x] = s]
     \/ /\ s \notin logins.keys
        /\ session' = [session EXCEPT ![x] = "refused"]
        /\ UNCHANGED <<logins, popped>>
  /\ UNCHANGED <<now, issued, crowded, user, sid, sidIndex, phase, target, bclVars>>

\* No actor token, no token-A or an invalid one: 502, the login state is lost.
ExchangeFails(x) ==
  /\ session[x] = "waiting"
  /\ session' = [session EXCEPT ![x] = "refused"]
  /\ UNCHANGED <<now, loginVars, popped, user, sid, sidIndex, phase, target, bclVars>>

\* register_sid: a sid another user has is left to that user.
Register(i, u) ==
  sidIndex' = IF sidIndex[i] \in {None, u} THEN [sidIndex EXCEPT ![i] = u] ELSE sidIndex

\* The session is created; its id_token names the sid or does not.
ExchangeDone(x, u, i) ==
  /\ session[x] = "waiting"
  /\ i # None => SidUser[i] = u
  /\ session' = [session EXCEPT ![x] = "open"]
  /\ user' = [user EXCEPT ![x] = u]
  /\ sid' = [sid EXCEPT ![x] = i]
  /\ IF i = None THEN UNCHANGED sidIndex ELSE Register(i, u)
  /\ UNCHANGED <<now, loginVars, popped, phase, target, bclVars>>

-----------------------------------------------------------------------------
(* Back-channel logout.                                                      *)

\* The identity server ends a session and signs a logout token for it, by its
\* own clock.
Send(t, at) ==
  /\ iat[t] = None
  /\ iat' = [iat EXCEPT ![t] = at]
  /\ UNCHANGED <<now, loginVars, sessVars, phase, target, seen, token, started, runs,
                 evicted, late>>

\* A logout token arrives, for the first time or again.  Its validation goes by
\* the time at which it starts, and awaits the signing key.
Deliver(d, t) ==
  /\ phase[d] = "idle"
  /\ iat[t] # None
  /\ phase' = [phase EXCEPT ![d] = "validating"]
  /\ token' = [token EXCEPT ![d] = t]
  /\ started' = [started EXCEPT ![d] = now]
  /\ UNCHANGED <<now, loginVars, sessVars, target, iat, seen, runs, evicted, late>>

\* The iat is within the window, as seen from time n.
Acceptable(t, n) == iat[t] <= n + Skew /\ n <= iat[t] + Tolerance

\* 400: no key, a failed check, or an iat outside the window.
Reject(d) ==
  /\ phase[d] = "validating"
  /\ phase' = [phase EXCEPT ![d] = "answered"]
  /\ UNCHANGED <<now, loginVars, sessVars, target, bclVars>>

Seen(t) == t \in seen.keys

\* SeenLogoutTokens.add of a new jti.
Remember(t) ==
  LET kept == MakeRoom(seen, SeenCap) IN
  /\ seen' = Push(kept, t)
  /\ evicted' = evicted \cup (seen.keys \ kept.keys)

\* The user a logout token names, by sub or by the sid index.
NamedUser(t) == IF t \in NamesSub THEN SidUser[TokenSid[t]] ELSE sidIndex[TokenSid[t]]

Stored(x) == session[x] \in {"open", "fenced"}

\* find_sessions_for_user
SessionsOf(u) == {x \in Requests : Stored(x) /\ user[x] = u}

\* The token is valid.  A duplicate is acknowledged; a new one is recorded, and
\* asks for a cascade when it names a user who has sessions.
Accept(d) ==
  LET t == token[d]
      u == NamedUser(t)
  IN
  /\ phase[d] = "validating"
  /\ Acceptable(t, started[d])
  /\ late' = IF Acceptable(t, now) THEN late ELSE late \cup {t}
  /\ \/ /\ Seen(t)
        /\ phase' = [phase EXCEPT ![d] = "answered"]
        /\ UNCHANGED <<seen, evicted, runs, target>>
     \/ /\ ~Seen(t)
        /\ Remember(t)
        /\ target' = [target EXCEPT ![d] = u]
        /\ runs' = [runs EXCEPT ![t] = IF u = None THEN @ ELSE @ + 1]
        /\ phase' = [phase EXCEPT ![d] = IF SessionsOf(u) = {} THEN "answered" ELSE "queued"]
  /\ UNCHANGED <<now, loginVars, sessVars, iat, token, started>>

\* Mutant of Sweep: a jti is forgotten at the edge of its window.
SweepEarly ==
  /\ seen' = Keep(seen, {t \in seen.keys : iat[t] + Tolerance > now})
  /\ UNCHANGED <<now, loginVars, sessVars, phase, target, iat, token, started, runs,
                 evicted, late>>

\* sweep_once
Sweep ==
  /\ seen' = Keep(seen, {t \in seen.keys : iat[t] + Tolerance >= now})
  /\ UNCHANGED <<now, loginVars, sessVars, phase, target, iat, token, started, runs,
                 evicted, late>>

-----------------------------------------------------------------------------
(* Teardown.                                                                 *)

\* POST /auth/logout with the cookie of a stored session.
Logout(x) ==
  /\ phase[x] = "idle"
  /\ Stored(x)
  /\ phase' = [phase EXCEPT ![x] = "queued"]
  /\ target' = [target EXCEPT ![x] = user[x]]
  /\ UNCHANGED <<now, loginVars, sessVars, bclVars>>

\* Mutant of Fence: only the sessions with the sid of the token are fenced.
FenceSid(c) ==
  session' = [x \in Requests |->
    IF x \in SessionsOf(target[c]) /\ (c \in Deliveries => sid[x] = TokenSid[token[c]])
    THEN "fenced" ELSE session[x]]

\* All sessions the user has now are fenced.
Fence(c) ==
  session' = [x \in Requests |-> IF x \in SessionsOf(target[c]) THEN "fenced" ELSE session[x]]

\* The cascade gets its user's lock.
CascadeStarts(c) ==
  /\ phase[c] = "queued"
  /\ \A o \in Cascades : phase[o] = "running" => target[o] # target[c]
  /\ Fence(c)
  /\ phase' = [phase EXCEPT ![c] = IF SessionsOf(target[c]) = {} THEN "answered" ELSE "running"]
  /\ UNCHANGED <<now, loginVars, popped, user, sid, sidIndex, target, bclVars>>

\* One session is torn down and deleted; the sid index stays as it is.
Delete(c, x) ==
  /\ phase[c] = "running"
  /\ user[x] = target[c] /\ session[x] = "fenced"
  /\ session' = [session EXCEPT ![x] = "gone"]
  /\ UNCHANGED <<now, loginVars, popped, user, sid, sidIndex, phase, target, bclVars>>

CascadeEnds(c) ==
  /\ phase[c] = "running"
  /\ \A x \in SessionsOf(target[c]) : session[x] # "fenced"
  /\ phase' = [phase EXCEPT ![c] = "answered"]
  /\ UNCHANGED <<now, loginVars, sessVars, target, bclVars>>

Tick ==
  /\ now < MaxTime
  /\ now' = now + 1
  /\ UNCHANGED <<loginVars, sessVars, phase, target, bclVars>>

-----------------------------------------------------------------------------

ExchangeEnds(x) ==
  \/ ExchangeFails(x)
  \/ \E u \in Users, i \in Sids \cup {None} : ExchangeDone(x, u, i)

CascadeStep(c) ==
  CascadeStarts(c) \/ CascadeEnds(c) \/ \E x \in Requests : Delete(c, x)

Validated(d) == Reject(d) \/ Accept(d)

Next ==
  \/ \E s \in States : Login(s) \/ \E x \in Requests : Exchange(x, s)
  \/ \E x \in Requests : ExchangeEnds(x) \/ Logout(x)
  \/ \E t \in Tokens : \/ \E at \in Times : at <= now + Skew + 1 /\ Send(t, at)
                       \/ \E d \in Deliveries : Deliver(d, t)
  \/ \E d \in Deliveries : Validated(d)
  \/ \E c \in Cascades : CascadeStep(c)
  \/ Sweep \/ Tick

Spec == Init /\ [][Next]_vars

\* The event loop runs every handler to its end: the exchange with the identity
\* server, the fetch of its keys and every call of a cascade have timeouts.
Fairness ==
  /\ \A x \in Requests : WF_vars(ExchangeEnds(x))
  /\ \A d \in Deliveries : WF_vars(Validated(d))
  /\ \A c \in Cascades : SF_vars(CascadeStarts(c))
  /\ \A c \in Cascades : WF_vars(CascadeEnds(c) \/ \E x \in Requests : Delete(c, x))

FairSpec == Spec /\ Fairness

-----------------------------------------------------------------------------
(* Properties.                                                               *)

\* One login state opens at most one exchange with the identity server, however
\* often and however concurrently the relay page posts it.
OneExchangePerState ==
  \A x, y \in Requests : x # y /\ popped[x] # None => popped[x] # popped[y]

\* A sign-in that is not older than the TTL can still be completed: its state is
\* pending unless it was posted already or evicted at the cap.
SignInStaysOpen ==
  \A s \in States :
    /\ issued[s] # None
    /\ now <= issued[s] + LoginTTL
    => \/ s \in logins.keys \cup crowded
       \/ \E x \in Requests : popped[x] = s

\* A logout token asks for one cascade, however often it is delivered and
\* whatever the sweep does, unless its jti was evicted at the cap, or it was
\* looked up only after its window had closed (validation goes by a clock read
\* before the await of the signing key, the sweep by the clock of its own).
RunsOnce == \A t \in Tokens : runs[t] <= 1 \/ t \in evicted \/ t \in late

\* When a delivery is answered after its cascade, the sessions its user had when
\* the cascade was asked for end, those of every other sid of the user included.
NamedSessionsEnd ==
  \A d \in Deliveries, x \in Requests :
    (phase[d] = "queued" /\ session[x] = "open" /\ user[x] = target[d])
      ~> (session[x] = "gone" /\ phase[d] = "answered")

\* The sessions of a user that are fenced and not yet deleted.
ToTearDown(u) == {x \in SessionsOf(u) : session[x] = "fenced"}

\* No session is left fenced: the cascade of its user that runs is there to delete
\* it, one at a time, and a cascade that is queued or runs has a user.
NoFenceLeft ==
  /\ \A x \in Requests : Stored(x) => user[x] # None
  /\ \A c \in Cascades : phase[c] \in {"queued", "running"} => target[c] # None
  /\ \A c, d \in Cascades :
       phase[c] = "running" /\ phase[d] = "running" /\ target[c] = target[d] => c = d
  /\ \A x \in Requests : session[x] = "fenced" =>
       \E c \in Cascades : phase[c] = "running" /\ target[c] = user[x]

\* A cascade starts on all its user's sessions, deletes them and ends: nobody gives
\* it more of them while it runs, and it does not end before the last is gone.
CascadesMoveOn ==
  [][\A c \in Cascades :
       /\ phase[c] = "queued" =>
            \/ phase'[c] = "queued" /\ target'[c] = target[c]
            \/ phase'[c] = "answered" /\ SessionsOf(target[c])' = {}
            \/ /\ phase'[c] = "running" /\ target'[c] = target[c]
               /\ SessionsOf(target[c])' = ToTearDown(target[c])'
       /\ phase[c] = "running" =>
            /\ target'[c] = target[c]
            /\ ToTearDown(target[c])' \subseteq ToTearDown(target[c])
            /\ \/ phase'[c] = "running"
               \/ phase'[c] = "answered" /\ ToTearDown(target[c])' = {}]_vars

\* "Populated at code-exchange time ... evicted on session delete"
\* (session_store.py:242): the sid index names stored sessions only.
SidIndexLive ==
  \A i \in Sids : sidIndex[i] # None => \E x \in Requests : Stored(x) /\ sid[x] = i

=============================================================================
