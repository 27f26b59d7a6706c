----------------------------- MODULE ActorToken -----------------------------
(***************************************************************************)
(* The agents' and the orchestrator's own token: ActorTokenProvider        *)
(* (common/auth/actor_token_provider.py) over the identity server's        *)
(* App-Native authentication (common/auth/wso2_is_client.py).  Every       *)
(* consent and every sign-in asks it for the token; it mints one under a   *)
(* lock, and caches it for much less than the token's life, so that an     *)
(* agent that was deactivated loses access soon.                           *)
(*                                                                         *)
(* force_refresh and invalidate have no caller and are left out.           *)
(***************************************************************************)
EXTENDS Integers, FiniteSets

CONSTANTS
  Callers,       \* calls of ensure_valid_token
  CacheMax,      \* ACTOR_TOKEN_CACHE_MAX_TTL_SECONDS
  Buffer,        \* buffer_seconds
  Lifetime,      \* expires_in of a token
  Delay,         \* how long the identity server's answer may take
  MaxSteps,      \* _MAX_AUTHN_STEPS
  LastTick       \* bound of the clock

ASSUME ActorTokenAssumption ==
  /\ {CacheMax, Buffer, Lifetime, Delay, LastTick} \subseteq Nat
  /\ MaxSteps \in Nat \ {0}
  /\ Buffer < CacheMax

VARIABLES
  tick,
  deactivated,   \* when the agent was deactivated, or Never
  cachedToken,   \* _cached: expires_at, and when it was issued
  lockOwner,     \* _lock
  asker          \* where a call of ensure_valid_token is

atVars == <<tick, deactivated, cachedToken, lockOwner, asker>>

Ticks == 0 .. LastTick
Never == -1
NoToken == [issued |-> Never, until |-> Never]
Token == [issued : Ticks, until : 0 .. LastTick + Lifetime + CacheMax]

Minting == {"authorize", "authn", "token", "issued"}

AtTypeOK ==
  /\ tick \in Ticks
  /\ deactivated \in Ticks \cup {Never}
  /\ cachedToken \in Token \cup {NoToken}
  /\ lockOwner \subseteq Callers
  /\ asker \in [Callers -> [at : {"idle", "locking", "handed", "failed"} \cup Minting,
                            step : 0 .. MaxSteps, issued : Ticks \cup {Never}, when : Ticks]]

AtInit ==
  /\ tick = 0 /\ deactivated = Never /\ cachedToken = NoToken /\ lockOwner = {}
  /\ asker = [c \in Callers |-> [at |-> "idle", step |-> 0, issued |-> Never, when |-> 0]]

At(c, where) == asker[c].at = where

-----------------------------------------------------------------------------
(* The identity server, and time.                                            *)

Deactivate ==
  /\ deactivated = Never
  /\ deactivated' = tick
  /\ UNCHANGED <<tick, cachedToken, lockOwner, asker>>

AtTick ==
  /\ tick < LastTick
  /\ \A c \in Callers : At(c, "issued") => tick - asker[c].issued < Delay
  /\ tick' = tick + 1
  /\ UNCHANGED <<deactivated, cachedToken, lockOwner, asker>>

-----------------------------------------------------------------------------
(* ensure_valid_token.                                                       *)

\* _is_fresh
FreshToken(t) == t # NoToken /\ tick < t.until - Buffer

Handed(c, t) == [asker[c] EXCEPT !.at = "handed", !.issued = t.issued, !.when = tick]

\* The fast path asks without the lock.
Ask(c) ==
  /\ At(c, "idle")
  /\ asker' = [asker EXCEPT ![c] =
       IF FreshToken(cachedToken) THEN Handed(c, cachedToken) ELSE [@ EXCEPT !.at = "locking"]]
  /\ UNCHANGED <<tick, deactivated, cachedToken, lockOwner>>

\* Mutant of SecondLook: who has waited for the lock mints.
NoSecondLook == FALSE

\* Who has waited for the lock looks again.
SecondLook == FreshToken(cachedToken)

Lock(c) ==
  /\ At(c, "locking")
  /\ lockOwner = {}
  /\ IF SecondLook
     THEN /\ asker' = [asker EXCEPT ![c] = Handed(c, cachedToken)]
          /\ UNCHANGED lockOwner
     ELSE /\ asker' = [asker EXCEPT ![c].at = "authorize"]
          /\ lockOwner' = {c}
  /\ UNCHANGED <<tick, deactivated, cachedToken>>

Goes(c, where) ==
  /\ asker' = [asker EXCEPT ![c].at = where]
  /\ UNCHANGED <<tick, deactivated, cachedToken, lockOwner>>

\* POST /oauth2/authorize: a flow to log in to, or, when the server still has
\* a session of the client, the code at once.
Authorized(c) == At(c, "authorize") /\ \E next \in {"authn", "token"} : Goes(c, next)

\* POST /oauth2/authn: refused to a deactivated agent.
Authn(c) == At(c, "authn") /\ deactivated = Never

\* It answers with one more step of the login, up to a limit, ...
OneMoreStep(c) ==
  /\ Authn(c)
  /\ asker[c].step < MaxSteps - 1
  /\ asker' = [asker EXCEPT ![c].step = @ + 1]
  /\ UNCHANGED <<tick, deactivated, cachedToken, lockOwner>>

\* ... or with the code.
LoggedIn(c) == Authn(c) /\ Goes(c, "token")

\* POST /oauth2/token: refused to a deactivated agent.
Issued(c) ==
  /\ At(c, "token")
  /\ deactivated = Never
  /\ asker' = [asker EXCEPT ![c].at = "issued", ![c].issued = tick]
  /\ UNCHANGED <<tick, deactivated, cachedToken, lockOwner>>

\* Mutant of Capped: the token is cached for its own life.
Uncapped == tick + Lifetime

\* expires_at of the cached token
Capped == IF CacheMax < Lifetime THEN tick + CacheMax ELSE tick + Lifetime

\* The token arrives: cached, and handed to the caller as it is.
Minted(c) ==
  /\ At(c, "issued")
  /\ cachedToken' = [issued |-> asker[c].issued, until |-> Capped]
  /\ asker' = [asker EXCEPT ![c] = Handed(c, [issued |-> asker[c].issued])]
  /\ lockOwner' = lockOwner \ {c}
  /\ UNCHANGED <<tick, deactivated>>

\* Any step may fail, or lack what the next one needs, or its caller goes
\* away: the lock is released, the cache stays, the next in line mints.
MintFails(c) ==
  /\ asker[c].at \in Minting
  /\ asker' = [asker EXCEPT ![c].at = "failed"]
  /\ lockOwner' = lockOwner \ {c}
  /\ UNCHANGED <<tick, deactivated, cachedToken>>

AtNext ==
  \/ AtTick \/ Deactivate
  \/ \E c \in Callers :
       \/ Ask(c) \/ Lock(c) \/ Authorized(c) \/ OneMoreStep(c) \/ LoggedIn(c)
       \/ Issued(c) \/ Minted(c) \/ MintFails(c)

AtSpec == AtInit /\ [][AtNext]_atVars

-----------------------------------------------------------------------------
(* Properties.                                                               *)

\* However many calls find the token expired at once, one of them mints, and
\* only while no token that could be shared is cached.
SingleFlight ==
  /\ Cardinality({c \in Callers : asker[c].at \in Minting}) <= 1
  /\ \A c \in Callers : asker[c].at \in Minting => ~FreshToken(cachedToken)

\* A deactivated agent is handed a token for no longer than the cap, and the
\* time an answer took that was given before: "bounded to this many seconds".
DeactivationLag ==
  \A c \in Callers :
    At(c, "handed") /\ deactivated # Never
      => asker[c].when < deactivated + Delay + CacheMax - Buffer

=============================================================================
