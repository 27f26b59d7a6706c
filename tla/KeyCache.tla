------------------------------ MODULE KeyCache ------------------------------
(***************************************************************************)
(* How a service decides on a token: it finds the signing key in its cache *)
(* of the identity server's key set, refreshing it when it has to, and     *)
(* then judges signature and claims.  Two caches do this: JWKSCache with a *)
(* time to live and behind it validate() (common/auth/jwt_validator.py,    *)
(* used by the MCP doors and the agents), and the validators of the REST   *)
(* doors (hr_server and it_server auth/jwt_validator.py), whose cache      *)
(* never ages.  Nothing keeps concurrent calls from refreshing at once, so *)
(* the answers of their fetches may land in any order.                     *)
(***************************************************************************)
EXTENDS Integers

CONSTANTS
  Calls,      \* validations
  Kids,       \* signing keys of the identity server
  FirstKid,   \* the one it signs with at first
  TTL,        \* ttl_seconds
  Transit,    \* how old the answer of a fetch may be when it lands
  Skew,       \* leeway_seconds of validate(); the REST doors allow none
  Expiries,   \* when tokens expire
  ClockMax    \* bound of the clock

ASSUME KeyCacheAssumption ==
  /\ FirstKid \in Kids
  /\ TTL \in Nat \ {0}
  /\ {Transit, Skew, ClockMax} \cup Expiries \subseteq Nat

VARIABLES
  ages,       \* whether the cache has a time to live
  clock,
  published,  \* the key set of the identity server: "later", "live", "retired"
  retiredAt,  \* when a key was retired (0 before)
  keys,       \* _keys, _jwks_cache
  fetchedAt,  \* _fetched_at
  call        \* the validations

kcVars == <<ages, clock, published, retiredAt, keys, fetchedAt, call>>

Live == {k \in Kids : published[k] = "live"}

Times == 0 .. ClockMax
NoCall == [at |-> "new"]

\* steady: the keys that have been live ever since the validation began.
Validation ==
  [at : {"look", "stale", "miss", "honoured", "unknown", "expired", "failed"},
   kid : Kids, exp : Expiries, steady : SUBSET Kids,
   fetched : SUBSET Kids, since : Times \cup {-1}, when : Times]

KcTypeOK ==
  /\ ages \in BOOLEAN /\ clock \in Times
  /\ published \in [Kids -> {"later", "live", "retired"}]
  /\ retiredAt \in [Kids -> Times]
  /\ keys \subseteq Kids
  /\ fetchedAt \in Times \cup {-TTL}
  /\ call \in [Calls -> Validation \cup {NoCall}]

\* prewarm_jwks: a cache that ages is filled at startup, if the fetch succeeds.
Prewarmed == ages /\ keys = Live /\ fetchedAt = 0

\* Else it is empty until the first fetch; whether it counts as stale before
\* depends on how long ago the host was started.
KcInit ==
  /\ ages \in BOOLEAN /\ clock = 0
  /\ published = [k \in Kids |-> IF k = FirstKid THEN "live" ELSE "later"]
  /\ retiredAt = [k \in Kids |-> 0]
  /\ keys \in SUBSET Kids /\ fetchedAt \in {0, -TTL}
  /\ keys = {} \/ Prewarmed
  /\ call = [c \in Calls |-> NoCall]

-----------------------------------------------------------------------------
(* The identity server, and time.                                            *)

cache == <<ages, keys, fetchedAt>>

Publish(k) ==
  /\ published[k] = "later"
  /\ published' = [published EXCEPT ![k] = "live"]
  /\ UNCHANGED <<clock, retiredAt, cache, call>>

Retire(k) ==
  /\ published[k] = "live"
  /\ published' = [published EXCEPT ![k] = "retired"]
  /\ retiredAt' = [retiredAt EXCEPT ![k] = clock]
  /\ call' = [c \in Calls |->
       IF call[c].at \in {"look", "stale", "miss"} THEN [call[c] EXCEPT !.steady = @ \ {k}] ELSE call[c]]
  /\ UNCHANGED <<clock, cache>>

InFlight(c) == call[c].at \in {"stale", "miss"} /\ call[c].since # -1

\* An answer that is on its way lands in time, or the fetch fails.
KcTick ==
  /\ clock < ClockMax
  /\ \A c \in Calls : InFlight(c) => clock - call[c].since < Transit
  /\ clock' = clock + 1
  /\ UNCHANGED <<published, retiredAt, cache, call>>

-----------------------------------------------------------------------------
(* A validation.                                                             *)

\* Mutant of Stale: a populated cache never ages.
StaleIfEmpty == ages /\ keys = {}

\* _is_stale; the REST validators only ask whether there is a cache.
Stale == IF ages THEN clock - fetchedAt >= TTL ELSE keys = {}

Allowed == IF ages THEN Skew ELSE 0

\* The token is judged when its key is at hand, in the same step.
Judged(c) ==
  [call[c] EXCEPT !.at = IF clock < call[c].exp + Allowed THEN "honoured" ELSE "expired",
                  !.when = clock, !.since = -1, !.fetched = {}]

Refused(c, why) == [call[c] EXCEPT !.at = why, !.when = clock, !.since = -1, !.fetched = {}]

Fetching(c, why) == [call[c] EXCEPT !.at = why, !.since = -1, !.fetched = {}]

\* A token arrives, of some key and expiry.
Arrive(c, k, x) ==
  /\ call[c] = NoCall
  /\ published[k] # "later"
  /\ call' = [call EXCEPT ![c] =
       [at |-> "look", kid |-> k, exp |-> x, steady |-> Live, fetched |-> {}, since |-> -1, when |-> 0]]
  /\ UNCHANGED <<clock, published, retiredAt, cache>>

\* get_key, _get_signing_key up to the first fetch: a cached key is used unless
\* the cache is stale.
Look(c) ==
  /\ call[c].at = "look"
  /\ call' = [call EXCEPT ![c] =
       IF Stale THEN Fetching(c, "stale")
       ELSE IF call[c].kid \in keys THEN Judged(c) ELSE Fetching(c, "miss")]
  /\ UNCHANGED <<clock, published, retiredAt, cache>>

\* The identity server answers a fetch with its key set of the moment.
Answer(c) ==
  /\ call[c].at \in {"stale", "miss"} /\ call[c].since = -1
  /\ call' = [call EXCEPT ![c].fetched = Live, ![c].since = clock]
  /\ UNCHANGED <<clock, published, retiredAt, cache>>

\* What follows a fetch: a key that a stale cache's refresh has not brought is
\* asked for once more.
AfterFetch(c, found) ==
  IF call[c].kid \in found THEN Judged(c)
  ELSE IF call[c].at = "stale" THEN Fetching(c, "miss")
  ELSE Refused(c, "unknown")

\* Mutant of Landed: an answer does not replace one that landed meanwhile.
LandedUnlessNewer(c) == IF fetchedAt > call[c].since THEN keys ELSE call[c].fetched

\* The answer replaces the cached set, also a newer one.
Landed(c) == call[c].fetched

\* refresh and _fetch_jwks return, and the caller goes on in the same step.  (A REST
\* door's _get_jwks closes its HTTP client in between and then looks at its cache,
\* where another set may have landed; here only a call that begins then sees it.)
Land(c) ==
  /\ InFlight(c)
  /\ keys' = Landed(c)
  /\ fetchedAt' = clock
  /\ call' = [call EXCEPT ![c] = AfterFetch(c, keys')]
  /\ UNCHANGED <<ages, clock, published, retiredAt>>

\* The fetch fails: the caller is refused, the cache stays as it is.
FetchFails(c) ==
  /\ call[c].at \in {"stale", "miss"}
  /\ call' = [call EXCEPT ![c] = Refused(c, "failed")]
  /\ UNCHANGED <<clock, published, retiredAt, cache>>

KcNext ==
  \/ KcTick
  \/ \E k \in Kids : Publish(k) \/ Retire(k)
  \/ \E c \in Calls, k \in Kids, x \in Expiries : Arrive(c, k, x)
  \/ \E c \in Calls : Look(c) \/ Answer(c) \/ Land(c) \/ FetchFails(c)

KcSpec == KcInit /\ [][KcNext]_kcVars

-----------------------------------------------------------------------------
(* Properties.                                                               *)

\* However the fetches of concurrent validations overtake each other: a token
\* is refused for an unknown key only when its key was not published all the
\* time since the validation began.
PublishedKeyFound ==
  \A c \in Calls : call[c].at = "unknown" => call[c].kid \notin call[c].steady

\* A token is honoured only within its leeway, also when the fetch of the key
\* took long; and where the cache ages, a key that was retired is trusted for
\* no longer than the time to live and the transit of one answer.
TrustEnds ==
  \A c \in Calls : call[c].at = "honoured" =>
    /\ call[c].when < call[c].exp + Allowed
    /\ ages /\ published[call[c].kid] = "retired"
         => call[c].when < retiredAt[call[c].kid] + TTL + Transit

=============================================================================
