--------------------------- MODULE RevocableCache ---------------------------
(***************************************************************************)
(* What the token cache of an agent promises: at most one token per key,   *)
(* and a revoked token is gone at once and never comes back.  Dropping     *)
(* more than was asked for is allowed: it costs the user a consent.        *)
(***************************************************************************)
CONSTANTS Keys, Tokens, None

VARIABLES cache, revoked

vars == <<cache, revoked>>

Init == cache = [k \in Keys |-> None] /\ revoked = {}

Put(k, t) ==
  /\ t \notin revoked
  /\ \A j \in Keys : cache[j] # t
  /\ cache' = [cache EXCEPT ![k] = t]
  /\ UNCHANGED revoked

Drop(K) ==
  /\ cache' = [k \in Keys |-> IF k \in K THEN None ELSE cache[k]]
  /\ UNCHANGED revoked

Revoke(t, K) ==
  /\ \A k \in Keys : cache[k] = t => k \in K
  /\ cache' = [k \in Keys |-> IF k \in K THEN None ELSE cache[k]]
  /\ revoked' = revoked \cup {t}

Next ==
  \/ \E k \in Keys, t \in Tokens : Put(k, t)
  \/ \E K \in SUBSET Keys : Drop(K) \/ (\E t \in Tokens : Revoke(t, K))

Spec == Init /\ [][Next]_vars

=============================================================================
