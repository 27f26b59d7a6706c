------------------------------ MODULE Denylist ------------------------------
(***************************************************************************)
(* One receiver of revocations: POST /internal/events with its rate limit  *)
(* (common/revocation/internal_events.py), the denylist behind it          *)
(* (jti_denylist.py), the validator of an MCP server that consults it      *)
(* (hr_server and it_server auth/validators.py), and the leg of a fan-out  *)
(* with its one retry (orchestrator/agent_registry/revoke_client.py).      *)
(*                                                                         *)
(* Every post comes from one source, the orchestrator's address, as all    *)
(* posts of a deployment do.  Time is in ticks of no fixed length.         *)
(***************************************************************************)
EXTENDS OrderedDict

CONSTANTS
  Tokens,         \* OBO tokens, by jti
  Strays,         \* posts of that source that are refused with 401 or 400
  None,
  Exp,            \* a token's exp
  Cap,            \* hard_cap
  Limit, Window,  \* _RATE_LIMIT_MAX_PER_WINDOW, _RATE_LIMIT_WINDOW_SECONDS
  Leeway,         \* of the validators' exp check
  MaxTime,        \* bound of the clock
  MaxRestarts     \* bound of the receiver's restarts

\* What is posted: each leg has two attempts.
Posts == (Tokens \X {1, 2}) \cup Strays

ASSUME DenylistAssumption ==
  /\ Exp \in [Tokens -> Nat]
  /\ {Cap, Limit} \subseteq Nat \ {0}
  /\ {Window, Leeway, MaxTime, MaxRestarts} \subseteq Nat
  /\ None \notin Nat
  /\ Strays \cap (Tokens \X {1, 2}) = {}

VARIABLES
  now, restarts,
  leg,       \* where the leg of a token's fan-out is
  post,      \* where a post is
  bucket,    \* _rate_buckets of the source: the posts it remembers
  letIn,     \* when the rate limit let a post in
  denied,    \* JtiDenylist
  added,     \* history: every jti ever added, in the order of its last add
  lost       \* history: jtis lost to an eviction or a restart

vars == <<now, restarts, leg, post, bucket, letIn, denied, added, lost>>

Typed ==
  /\ now \in 0 .. MaxTime /\ restarts \in 0 .. MaxRestarts
  /\ leg \in [Tokens -> {"idle", "first", "pause", "second", "acked", "failed"}]
  /\ post \in [Posts -> {"idle", "sent", "ok", "refused"}]
  /\ bucket \subseteq Posts
  /\ letIn \in [Posts -> 0 .. MaxTime \cup {None}]
  /\ denied \in Ordered(Tokens) /\ added \in Ordered(Tokens)
  /\ lost \subseteq Tokens

\* Neither the denylist nor the bucket outgrows its cap.
TypeOK == Typed /\ Cardinality(denied.keys) <= Cap /\ Cardinality(bucket) <= Limit

Init ==
  /\ now = 0 /\ restarts = 0
  /\ leg = [t \in Tokens |-> "idle"]
  /\ post = [p \in Posts |-> "idle"]
  /\ bucket = {} /\ letIn = [p \in Posts |-> None]
  /\ denied = Empty /\ added = Empty /\ lost = {}

-----------------------------------------------------------------------------
(* The orchestrator's leg.                                                   *)

receiver == <<bucket, letIn, denied, added, lost>>

\* The fan-out posts the event, at any age of the token.
FanOut(t) ==
  /\ leg[t] = "idle"
  /\ leg' = [leg EXCEPT ![t] = "first"]
  /\ post' = [post EXCEPT ![<<t, 1>>] = "sent"]
  /\ UNCHANGED <<now, restarts, receiver>>

\* An answer of 2xx ends the leg.
LegAcked(t) ==
  /\ \/ leg[t] = "first" /\ post[<<t, 1>>] = "ok"
     \/ leg[t] = "second" /\ post[<<t, 2>>] = "ok"
  /\ leg' = [leg EXCEPT ![t] = "acked"]
  /\ UNCHANGED <<now, restarts, post, receiver>>

\* Another answer, a network error or a timeout, wherever the post is by then.
AttemptFails(t) ==
  /\ leg[t] \in {"first", "second"}
  /\ leg' = [leg EXCEPT ![t] = IF @ = "first" THEN "pause" ELSE "failed"]
  /\ UNCHANGED <<now, restarts, post, receiver>>

\* The one retry.
Retry(t) ==
  /\ leg[t] = "pause"
  /\ leg' = [leg EXCEPT ![t] = "second"]
  /\ post' = [post EXCEPT ![<<t, 2>>] = "sent"]
  /\ UNCHANGED <<now, restarts, receiver>>

-----------------------------------------------------------------------------
(* The receiver.                                                             *)

\* Mutant of InWindow: a post is forgotten at the edge of the window.
InWindowShort == {p \in bucket : letIn[p] + Window > now}

\* What the bucket remembers.
InWindow == {p \in bucket : letIn[p] + Window >= now}

\* _rate_limit_check
RateLimited(p) ==
  /\ bucket' = InWindow
  /\ Cardinality(InWindow) >= Limit
  /\ UNCHANGED letIn

LetIn(p) ==
  /\ Cardinality(InWindow) < Limit
  /\ bucket' = InWindow \cup {p}
  /\ letIn' = [letIn EXCEPT ![p] = now]

\* JtiDenylist.add: a known jti moves to the end, a new one may push out the oldest.
Add(t) ==
  LET kept == IF t \in denied.keys THEN denied ELSE MakeRoom(denied, Cap) IN
  /\ denied' = IF t \in denied.keys THEN MoveToEnd(denied, t) ELSE Push(kept, t)
  /\ lost' = lost \cup (denied.keys \ kept.keys)

\* POST /internal/events with a revocation; it may arrive after its leg gave up.
Receive(t, n) ==
  LET p == <<t, n>> IN
  /\ post[p] = "sent"
  /\ \/ /\ RateLimited(p)
        /\ post' = [post EXCEPT ![p] = "refused"]
        /\ UNCHANGED <<denied, added, lost>>
     \/ /\ LetIn(p)
        /\ Add(t)
        /\ added' = Push(Keep(added, added.keys \ {t}), t)
        /\ post' = [post EXCEPT ![p] = "ok"]
  /\ UNCHANGED <<now, restarts, leg>>

\* A post with a wrong secret or an unknown type: it counts against the limit,
\* which comes first, and adds nothing.
ReceiveStray(p) ==
  /\ post[p] = "idle"
  /\ RateLimited(p) \/ LetIn(p)
  /\ post' = [post EXCEPT ![p] = "refused"]
  /\ UNCHANGED <<now, restarts, leg, denied, added, lost>>

\* Mutant of Sweep: a jti is dropped at its exp.
SweepAtExp ==
  /\ denied' = Keep(denied, {t \in denied.keys : Exp[t] > now})
  /\ UNCHANGED <<now, restarts, leg, post, bucket, letIn, added, lost>>

\* sweep_once
Sweep ==
  /\ denied' = Keep(denied, {t \in denied.keys : Exp[t] >= now})
  /\ UNCHANGED <<now, restarts, leg, post, bucket, letIn, added, lost>>

\* The receiver restarts: bucket and denylist are in its memory only.
Restart ==
  /\ restarts < MaxRestarts
  /\ restarts' = restarts + 1
  /\ bucket' = {}
  /\ letIn' = [p \in Posts |-> None]
  /\ denied' = Empty
  /\ lost' = lost \cup denied.keys
  /\ UNCHANGED <<now, leg, post, added>>

Tick ==
  /\ now < MaxTime
  /\ now' = now + 1
  /\ UNCHANGED <<restarts, leg, post, receiver>>

Next ==
  \/ \E t \in Tokens : \/ FanOut(t) \/ LegAcked(t) \/ AttemptFails(t) \/ Retry(t)
                       \/ \E n \in {1, 2} : Receive(t, n)
  \/ \E p \in Strays : ReceiveStray(p)
  \/ Sweep \/ Restart \/ Tick

Spec == Init /\ [][Next]_vars

-----------------------------------------------------------------------------

\* validate_token of an MCP server, for a token that is otherwise in order: exp
\* with the leeway, then the denylist.
Honoured(t) == Exp[t] + Leeway > now /\ t \notin denied.keys

\* A token whose revocation this receiver acknowledged is honoured no more,
\* whatever was retried, duplicated or swept, until it has expired (when only
\* the leeway is left of it), unless its jti was lost to an eviction or a restart.
AckedIsRefused ==
  \A t \in Tokens : leg[t] = "acked" /\ Honoured(t) => now > Exp[t] \/ t \in lost

\* Eviction takes the least recently revoked jti: between restarts, an unexpired
\* jti is on the list unless Cap others were added, or added again, after it.
RecentStay ==
  restarts = 0 =>
    \A t \in added.keys :
      \/ t \in denied.keys
      \/ now > Exp[t]
      \/ Cardinality({o \in added.keys : <<t, o>> \in added.before}) >= Cap

\* No window of the given length sees more than Limit posts let in, whatever
\* was dropped from the bucket in between.
RateBound ==
  \A w \in 0 .. MaxTime :
    Cardinality({p \in Posts : letIn[p] # None /\ w <= letIn[p] /\ letIn[p] <= w + Window})
      <= Limit

\* "Replaying a previously-valid token-B -> 401 ERR-MCP-002 (denylist_hit)"
\* (README.md:174): a token whose revocation was acknowledged is honoured no more.
RevokedStaysRefused ==
  \A t \in Tokens : leg[t] = "acked" /\ t \notin lost => ~Honoured(t)

=============================================================================
