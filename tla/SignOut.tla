------------------------------ MODULE SignOut ------------------------------
(***************************************************************************)
(* What signing out promises, without lock, cascade, agents or messages.   *)
(* A session is opened, collects the tokens issued on its behalf, is       *)
(* fenced together with other open sessions, and is closed with exactly    *)
(* one notice, no earlier than the revocation of every token it owed when  *)
(* it was fenced has been attempted.                                       *)
(***************************************************************************)
EXTENDS Naturals

CONSTANTS Sids, Tokens

VARIABLES phase, log, owed, attempted, notices

vars == <<phase, log, owed, attempted, notices>>

Init ==
  /\ phase = [s \in Sids |-> "unused"]
  /\ log = [s \in Sids |-> {}]
  /\ owed = [s \in Sids |-> {}]
  /\ attempted = {}
  /\ notices = [s \in Sids |-> 0]

Open(s) ==
  /\ phase[s] = "unused"
  /\ phase' = [phase EXCEPT ![s] = "open"]
  /\ UNCHANGED <<log, owed, attempted, notices>>

\* A token may still be recorded for a session that is ending or closed.
Record(s, t) ==
  /\ phase[s] # "unused"
  /\ log' = [log EXCEPT ![s] = @ \cup {t}]
  /\ UNCHANGED <<phase, owed, attempted, notices>>

Fence(S) ==
  /\ S # {}
  /\ \A s \in S : phase[s] = "open"
  /\ phase' = [s \in Sids |-> IF s \in S THEN "ending" ELSE phase[s]]
  /\ owed' = [s \in Sids |-> IF s \in S THEN log[s] ELSE owed[s]]
  /\ UNCHANGED <<log, attempted, notices>>

\* Only tokens of a session that is ending are revoked.
Attempt(s, T) ==
  /\ phase[s] = "ending"
  /\ T \subseteq log[s]
  /\ attempted' = attempted \cup T

Revoke(s, T) == Attempt(s, T) /\ UNCHANGED <<phase, log, owed, notices>>

Close(s, T) ==
  /\ Attempt(s, T)
  /\ owed[s] \subseteq attempted'
  /\ phase' = [phase EXCEPT ![s] = "closed"]
  /\ notices' = [notices EXCEPT ![s] = @ + 1]
  /\ UNCHANGED <<log, owed>>

Next ==
  \/ \E s \in Sids : Open(s)
  \/ \E s \in Sids, t \in Tokens : Record(s, t)
  \/ \E S \in SUBSET Sids : Fence(S)
  \/ \E s \in Sids : \E T \in SUBSET log[s] : Revoke(s, T) \/ Close(s, T)

Spec == Init /\ [][Next]_vars

=============================================================================
