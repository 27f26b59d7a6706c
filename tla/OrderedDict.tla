----------------------------- MODULE OrderedDict -----------------------------
(***************************************************************************)
(* The bounded in-memory records of the services: an OrderedDict (its      *)
(* keys, and which was inserted before which) with eviction of the oldest  *)
(* entry at a cap.  pending_logins, SeenLogoutTokens and JtiDenylist all   *)
(* have this shape.                                                        *)
(***************************************************************************)
EXTENDS Naturals, FiniteSets

Ordered(S) == [keys : SUBSET S, before : SUBSET (S \X S)]

Empty == [keys |-> {}, before |-> {}]

Keep(q, K) == [keys |-> q.keys \cap K, before |-> q.before \cap (K \X K)]

\* A new key comes last.
Push(q, k) == [keys |-> q.keys \cup {k}, before |-> q.before \cup (q.keys \X {k})]

Oldest(q) == {k \in q.keys : \A l \in q.keys \ {k} : <<k, l>> \in q.before}

\* Mutant of MakeRoom: one eviction too few.
MakeNoRoom(q, cap) == IF Cardinality(q.keys) <= cap THEN q ELSE Keep(q, q.keys \ Oldest(q))

\* popitem(last=False) when there is no room for one more.
MakeRoom(q, cap) == IF Cardinality(q.keys) < cap THEN q ELSE Keep(q, q.keys \ Oldest(q))

\* Mutant of MoveToEnd: the key keeps its place.
StayPut(q, k) == q

\* move_to_end
MoveToEnd(q, k) == Push(Keep(q, q.keys \ {k}), k)

=============================================================================
