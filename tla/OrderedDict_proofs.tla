------------------------- MODULE OrderedDict_proofs -------------------------
(***************************************************************************)
(* What the operations of OrderedDict return: the lemmas the proofs about  *)
(* the bounded records rest on.                                            *)
(***************************************************************************)
EXTENDS OrderedDict, FiniteSetTheorems, TLAPS

\* Dropping entries keeps a dict a dict.
LEMMA KeepType ==
  ASSUME NEW S, NEW q \in Ordered(S), NEW K
  PROVE  Keep(q, K) \in Ordered(S) /\ Keep(q, K).keys = q.keys \cap K
  BY DEF Ordered, Keep

\* The new key, and no other, is added.
LEMMA PushType ==
  ASSUME NEW S, NEW q \in Ordered(S), NEW k \in S
  PROVE  Push(q, k) \in Ordered(S) /\ Push(q, k).keys = q.keys \cup {k}
  BY DEF Ordered, Push

\* Making room adds no key.
LEMMA RoomType ==
  ASSUME NEW S, NEW q \in Ordered(S), NEW cap
  PROVE  MakeRoom(q, cap) \in Ordered(S) /\ MakeRoom(q, cap).keys \subseteq q.keys
  BY KeepType DEF MakeRoom

\* Moving a key to the end keeps the keys.
LEMMA MoveType ==
  ASSUME NEW S, NEW q \in Ordered(S), NEW k \in q.keys
  PROVE  MoveToEnd(q, k) \in Ordered(S) /\ MoveToEnd(q, k).keys = q.keys
  <1>1. k \in S
    BY DEF Ordered
  <1> DEFINE r == Keep(q, q.keys \ {k})
  <1>2. r \in Ordered(S) /\ r.keys = q.keys \ {k}
    BY KeepType
  <1> HIDE DEF r
  <1>3. Push(r, k) \in Ordered(S) /\ Push(r, k).keys = r.keys \cup {k}
    BY <1>1, <1>2, PushType
  <1>4. MoveToEnd(q, k) = Push(r, k)
    BY DEF MoveToEnd, r
  <1> QED BY <1>2, <1>3, <1>4

-----------------------------------------------------------------------------
(* The order of insertion is a line, and the oldest entry is where it starts. *)

Line(q) ==
  /\ IsFiniteSet(q.keys)
  /\ q.before \subseteq q.keys \X q.keys
  /\ \A k \in q.keys : <<k, k>> \notin q.before
  /\ \A k, l, m \in q.keys :
       <<k, l>> \in q.before /\ <<l, m>> \in q.before => <<k, m>> \in q.before
  /\ \A k, l \in q.keys : k # l => <<k, l>> \in q.before \/ <<l, k>> \in q.before

\* What keeps a record within its cap.
WithinCap(q, cap) == Line(q) /\ Cardinality(q.keys) <= cap

\* The empty record is a line.
LEMMA EmptyLine == Line(Empty) /\ Cardinality(Empty.keys) = 0
  BY FS_EmptySet DEF Line, Empty

\* What is left of a line is a line.
LEMMA KeepLine ==
  ASSUME NEW q, Line(q), NEW K
  PROVE  /\ Line(Keep(q, K)) /\ Keep(q, K).keys = q.keys \cap K
         /\ Cardinality(Keep(q, K).keys) <= Cardinality(q.keys)
  <1>1. /\ Keep(q, K).keys = q.keys \cap K
        /\ Keep(q, K).before = q.before \cap (K \X K)
    BY DEF Keep
  <1>2. IsFiniteSet(q.keys \cap K) /\ Cardinality(q.keys \cap K) <= Cardinality(q.keys)
    BY FS_Subset DEF Line
  <1> QED BY <1>1, <1>2 DEF Line

\* A line with a new last key is a line.
LEMMA PushLine ==
  ASSUME NEW q, Line(q), NEW k, k \notin q.keys
  PROVE  /\ Line(Push(q, k)) /\ Push(q, k).keys = q.keys \cup {k}
         /\ Cardinality(Push(q, k).keys) = Cardinality(q.keys) + 1
  <1>1. /\ Push(q, k).keys = q.keys \cup {k}
        /\ Push(q, k).before = q.before \cup (q.keys \X {k})
    BY DEF Push
  <1>2. IsFiniteSet(q.keys \cup {k}) /\ Cardinality(q.keys \cup {k}) = Cardinality(q.keys) + 1
    BY FS_AddElement DEF Line
  <1> QED BY <1>1, <1>2 DEF Line

\* A record with entries has an oldest one.
LEMMA OldestExists ==
  ASSUME NEW q, Line(q), q.keys # {}
  PROVE  Oldest(q) # {}
  <1> DEFINE Pred(k) == {l \in q.keys : <<l, k>> \in q.before}
             T == {Pred(k) : k \in q.keys}
  <1>1. IsWellFoundedOn(StrictSubsetOrdering(q.keys), SUBSET q.keys)
    <2>1. IsFiniteSet(q.keys)
      BY DEF Line
    <2>2. FiniteSubsetsOf(q.keys) = SUBSET q.keys
      BY ONLY <2>1, FS_FiniteSubsetsOfFinite
    <2>3. IsWellFoundedOn(StrictSubsetOrdering(q.keys), FiniteSubsetsOf(q.keys))
      BY ONLY FS_StrictSubsetOrderingWellFounded
    <2> QED BY ONLY <2>2, <2>3
  <1>2. T \subseteq SUBSET q.keys /\ T # {}
    OBVIOUS
  <1>3. \E x \in T : \A y \in T : <<y, x>> \notin StrictSubsetOrdering(q.keys)
    <2> HIDE DEF T
    <2> QED BY <1>1, <1>2, WFMin
  <1>4. PICK k \in q.keys :
          \A l \in q.keys : <<Pred(l), Pred(k)>> \notin StrictSubsetOrdering(q.keys)
    BY <1>3
  <1>5. ASSUME NEW l \in q.keys, l # k PROVE <<k, l>> \in q.before
    <2>1. SUFFICES ASSUME <<l, k>> \in q.before PROVE FALSE
      BY <1>5 DEF Line
    <2>2. Pred(l) \subseteq Pred(k) /\ l \in Pred(k) /\ l \notin Pred(l)
      BY <2>1 DEF Line
    <2>3. <<Pred(l), Pred(k)>> \in StrictSubsetOrdering(q.keys)
      <3>1. Pred(l) \in SUBSET q.keys /\ Pred(k) \in SUBSET q.keys
        OBVIOUS
      <3> HIDE DEF Pred
      <3> QED BY <2>2, <3>1 DEF StrictSubsetOrdering
    <2> QED BY <1>4, <2>3
  <1> QED BY <1>5 DEF Oldest

\* Room for one more is made, and only the oldest entry gives way for it.
LEMMA RoomLine ==
  ASSUME NEW q, NEW cap \in Nat \ {0}, WithinCap(q, cap)
  PROVE  /\ Line(MakeRoom(q, cap)) /\ MakeRoom(q, cap).keys \subseteq q.keys
         /\ Cardinality(MakeRoom(q, cap).keys) < cap
  <1>1. Cardinality(q.keys) \in Nat
    BY FS_CardinalityType DEF WithinCap, Line
  <1>2. CASE Cardinality(q.keys) < cap
    BY <1>2 DEF MakeRoom, WithinCap
  <1>3. CASE Cardinality(q.keys) = cap
    <2> DEFINE rest == q.keys \ Oldest(q)
    <2>1. MakeRoom(q, cap) = Keep(q, rest)
      BY <1>1, <1>3 DEF MakeRoom
    <2>2. Line(Keep(q, rest)) /\ Keep(q, rest).keys = rest
      BY KeepLine DEF WithinCap
    <2>3. q.keys # {}
      BY <1>3, FS_EmptySet
    <2>4. rest # q.keys
      BY <2>3, OldestExists DEF WithinCap, Oldest
    <2>5. /\ Cardinality(rest) <= Cardinality(q.keys) /\ Cardinality(rest) # Cardinality(q.keys)
          /\ Cardinality(rest) \in Nat
      BY <2>4, FS_Subset, FS_CardinalityType DEF WithinCap, Line
    <2> HIDE DEF rest
    <2> QED BY <1>1, <1>3, <2>1, <2>2, <2>5, KeepLine DEF WithinCap
  <1> QED BY <1>1, <1>2, <1>3 DEF WithinCap

\* Keeping a part of a record keeps it within the cap.
LEMMA KeepCapped ==
  ASSUME NEW q, NEW cap \in Nat, WithinCap(q, cap), NEW K
  PROVE  WithinCap(Keep(q, K), cap)
  <1>1. IsFiniteSet(Keep(q, K).keys) /\ IsFiniteSet(q.keys)
    BY KeepLine DEF WithinCap, Line
  <1>2. Cardinality(Keep(q, K).keys) \in Nat /\ Cardinality(q.keys) \in Nat
    BY <1>1, FS_CardinalityType
  <1> QED BY <1>2, KeepLine DEF WithinCap

\* A new entry, after room was made for it, leaves the record within its cap.
LEMMA PushCapped ==
  ASSUME NEW q, NEW cap \in Nat \ {0}, WithinCap(q, cap), NEW k, k \notin q.keys
  PROVE  WithinCap(Push(MakeRoom(q, cap), k), cap)
  <1> DEFINE r == MakeRoom(q, cap)
  <1>1. Line(r) /\ r.keys \subseteq q.keys /\ Cardinality(r.keys) < cap
    BY RoomLine
  <1>2. Cardinality(r.keys) \in Nat
    BY <1>1, FS_CardinalityType DEF Line
  <1> HIDE DEF r
  <1>3. Line(Push(r, k)) /\ Cardinality(Push(r, k).keys) = Cardinality(r.keys) + 1
    BY <1>1, PushLine
  <1>4. Cardinality(Push(r, k).keys) <= cap
    BY <1>1, <1>2, <1>3
  <1> QED BY <1>3, <1>4 DEF WithinCap, r

\* Moving a key to the end, or adding it there, keeps the line.
LEMMA LastLine ==
  ASSUME NEW q, Line(q), NEW k
  PROVE  Line(Push(Keep(q, q.keys \ {k}), k))
  <1>1. Line(Keep(q, q.keys \ {k})) /\ k \notin Keep(q, q.keys \ {k}).keys
    BY KeepLine
  <1> QED BY <1>1, PushLine

\* Moving a key to the end keeps a record within the cap.
LEMMA MoveCapped ==
  ASSUME NEW q, NEW cap \in Nat, WithinCap(q, cap), NEW k \in q.keys
  PROVE  WithinCap(MoveToEnd(q, k), cap)
  <1>1. Line(MoveToEnd(q, k))
    BY LastLine DEF MoveToEnd, WithinCap
  <1>2. MoveToEnd(q, k).keys = q.keys
    BY DEF MoveToEnd, Push, Keep
  <1> QED BY <1>1, <1>2 DEF WithinCap

=============================================================================
