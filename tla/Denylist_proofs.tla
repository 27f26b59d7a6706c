--------------------------- MODULE Denylist_proofs ---------------------------
(***************************************************************************)
(* Proofs about Denylist, for all tokens, expiries, caps, limits, windows  *)
(* and any number of restarts.                                             *)
(***************************************************************************)
EXTENDS Denylist, OrderedDict_proofs

USE DenylistAssumption

\* Where an acknowledged revocation is.
Covered(t) == t \in denied.keys \/ now > Exp[t] \/ t \in lost

\* What keeps AckedIsRefused: a post that was answered 2xx left its jti on the
\* list, and a leg is acknowledged only by such an answer.
DenyInv ==
  \A t \in Tokens :
    /\ \A n \in {1, 2} : post[<<t, n>>] = "ok" => Covered(t)
    /\ leg[t] = "acked" => Covered(t)

\* What keeps RateBound: the bucket holds every post the window may still hold,
\* and never more than Limit; a post is let in once.
RateInv ==
  /\ \A p \in Posts : letIn[p] # None =>
       letIn[p] <= now /\ post[p] \in {"ok", "refused"}
  /\ \A p \in bucket : letIn[p] # None
  /\ \A p \in Posts : letIn[p] # None /\ letIn[p] + Window >= now => p \in bucket
  /\ IsFiniteSet(bucket) /\ Cardinality(bucket) <= Limit
  /\ RateBound

\* Each attempt of a leg is posted once.
LegInv ==
  \A t \in Tokens :
    /\ leg[t] = "idle" => post[<<t, 1>>] = "idle"
    /\ leg[t] \in {"idle", "first", "pause"} => post[<<t, 2>>] = "idle"

\* The jtis added, or added again, after t.
After(t) == {o \in added.keys : <<t, o>> \in added.before}

\* What keeps the list within its cap, and makes what it drops the oldest: until
\* a restart the list has the order of all that was added, and what it dropped
\* before its exp has Cap others after it.
RecentInv ==
  /\ WithinCap(denied, Cap) /\ Line(added)
  /\ restarts = 0 =>
       /\ denied.keys \subseteq added.keys
       /\ denied.before = added.before \cap (denied.keys \X denied.keys)
       /\ \A t \in added.keys : t \in denied.keys \/ now > Exp[t] \/ Cardinality(After(t)) >= Cap

IInv == Typed /\ LegInv /\ DenyInv /\ RateInv /\ RecentInv

-----------------------------------------------------------------------------

\* A token has two posts, one per attempt of its leg.
LEMMA PostsType == \A t \in Tokens, n \in {1, 2} : <<t, n>> \in Posts
  BY DEF Posts

\* What Add does to the list, and what it may lose.
LEMMA AddOK ==
  ASSUME Typed, NEW t \in Tokens, Add(t)
  PROVE  /\ denied' \in Ordered(Tokens) /\ lost' \subseteq Tokens
         /\ t \in denied'.keys /\ lost \subseteq lost'
         /\ \A o \in denied.keys : o \in denied'.keys \/ o \in lost'
  <1>1. denied \in Ordered(Tokens)
    BY DEF Typed
  <1>2. CASE t \in denied.keys
    <2>1. denied' = MoveToEnd(denied, t) /\ lost' = lost
      BY <1>2 DEF Add
    <2>2. denied' \in Ordered(Tokens) /\ denied'.keys = denied.keys
      BY <1>1, <1>2, <2>1, MoveType
    <2> QED BY <1>2, <2>1, <2>2 DEF Typed
  <1>3. CASE t \notin denied.keys
    <2> DEFINE kept == MakeRoom(denied, Cap)
    <2>1. denied' = Push(kept, t) /\ lost' = lost \cup (denied.keys \ kept.keys)
      BY <1>3 DEF Add
    <2>2. kept \in Ordered(Tokens) /\ kept.keys \subseteq denied.keys
      BY <1>1, RoomType
    <2> HIDE DEF kept
    <2>3. denied' \in Ordered(Tokens) /\ denied'.keys = kept.keys \cup {t}
      BY <2>1, <2>2, PushType
    <2> QED BY <1>1, <2>1, <2>2, <2>3 DEF Typed, Ordered
  <1> QED BY <1>2, <1>3

\* Nothing was posted, nothing is denied: the invariant holds.
LEMMA InitOK == Init => IInv
  <1> SUFFICES ASSUME Init PROVE IInv
    OBVIOUS
  <1>1. Typed
    BY DEF Init, Typed, Ordered, Empty
  <1>2. DenyInv
    BY PostsType DEF Init, DenyInv
  <1>3. RateInv
    <2>1. IsFiniteSet(bucket) /\ Cardinality(bucket) = 0
      BY FS_EmptySet DEF Init
    <2>2. \A w \in 0 .. MaxTime :
            {p \in Posts : letIn[p] # None /\ w <= letIn[p] /\ letIn[p] <= w + Window} = {}
      BY DEF Init
    <2>3. RateBound
      BY <2>2, FS_EmptySet DEF RateBound
    <2> QED BY <2>1, <2>3 DEF Init, RateInv
  <1>4. LegInv
    BY PostsType DEF Init, LegInv
  <1>5. RecentInv
    <2>1. Line(Empty) /\ WithinCap(Empty, Cap)
      BY EmptyLine DEF WithinCap
    <2> QED BY <2>1 DEF Init, RecentInv, Empty
  <1> QED BY <1>1, <1>2, <1>3, <1>4, <1>5 DEF IInv

\* Every step keeps the types.
LEMMA TypeStep == Typed /\ [Next]_vars => Typed'
  <1> SUFFICES ASSUME Typed, [Next]_vars PROVE Typed'
    OBVIOUS
  <1>1. ASSUME NEW t \in Tokens, FanOut(t) \/ LegAcked(t) \/ AttemptFails(t) \/ Retry(t)
        PROVE  Typed'
    BY <1>1, PostsType DEF Typed, FanOut, LegAcked, AttemptFails, Retry, receiver
  <1>2. ASSUME NEW t \in Tokens, NEW n \in {1, 2}, Receive(t, n) PROVE Typed'
    <2> DEFINE p == <<t, n>>
    <2>1. p \in Posts
      BY PostsType
    <2>2. CASE RateLimited(p) /\ UNCHANGED <<denied, added, lost>>
      BY <1>2, <2>1, <2>2 DEF Typed, Receive, RateLimited, InWindow
    <2>3. CASE LetIn(p) /\ Add(t)
      <3>1. denied' \in Ordered(Tokens) /\ lost' \subseteq Tokens
        BY <2>3, AddOK
      <3>2. added' = Push(Keep(added, added.keys \ {t}), t)
            \/ UNCHANGED added
        BY <1>2 DEF Receive
      <3>3. added' \in Ordered(Tokens)
        <4>1. Keep(added, added.keys \ {t}) \in Ordered(Tokens)
          BY KeepType DEF Typed
        <4> QED BY <3>2, <4>1, PushType DEF Typed
      <3>4. bucket' \subseteq Posts /\ letIn' \in [Posts -> 0 .. MaxTime \cup {None}]
        BY <2>1, <2>3 DEF Typed, LetIn, InWindow
      <3>5. /\ post' \in [Posts -> {"idle", "sent", "ok", "refused"}]
            /\ UNCHANGED <<now, restarts, leg>>
        BY <1>2, <2>1 DEF Typed, Receive
      <3> QED BY <3>1, <3>3, <3>4, <3>5 DEF Typed
    <2> QED BY <1>2, <2>2, <2>3 DEF Receive
  <1>3. ASSUME NEW p \in Strays, ReceiveStray(p) PROVE Typed'
    <2>1. p \in Posts
      BY DEF Posts
    <2> QED BY <1>3, <2>1 DEF Typed, ReceiveStray, RateLimited, LetIn, InWindow
  <1>4. CASE Sweep
    BY <1>4, KeepType DEF Typed, Sweep
  <1>5. CASE Restart
    BY <1>5 DEF Typed, Restart, Ordered, Empty
  <1>6. CASE Tick
    BY <1>6 DEF Typed, Tick, receiver
  <1>7. CASE UNCHANGED vars
    BY <1>7 DEF Typed, vars
  <1> QED BY <1>1, <1>2, <1>3, <1>4, <1>5, <1>6, <1>7 DEF Next

\* Every step keeps LegInv.
LEMMA LegStep == Typed /\ LegInv /\ [Next]_vars => LegInv'
  <1> SUFFICES ASSUME Typed, LegInv, [Next]_vars PROVE LegInv'
    OBVIOUS
  <1>1. ASSUME NEW t \in Tokens, FanOut(t) \/ LegAcked(t) \/ AttemptFails(t) \/ Retry(t)
        PROVE  LegInv'
    <2>1. CASE FanOut(t)
      <3>1. /\ leg' = [leg EXCEPT ![t] = "first"]
            /\ post' = [post EXCEPT ![<<t, 1>>] = "sent"] /\ leg[t] = "idle"
        BY <2>1 DEF FanOut
      <3>2. \A q \in Posts : q # <<t, 1>> => post'[q] = post[q]
        BY <3>1 DEF Typed
      <3>3. \A o \in Tokens : o # t => leg'[o] = leg[o]
        BY <3>1 DEF Typed
      <3>4. \A o \in Tokens : <<o, 2>> # <<t, 1>> /\ (o # t => <<o, 1>> # <<t, 1>>)
        OBVIOUS
      <3>5. leg'[t] = "first"
        BY <3>1 DEF Typed
      <3> QED BY <3>1, <3>2, <3>3, <3>4, <3>5, PostsType DEF LegInv
    <2>2. CASE LegAcked(t) \/ AttemptFails(t)
      BY <2>2 DEF Typed, LegInv, LegAcked, AttemptFails
    <2>3. CASE Retry(t)
      <3>1. /\ leg' = [leg EXCEPT ![t] = "second"]
            /\ post' = [post EXCEPT ![<<t, 2>>] = "sent"]
        BY <2>3 DEF Retry
      <3>2. \A q \in Posts : q # <<t, 2>> => post'[q] = post[q]
        BY <3>1 DEF Typed
      <3>3. leg'[t] = "second" /\ \A o \in Tokens : o # t => leg'[o] = leg[o]
        BY <3>1 DEF Typed
      <3>4. \A o \in Tokens : <<o, 1>> # <<t, 2>> /\ (o # t => <<o, 2>> # <<t, 2>>)
        OBVIOUS
      <3> QED BY <3>2, <3>3, <3>4, PostsType DEF LegInv
    <2> QED BY <1>1, <2>1, <2>2, <2>3
  <1>2. ASSUME NEW t \in Tokens, NEW n \in {1, 2}, Receive(t, n) PROVE LegInv'
    <2>1. /\ post[<<t, n>>] = "sent" /\ leg' = leg
          /\ \A q \in Posts : q # <<t, n>> => post'[q] = post[q]
      BY <1>2 DEF Typed, Receive
    <2> QED BY <2>1, PostsType DEF LegInv
  <1>3. ASSUME NEW p \in Strays, ReceiveStray(p) PROVE LegInv'
    <2>1. leg' = leg /\ \A q \in Tokens \X {1, 2} : post'[q] = post[q]
      BY <1>3 DEF Typed, ReceiveStray, Posts
    <2> QED BY <2>1 DEF LegInv
  <1>4. CASE Sweep \/ Restart \/ Tick \/ UNCHANGED vars
    BY <1>4 DEF Sweep, Restart, Tick, vars, LegInv
  <1> QED BY <1>1, <1>2, <1>3, <1>4 DEF Next

\* Every step keeps DenyInv.
LEMMA DenyStep == IInv /\ [Next]_vars => DenyInv'
  <1> SUFFICES ASSUME Typed, DenyInv, [Next]_vars PROVE DenyInv'
    BY DEF IInv
  <1> USE DEF DenyInv, Covered
  <1>1. ASSUME NEW t \in Tokens, FanOut(t) \/ LegAcked(t) \/ AttemptFails(t) \/ Retry(t)
        PROVE  DenyInv'
    <2>1. UNCHANGED <<now, denied, lost>>
      BY <1>1 DEF FanOut, LegAcked, AttemptFails, Retry, receiver
    <2>2. \A p \in Posts : post'[p] = "ok" => post[p] = "ok"
      BY <1>1, PostsType DEF FanOut, LegAcked, AttemptFails, Retry, Typed
    <2>3. \A o \in Tokens : leg'[o] = "acked" =>
            leg[o] = "acked" \/ \E n \in {1, 2} : post[<<o, n>>] = "ok"
      BY <1>1 DEF FanOut, LegAcked, AttemptFails, Retry, Typed
    <2> QED BY <2>1, <2>2, <2>3, PostsType
  <1>2. ASSUME NEW t \in Tokens, NEW n \in {1, 2}, Receive(t, n) PROVE DenyInv'
    <2> DEFINE p == <<t, n>>
    <2>1. p \in Posts /\ \A q \in Posts : q # p => post'[q] = post[q]
      BY <1>2, PostsType DEF Receive, Typed
    <2>2. CASE post' = [post EXCEPT ![p] = "refused"] /\ UNCHANGED <<denied, added, lost>>
      <3>1. post'[p] = "refused" /\ UNCHANGED <<now, leg>>
        BY <1>2, <2>1, <2>2 DEF Typed, Receive
      <3>2. \A q \in Posts : post'[q] = "ok" => post[q] = "ok"
        BY <2>1, <3>1
      <3> QED BY <2>2, <3>1, <3>2, PostsType
    <2>3. CASE Add(t) /\ post' = [post EXCEPT ![p] = "ok"]
      <3>1. /\ t \in denied'.keys /\ lost \subseteq lost'
            /\ \A o \in denied.keys : o \in denied'.keys \/ o \in lost'
        BY <2>3, AddOK
      <3>2. UNCHANGED <<now, restarts, leg>>
        BY <1>2 DEF Receive
      <3>3. \A o \in Tokens : Covered(o) => Covered(o)'
        BY <3>1, <3>2
      <3>4. \A o \in Tokens, m \in {1, 2} : <<o, m>> # p => post'[<<o, m>>] = post[<<o, m>>]
        BY <2>1, PostsType
      <3>5. \A o \in Tokens, m \in {1, 2} : <<o, m>> = p => o = t
        OBVIOUS
      <3>6. Covered(t)'
        BY <3>1
      <3> HIDE DEF p
      <3> QED BY <3>2, <3>3, <3>4, <3>5, <3>6
    <2> QED BY <1>2, <2>2, <2>3 DEF Receive
  <1>3. ASSUME NEW p \in Strays, ReceiveStray(p) PROVE DenyInv'
    <2>1. UNCHANGED <<now, leg, denied, lost>>
          /\ \A q \in Tokens \X {1, 2} : post'[q] = post[q]
      BY <1>3 DEF Typed, ReceiveStray, Posts
    <2> QED BY <2>1
  <1>4. CASE Sweep
    <2>1. denied'.keys = denied.keys \cap {t \in denied.keys : Exp[t] >= now}
      BY <1>4 DEF Sweep, Keep
    <2>2. UNCHANGED <<now, leg, post, lost>>
      BY <1>4 DEF Sweep
    <2>3. now \in Nat /\ \A t \in Tokens : Exp[t] \in Nat
      BY DEF Typed
    <2>4. \A t \in Tokens : Covered(t) => Covered(t)'
      BY <2>1, <2>2, <2>3
    <2> QED BY <2>2, <2>4
  <1>5. CASE Restart
    BY <1>5 DEF Restart
  <1>6. CASE Tick
    <2>1. now' = now + 1 /\ UNCHANGED <<leg, post, denied, lost>>
      BY <1>6 DEF Tick, receiver
    <2>2. now \in Nat /\ \A t \in Tokens : Exp[t] \in Nat
      BY DEF Typed
    <2>3. \A t \in Tokens : Covered(t) => Covered(t)'
      BY <2>1, <2>2
    <2> QED BY <2>1, <2>3
  <1>7. CASE UNCHANGED vars
    BY <1>7 DEF vars
  <1> QED BY <1>1, <1>2, <1>3, <1>4, <1>5, <1>6, <1>7 DEF Next

\* A post through the rate limit, let in or not, keeps the bucket's promise.
LEMMA RateLimitOK ==
  ASSUME Typed, RateInv, NEW p \in Posts, post[p] \in {"idle", "sent"},
         RateLimited(p) \/ LetIn(p), UNCHANGED now,
         post'[p] \in {"ok", "refused"}, \A q \in Posts \ {p} : post'[q] = post[q]
  PROVE  RateInv'
  <1>1. letIn[p] = None
    BY DEF RateInv
  <1>2. IsFiniteSet(InWindow) /\ Cardinality(InWindow) <= Limit /\ InWindow \subseteq bucket
    <2>1. InWindow \subseteq bucket
      BY DEF InWindow
    <2>2. Cardinality(bucket) \in Nat /\ Cardinality(InWindow) \in Nat /\ IsFiniteSet(InWindow)
          /\ Cardinality(InWindow) <= Cardinality(bucket)
      BY <2>1, FS_Subset, FS_CardinalityType DEF RateInv
    <2> QED BY <2>1, <2>2 DEF RateInv
  <1>3. CASE RateLimited(p)
    <2>1. bucket' = InWindow /\ UNCHANGED letIn
      BY <1>3 DEF RateLimited
    <2>2. \A q \in Posts : letIn[q] # None /\ letIn[q] + Window >= now => q \in InWindow
      BY DEF RateInv, InWindow
    <2>3. RateBound'
      BY <2>1 DEF RateInv, RateBound
    <2> QED BY <1>1, <1>2, <2>1, <2>2, <2>3 DEF RateInv
  <1>4. CASE LetIn(p)
    <2>1. /\ bucket' = InWindow \cup {p} /\ letIn' = [letIn EXCEPT ![p] = now]
          /\ Cardinality(InWindow) < Limit
      BY <1>4 DEF LetIn
    <2>2. IsFiniteSet(bucket') /\ Cardinality(bucket') <= Limit
      <3>1. p \notin InWindow
        BY <1>1 DEF InWindow, RateInv
      <3>2. IsFiniteSet(bucket') /\ Cardinality(bucket') = Cardinality(InWindow) + 1
        BY <1>2, <2>1, <3>1, FS_AddElement
      <3>3. Cardinality(InWindow) \in Nat
        BY <1>2, FS_CardinalityType
      <3> QED BY <2>1, <3>2, <3>3
    <2>3. now # None /\ letIn'[p] = now /\ \A q \in Posts \ {p} : letIn'[q] = letIn[q]
      BY <2>1 DEF Typed
    <2>4. \A q \in Posts : letIn'[q] # None /\ letIn'[q] + Window >= now => q \in bucket'
      BY <2>1, <2>3 DEF RateInv, InWindow
    <2>5. RateBound'
      <3> SUFFICES ASSUME NEW w \in 0 .. MaxTime
          PROVE  Cardinality({q \in Posts : letIn'[q] # None /\ w <= letIn'[q]
                                            /\ letIn'[q] <= w + Window}) <= Limit
        BY DEF RateBound
      <3> DEFINE W(f) == {q \in Posts : f[q] # None /\ w <= f[q] /\ f[q] <= w + Window}
      <3>1. CASE w <= now /\ now <= w + Window
        <4>1. W(letIn') \subseteq bucket'
          BY <2>3, <2>4, <3>1 DEF Typed
        <4>2. Cardinality(W(letIn')) <= Cardinality(bucket') /\ Cardinality(W(letIn')) \in Nat
              /\ Cardinality(bucket') \in Nat
          BY <2>2, <4>1, FS_Subset, FS_CardinalityType
        <4> QED BY <2>2, <4>2
      <3>2. CASE ~(w <= now /\ now <= w + Window)
        <4>1. W(letIn') = W(letIn)
          BY <1>1, <2>3, <3>2
        <4> QED BY <4>1 DEF RateInv, RateBound
      <3> QED BY <3>1, <3>2
    <2>6. \A q \in Posts : letIn'[q] # None => letIn'[q] <= now /\ post'[q] \in {"ok", "refused"}
      BY <2>3 DEF RateInv, Typed
    <2>7. \A q \in bucket' : letIn'[q] # None
      BY <2>1, <2>3 DEF RateInv, InWindow, Typed
    <2> QED BY <2>2, <2>4, <2>5, <2>6, <2>7 DEF RateInv
  <1> QED BY <1>3, <1>4

\* Every step keeps RateInv.
LEMMA RateStep == IInv /\ [Next]_vars => RateInv'
  <1> SUFFICES ASSUME Typed, LegInv, RateInv, [Next]_vars PROVE RateInv'
    BY DEF IInv
  <1>1. ASSUME NEW t \in Tokens, FanOut(t) \/ LegAcked(t) \/ AttemptFails(t) \/ Retry(t)
        PROVE  RateInv'
    <2>1. UNCHANGED <<now, bucket, letIn>>
      BY <1>1 DEF FanOut, LegAcked, AttemptFails, Retry, receiver
    <2>2. RateBound'
      BY <2>1 DEF RateInv, RateBound
    <2>3. \A p \in Posts : post[p] \in {"ok", "refused"} => post'[p] = post[p]
      BY <1>1, PostsType DEF FanOut, LegAcked, AttemptFails, Retry, LegInv, Typed
    <2> QED BY <2>1, <2>2, <2>3 DEF RateInv
  <1>2. ASSUME NEW t \in Tokens, NEW n \in {1, 2}, Receive(t, n) PROVE RateInv'
    <2>1. <<t, n>> \in Posts /\ post[<<t, n>>] \in {"idle", "sent"}
      BY <1>2, PostsType DEF Receive
    <2> QED BY <1>2, <2>1, RateLimitOK DEF Receive, Typed
  <1>3. ASSUME NEW p \in Strays, ReceiveStray(p) PROVE RateInv'
    <2>1. p \in Posts /\ post[p] \in {"idle", "sent"}
      BY <1>3 DEF ReceiveStray, Posts
    <2> QED BY <1>3, <2>1, RateLimitOK DEF ReceiveStray, Typed
  <1>4. CASE Sweep
    <2>1. UNCHANGED <<now, post, bucket, letIn>>
      BY <1>4 DEF Sweep
    <2> QED BY <2>1 DEF RateInv, RateBound
  <1>5. CASE Restart
    <2>1. bucket' = {} /\ (\A p \in Posts : letIn'[p] = None) /\ UNCHANGED <<now, post>>
      BY <1>5 DEF Restart
    <2>2. IsFiniteSet(bucket') /\ Cardinality(bucket') <= Limit
      BY <2>1, FS_EmptySet
    <2>3. \A w \in 0 .. MaxTime :
            {p \in Posts : letIn'[p] # None /\ w <= letIn'[p] /\ letIn'[p] <= w + Window} = {}
      BY <2>1
    <2>4. RateBound'
      BY <2>3, FS_EmptySet DEF RateBound
    <2> QED BY <2>1, <2>2, <2>4 DEF RateInv
  <1>6. CASE Tick
    <2>1. now' = now + 1 /\ UNCHANGED <<post, bucket, letIn>>
      BY <1>6 DEF Tick, receiver
    <2>2. RateBound'
      BY <2>1 DEF RateInv, RateBound
    <2> QED BY <2>1, <2>2 DEF RateInv, Typed
  <1>7. CASE UNCHANGED vars
    <2>1. UNCHANGED <<now, post, bucket, letIn>>
      BY <1>7 DEF vars
    <2> QED BY <2>1 DEF RateInv, RateBound
  <1> QED BY <1>1, <1>2, <1>3, <1>4, <1>5, <1>6, <1>7 DEF Next

\* An accepted post moves its jti to the end of all that was added: what comes
\* after another jti only grows.
LEMMA AddedOK ==
  ASSUME Line(added), NEW t \in Tokens,
         added' = Push(Keep(added, added.keys \ {t}), t)
  PROVE  /\ Line(added') /\ added'.keys = added.keys \cup {t}
         /\ added'.before = (added.before \cap ((added.keys \ {t}) \X (added.keys \ {t})))
                            \cup ((added.keys \ {t}) \X {t})
         /\ \A o \in added.keys \ {t} :
              /\ After(o)' = After(o) \cup {t}
              /\ Cardinality(After(o)') >= Cardinality(After(o))
              /\ Cardinality(After(o)) \in Nat /\ Cardinality(After(o)') \in Nat
  <1> DEFINE rest == added.keys \ {t}
  <1>1. /\ added'.keys = rest \cup {t}
        /\ added'.before = (added.before \cap (rest \X rest)) \cup (rest \X {t})
    BY DEF Push, Keep
  <1>2. Line(added')
    BY LastLine
  <1>3. ASSUME NEW o \in added.keys \ {t}
        PROVE  /\ After(o)' = After(o) \cup {t}
               /\ Cardinality(After(o)') >= Cardinality(After(o))
               /\ Cardinality(After(o)) \in Nat /\ Cardinality(After(o)') \in Nat
    <2>1. After(o)' = After(o) \cup {t}
      BY <1>1, <1>3 DEF After
    <2>2. After(o) \subseteq After(o)' /\ After(o)' \subseteq added'.keys
      BY <2>1 DEF After
    <2>3. IsFiniteSet(After(o)')
      BY <1>2, <2>2, FS_Subset DEF Line
    <2>4. IsFiniteSet(After(o)) /\ Cardinality(After(o)) <= Cardinality(After(o)')
      BY <2>2, <2>3, FS_Subset
    <2> QED BY <2>1, <2>3, <2>4, FS_CardinalityType
  <1> QED BY <1>1, <1>2, <1>3

\* Every step keeps RecentInv.
LEMMA RecentStep == IInv /\ [Next]_vars => RecentInv'
  <1> SUFFICES ASSUME Typed, RecentInv, [Next]_vars PROVE RecentInv'
    BY DEF IInv
  <1>1. ASSUME UNCHANGED <<now, restarts, denied, added>> PROVE RecentInv'
    <2>1. \A t : After(t)' = After(t)
      BY <1>1 DEF After
    <2> QED BY <1>1, <2>1 DEF RecentInv
  <1>2. ASSUME NEW t \in Tokens, Add(t), UNCHANGED <<now, restarts>>,
               added' = Push(Keep(added, added.keys \ {t}), t)
        PROVE  RecentInv'
    <2> DEFINE rest == added.keys \ {t}
    <2>1. /\ Line(added') /\ added'.keys = added.keys \cup {t}
          /\ added'.before = (added.before \cap (rest \X rest)) \cup (rest \X {t})
          /\ \A o \in rest :
               /\ After(o)' = After(o) \cup {t}
               /\ Cardinality(After(o)') >= Cardinality(After(o))
               /\ Cardinality(After(o)) \in Nat /\ Cardinality(After(o)') \in Nat
      BY <1>2, AddedOK DEF RecentInv
    <2>2. Line(denied) /\ WithinCap(denied, Cap)
      BY DEF RecentInv, WithinCap
    <2>3. CASE t \in denied.keys
      <3>1. denied' = MoveToEnd(denied, t)
        BY <1>2, <2>3 DEF Add
      <3>2. WithinCap(denied', Cap)
        BY <2>2, <2>3, <3>1, MoveCapped
      <3>3. /\ denied'.keys = denied.keys
            /\ denied'.before = (denied.before \cap ((denied.keys \ {t}) \X (denied.keys \ {t})))
                                \cup ((denied.keys \ {t}) \X {t})
        BY <2>3, <3>1 DEF MoveToEnd, Push, Keep
      <3>4. ASSUME restarts' = 0
            PROVE  /\ denied'.keys \subseteq added'.keys
                   /\ denied'.before = added'.before \cap (denied'.keys \X denied'.keys)
        <4>1. /\ denied.keys \subseteq added.keys
              /\ denied.before = added.before \cap (denied.keys \X denied.keys)
          BY <1>2, <3>4 DEF RecentInv
        <4> QED BY <2>1, <2>3, <3>3, <4>1
      <3>5. ASSUME restarts' = 0, NEW o \in added'.keys
            PROVE  o \in denied'.keys \/ now' > Exp[o] \/ Cardinality(After(o)') >= Cap
        <4>1. CASE o = t
          BY <2>3, <3>3, <4>1
        <4>2. CASE o # t
          <5>1. o \in rest /\ (o \in denied.keys \/ now > Exp[o] \/ Cardinality(After(o)) >= Cap)
            BY <1>2, <2>1, <3>5, <4>2 DEF RecentInv
          <5> QED BY <1>2, <2>1, <3>3, <5>1
        <4> QED BY <4>1, <4>2
      <3> QED BY <2>1, <3>2, <3>4, <3>5 DEF RecentInv
    <2>4. CASE t \notin denied.keys
      <3> DEFINE kept == MakeRoom(denied, Cap)
      <3>1. denied' = Push(kept, t)
        BY <1>2, <2>4 DEF Add
      <3>2. WithinCap(denied', Cap)
        BY <2>2, <2>4, <3>1, PushCapped
      <3>3. /\ kept.keys \subseteq denied.keys
            /\ kept.before = denied.before \cap (kept.keys \X kept.keys)
        <4>1. denied.before = denied.before \cap (denied.keys \X denied.keys)
          BY <2>2 DEF Line
        <4>2. kept = denied \/ kept = Keep(denied, denied.keys \ Oldest(denied))
          BY DEF MakeRoom
        <4> HIDE DEF kept
        <4> QED BY <4>1, <4>2 DEF Keep
      <3>4. /\ denied'.keys = kept.keys \cup {t}
            /\ denied'.before = kept.before \cup (kept.keys \X {t})
        BY <3>1 DEF Push
      <3>5. ASSUME NEW o \in denied.keys \ kept.keys, restarts = 0
            PROVE  Cardinality(After(o)') >= Cap
        <4>1. Cardinality(denied.keys) >= Cap /\ o \in Oldest(denied)
          <5>1. ~ Cardinality(denied.keys) < Cap /\ o \notin Keep(denied, denied.keys \ Oldest(denied)).keys
            BY <3>5 DEF MakeRoom
          <5>2. Cardinality(denied.keys) \in Nat /\ Cap \in Nat
            BY <2>2, FS_CardinalityType DEF Line
          <5> QED BY <3>5, <5>1, <5>2 DEF Keep
        <4>2. denied.keys \subseteq added.keys
              /\ denied.before \subseteq added.before
          BY <3>5 DEF RecentInv
        <4>3. denied.keys \ {o} \subseteq After(o)
          BY <4>1, <4>2 DEF Oldest, After
        <4>4. (denied.keys \ {o}) \cup {t} \subseteq After(o)'
          BY <2>1, <2>4, <4>2, <4>3
        <4>5. IsFiniteSet(After(o)')
          <5>1. After(o)' \subseteq added'.keys /\ IsFiniteSet(added'.keys)
            BY <2>1 DEF Line, After
          <5> QED BY <5>1, FS_Subset
        <4>6. /\ IsFiniteSet(denied.keys \ {o})
              /\ Cardinality(denied.keys \ {o}) = Cardinality(denied.keys) - 1
          BY <2>2, FS_RemoveElement DEF Line
        <4>7. Cardinality((denied.keys \ {o}) \cup {t}) = Cardinality(denied.keys \ {o}) + 1
          BY <2>4, <4>6, FS_AddElement
        <4>8. Cardinality((denied.keys \ {o}) \cup {t}) <= Cardinality(After(o)')
          BY <4>4, <4>5, FS_Subset
        <4>9. Cardinality(denied.keys) \in Nat /\ Cardinality(After(o)') \in Nat
          BY <2>2, <4>5, FS_CardinalityType DEF Line
        <4> QED BY <4>1, <4>6, <4>7, <4>8, <4>9
      <3> HIDE DEF kept
      <3>6. ASSUME restarts' = 0
            PROVE  /\ denied'.keys \subseteq added'.keys
                   /\ denied'.before = added'.before \cap (denied'.keys \X denied'.keys)
        <4>1. /\ denied.keys \subseteq added.keys
              /\ denied.before = added.before \cap (denied.keys \X denied.keys)
          BY <1>2, <3>6 DEF RecentInv
        <4>2. kept.before = added.before \cap (kept.keys \X kept.keys)
          BY <3>3, <4>1
        <4>3. kept.keys \subseteq rest
          BY <2>4, <3>3, <4>1
        <4> QED BY <2>1, <3>4, <4>2, <4>3
      <3>7. ASSUME restarts' = 0, NEW o \in added'.keys
            PROVE  o \in denied'.keys \/ now' > Exp[o] \/ Cardinality(After(o)') >= Cap
        <4>1. CASE o = t
          BY <3>4, <4>1
        <4>2. CASE o # t
          <5>1. o \in rest /\ (o \in denied.keys \/ now > Exp[o] \/ Cardinality(After(o)) >= Cap)
            BY <1>2, <2>1, <3>7, <4>2 DEF RecentInv
          <5>2. CASE o \in denied.keys
            BY <1>2, <3>4, <3>5, <3>7, <5>2
          <5>3. CASE o \notin denied.keys
            BY <1>2, <2>1, <5>1, <5>3
          <5> QED BY <5>2, <5>3
        <4> QED BY <4>1, <4>2
      <3> QED BY <2>1, <3>2, <3>6, <3>7 DEF RecentInv
    <2> QED BY <2>3, <2>4
  <1>3. ASSUME NEW t \in Tokens, FanOut(t) \/ LegAcked(t) \/ AttemptFails(t) \/ Retry(t)
        PROVE  RecentInv'
    BY <1>1, <1>3 DEF FanOut, LegAcked, AttemptFails, Retry, receiver
  <1>4. ASSUME NEW t \in Tokens, NEW n \in {1, 2}, Receive(t, n) PROVE RecentInv'
    BY <1>1, <1>2, <1>4 DEF Receive
  <1>5. ASSUME NEW p \in Strays, ReceiveStray(p) PROVE RecentInv'
    BY <1>1, <1>5 DEF ReceiveStray
  <1>6. CASE Sweep
    <2> DEFINE K == {t \in denied.keys : Exp[t] >= now}
    <2>1. denied' = Keep(denied, K) /\ UNCHANGED <<now, restarts, added>>
      BY <1>6 DEF Sweep
    <2>2. WithinCap(denied', Cap)
      BY <2>1, KeepCapped DEF RecentInv
    <2>3. denied'.keys = K /\ denied'.before = denied.before \cap (K \X K)
      BY <2>1 DEF Keep
    <2>4. \A t \in denied.keys \ K : now > Exp[t]
      BY DEF Typed, Ordered
    <2>5. \A t : After(t)' = After(t)
      BY <2>1 DEF After
    <2> QED BY <2>1, <2>2, <2>3, <2>4, <2>5 DEF RecentInv
  <1>7. CASE Restart
    <2>1. denied' = Empty /\ restarts' = restarts + 1 /\ UNCHANGED added
      BY <1>7 DEF Restart
    <2>2. WithinCap(Empty, Cap) /\ restarts' # 0
      BY <2>1, EmptyLine DEF WithinCap, Typed
    <2> QED BY <2>1, <2>2 DEF RecentInv
  <1>8. CASE Tick
    <2>1. now' = now + 1 /\ UNCHANGED <<restarts, denied, added>>
      BY <1>8 DEF Tick, receiver
    <2>2. \A t : After(t)' = After(t)
      BY <2>1 DEF After
    <2>3. \A t \in added.keys : now > Exp[t] => now' > Exp[t]
      BY <2>1 DEF Typed, Ordered
    <2> QED BY <2>1, <2>2, <2>3 DEF RecentInv
  <1>9. CASE UNCHANGED vars
    BY <1>1, <1>9 DEF vars
  <1> QED BY <1>3, <1>4, <1>5, <1>6, <1>7, <1>8, <1>9 DEF Next

\* The strengthening is an invariant: where acknowledged revocations are, which
\* posts the bucket remembers, and what the list may have dropped.
THEOREM Inductive == Spec => []IInv
  <1>1. IInv /\ [Next]_vars => IInv'
    BY TypeStep, LegStep, DenyStep, RateStep, RecentStep DEF IInv
  <1> QED BY InitOK, <1>1, PTL DEF Spec

\* What a receiver acknowledged it refuses until the token has expired, retries,
\* duplicates, late posts and sweeps in any order; evictions and restarts apart.
THEOREM AcknowledgedIsRefused == Spec => []AckedIsRefused
  <1>1. IInv => AckedIsRefused
    BY DEF IInv, DenyInv, Covered, AckedIsRefused, Honoured
  <1> QED BY <1>1, Inductive, PTL

\* The sliding window of the rate limit is one: pruning the bucket never lets a
\* post in that the window has no room for.
THEOREM RateIsBounded == Spec => []RateBound
  <1>1. IInv => RateBound
    BY DEF IInv, RateInv
  <1> QED BY <1>1, Inductive, PTL

\* Whatever is posted, retried and swept, neither the list nor the bucket
\* outgrows its cap.
THEOREM ReceiverStaysCapped == Spec => []TypeOK
  <1>1. IInv => TypeOK
    BY DEF IInv, RateInv, RecentInv, WithinCap, TypeOK
  <1> QED BY <1>1, Inductive, PTL

\* The cap takes the least recently revoked jtis first: an unexpired jti is on the
\* list of a receiver that did not restart until Cap others come after it.
THEOREM RecentOnesStay == Spec => []RecentStay
  <1>1. IInv => RecentStay
    BY DEF IInv, RecentInv, RecentStay, After
  <1> QED BY <1>1, Inductive, PTL

=============================================================================
