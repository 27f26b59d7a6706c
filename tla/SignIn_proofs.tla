---------------------------- MODULE SignIn_proofs ----------------------------
(***************************************************************************)
(* Proofs about SignIn, for all users, login states, requests, logout      *)
(* tokens, caps and windows.                                               *)
(***************************************************************************)
EXTENDS SignIn, OrderedDict_proofs

USE SignInAssumption

\* What keeps OneExchangePerState and SignInStaysOpen: a pending login was drawn,
\* a popped one was too and is not pending any more, and a request pops once.
LoginInv ==
  /\ \A s \in logins.keys : issued[s] # None
  /\ \A x \in Requests : popped[x] # None =>
       issued[popped[x]] # None /\ popped[x] \notin logins.keys /\ session[x] # "idle"
  /\ OneExchangePerState
  /\ SignInStaysOpen

\* What keeps RunsOnce: a logout token whose cascade was asked for is in the
\* record, or was evicted, or is too old to be accepted at the present time.
TokenInv ==
  /\ \A t \in seen.keys : iat[t] # None
  /\ \A d \in Deliveries :
       phase[d] = "validating" => token[d] # None /\ iat[token[d]] # None
  /\ \A t \in Tokens : runs[t] # 0 =>
       /\ iat[t] # None
       /\ t \in seen.keys \/ t \in evicted \/ now > iat[t] + Tolerance
  /\ RunsOnce

\* What keeps both records within their caps.
CapInv == WithinCap(logins, LoginCap) /\ WithinCap(seen, SeenCap)

IInv == Typed /\ LoginInv /\ TokenInv /\ CapInv

-----------------------------------------------------------------------------

\* Nobody has begun to sign in: the invariant holds.
LEMMA InitOK == Init => IInv
  <1> SUFFICES ASSUME Init PROVE IInv
    OBVIOUS
  <1>1. Typed
    BY DEF Init, Typed, Ordered, Empty, Cascades
  <1>2. LoginInv
    BY DEF Init, LoginInv, OneExchangePerState, SignInStaysOpen, Empty
  <1>3. TokenInv
    BY DEF Init, TokenInv, RunsOnce, Empty, Cascades
  <1>4. CapInv
    <2>1. {LoginCap, SeenCap} \subseteq Nat
      OBVIOUS
    <2> QED BY <2>1, EmptyLine DEF Init, CapInv, WithinCap
  <1> QED BY <1>1, <1>2, <1>3, <1>4 DEF IInv

\* Every step keeps the types.
LEMMA TypeStep == Typed /\ TokenInv /\ [Next]_vars => Typed'
  <1> SUFFICES ASSUME Typed, TokenInv, [Next]_vars PROVE Typed'
    OBVIOUS
  <1> USE DEF Typed
  <1>1. ASSUME NEW s \in States, Login(s) PROVE Typed'
    <2>1. Fresh \in Ordered(States)
      BY KeepType DEF Fresh
    <2>2. logins' \in Ordered(States)
      BY <1>1, <2>1, RoomType, PushType DEF Login
    <2>3. crowded' \subseteq States
      BY <1>1, <2>1 DEF Login, Ordered
    <2> QED BY <1>1, <2>2, <2>3 DEF Login, sessVars, bclVars
  <1>2. ASSUME NEW s \in States, NEW x \in Requests, Exchange(x, s) PROVE Typed'
    <2>1. logins' \in Ordered(States)
      BY <1>2, KeepType DEF Exchange, Take
    <2> QED BY <1>2, <2>1 DEF Exchange, bclVars
  <1>3. ASSUME NEW x \in Requests, ExchangeEnds(x) PROVE Typed'
    BY <1>3 DEF ExchangeEnds, ExchangeFails, ExchangeDone, Register, loginVars, bclVars
  <1>4. ASSUME NEW x \in Requests, Logout(x) PROVE Typed'
    BY <1>4 DEF Logout, Stored, Cascades, loginVars, sessVars, bclVars
  <1>5. ASSUME NEW t \in Tokens, NEW at \in Times, Send(t, at) PROVE Typed'
    BY <1>5 DEF Send, loginVars, sessVars
  <1>6. ASSUME NEW t \in Tokens, NEW d \in Deliveries, Deliver(d, t) PROVE Typed'
    BY <1>6 DEF Deliver, Cascades, loginVars, sessVars
  <1>7. ASSUME NEW d \in Deliveries, Validated(d) PROVE Typed'
    <2>1. CASE Reject(d)
      BY <2>1 DEF Reject, Cascades, loginVars, sessVars, bclVars
    <2>2. CASE Accept(d) /\ Seen(token[d])
      <3>1. token[d] \in Tokens
        BY <2>2 DEF Accept, TokenInv
      <3>2. late' \subseteq Tokens
        BY <2>2, <3>1 DEF Accept
      <3>3. phase' \in [Cascades -> {"idle", "validating", "queued", "running", "answered"}]
        BY <2>2 DEF Accept, Cascades
      <3> QED BY <2>2, <3>2, <3>3 DEF Accept, loginVars, sessVars
    <2>3. CASE Accept(d) /\ ~Seen(token[d])
      <3>1. token[d] \in Tokens
        BY <2>3 DEF Accept, TokenInv
      <3>2. NamedUser(token[d]) \in Users \cup {None}
        BY <3>1 DEF NamedUser
      <3>3. seen' \in Ordered(Tokens) /\ evicted' \subseteq Tokens
        <4>1. Remember(token[d])
          BY <2>3 DEF Accept
        <4>2. seen \in Ordered(Tokens) /\ MakeRoom(seen, SeenCap) \in Ordered(Tokens)
          BY RoomType
        <4>3. seen' \in Ordered(Tokens)
          BY <3>1, <4>1, <4>2, PushType DEF Remember
        <4>4. evicted' \subseteq Tokens
          BY <4>1, <4>2 DEF Remember, Ordered
        <4> QED BY <4>3, <4>4
      <3> QED
        BY <2>3, <3>1, <3>2, <3>3 DEF Accept, Cascades, loginVars, sessVars
    <2> QED BY <1>7, <2>1, <2>2, <2>3 DEF Validated
  <1>8. ASSUME NEW c \in Cascades, CascadeStep(c) PROVE Typed'
    BY <1>8 DEF CascadeStep, CascadeStarts, CascadeEnds, Delete, Fence, loginVars, sessVars, bclVars
  <1>9. CASE Sweep
    BY <1>9, KeepType DEF Sweep, loginVars, sessVars
  <1>10. CASE Tick
    BY <1>10 DEF Tick, loginVars, sessVars, bclVars
  <1>11. CASE UNCHANGED vars
    BY <1>11 DEF vars, loginVars, sessVars, bclVars
  <1> QED
    BY <1>1, <1>2, <1>3, <1>4, <1>5, <1>6, <1>7, <1>8, <1>9, <1>10, <1>11 DEF Next

\* What the steps other than Login, Exchange and Tick leave to LoginInv.
LEMMA LoginFrame ==
  ASSUME LoginInv, UNCHANGED <<now, loginVars, popped>>,
         \A x \in Requests : session'[x] = "idle" => session[x] = "idle"
  PROVE  LoginInv'
  BY DEF LoginInv, OneExchangePerState, SignInStaysOpen, loginVars

\* Every step keeps LoginInv.
LEMMA LoginStep == IInv /\ [Next]_vars => LoginInv'
  <1> SUFFICES ASSUME Typed, LoginInv, [Next]_vars PROVE LoginInv'
    BY DEF IInv
  <1>1. ASSUME NEW s \in States, Login(s) PROVE LoginInv'
    <2>1. Fresh \in Ordered(States)
          /\ Fresh.keys = {l \in logins.keys : issued[l] + LoginTTL >= now}
      <3>1. logins \in Ordered(States)
        BY DEF Typed
      <3> QED BY <3>1, KeepType DEF Fresh
    <2> DEFINE kept == MakeRoom(Fresh, LoginCap)
    <2>2. kept \in Ordered(States) /\ kept.keys \subseteq Fresh.keys
      BY <2>1, RoomType
    <2>3. logins'.keys = kept.keys \cup {s}
      BY <1>1, <2>2, PushType DEF Login
    <2>4. /\ issued[s] = None /\ issued' = [issued EXCEPT ![s] = now]
          /\ crowded' = crowded \cup (Fresh.keys \ kept.keys)
          /\ UNCHANGED <<now, popped, session>>
      BY <1>1 DEF Login, sessVars
    <2> HIDE DEF kept
    <2>5. now # None /\ issued' \in [States -> 0 .. MaxTime \cup {None}]
      BY <2>4 DEF Typed
    <2>6. \A l \in logins'.keys : issued'[l] # None
      BY <2>1, <2>2, <2>3, <2>4, <2>5 DEF LoginInv, Typed, Ordered
    <2>7. \A x \in Requests : popped'[x] # None =>
            issued'[popped'[x]] # None /\ popped'[x] \notin logins'.keys /\ session'[x] # "idle"
      BY <2>1, <2>2, <2>3, <2>4, <2>5 DEF LoginInv, Typed
    <2>8. OneExchangePerState'
      BY <2>4 DEF LoginInv, OneExchangePerState
    <2>9. SignInStaysOpen'
      BY <2>1, <2>2, <2>3, <2>4, <2>5 DEF LoginInv, SignInStaysOpen, Typed
    <2> QED BY <2>6, <2>7, <2>8, <2>9 DEF LoginInv
  <1>2. ASSUME NEW s \in States, NEW x \in Requests, Exchange(x, s) PROVE LoginInv'
    <2>1. CASE s \notin logins.keys
      BY <1>2, <2>1 DEF Exchange, LoginInv, OneExchangePerState, SignInStaysOpen, Typed
    <2>2. CASE s \in logins.keys
      <3>1. logins'.keys = logins.keys \ {s}
        <4>1. logins \in Ordered(States)
          BY DEF Typed
        <4> QED BY <1>2, <2>2, <4>1, KeepType DEF Exchange, Take
      <3>2. /\ popped' = [popped EXCEPT ![x] = s]
            /\ session' = [session EXCEPT ![x] = "waiting"]
            /\ session[x] = "idle" /\ issued[s] # None
            /\ UNCHANGED <<now, issued, crowded>>
        BY <1>2, <2>2 DEF Exchange
      <3>3. s # None /\ popped[x] = None
        BY <3>2 DEF LoginInv
      <3>4. \A y \in Requests : popped'[y] # None =>
              issued'[popped'[y]] # None /\ popped'[y] \notin logins'.keys /\ session'[y] # "idle"
        BY <3>1, <3>2 DEF LoginInv, Typed
      <3>5. OneExchangePerState'
        BY <2>2, <3>2 DEF LoginInv, OneExchangePerState, Typed
      <3>6. SignInStaysOpen'
        BY <3>1, <3>2, <3>3 DEF LoginInv, SignInStaysOpen, Typed
      <3> QED BY <3>1, <3>2, <3>4, <3>5, <3>6 DEF LoginInv
    <2> QED BY <2>1, <2>2
  <1>3. ASSUME NEW x \in Requests, ExchangeEnds(x) PROVE LoginInv'
    BY <1>3, LoginFrame DEF ExchangeEnds, ExchangeFails, ExchangeDone, Typed
  <1>4. ASSUME NEW x \in Requests, Logout(x) PROVE LoginInv'
    BY <1>4, LoginFrame DEF Logout, sessVars
  <1>5. ASSUME NEW t \in Tokens, NEW at \in Times, Send(t, at) PROVE LoginInv'
    BY <1>5, LoginFrame DEF Send, sessVars
  <1>6. ASSUME NEW t \in Tokens, NEW d \in Deliveries, Deliver(d, t) PROVE LoginInv'
    BY <1>6, LoginFrame DEF Deliver, sessVars
  <1>7. ASSUME NEW d \in Deliveries, Validated(d) PROVE LoginInv'
    BY <1>7, LoginFrame DEF Validated, Reject, Accept, sessVars
  <1>8. ASSUME NEW c \in Cascades, CascadeStep(c) PROVE LoginInv'
    BY <1>8, LoginFrame
    DEF CascadeStep, CascadeStarts, CascadeEnds, Delete, Fence, sessVars, Typed
  <1>9. CASE Sweep
    BY <1>9, LoginFrame DEF Sweep, sessVars
  <1>10. CASE Tick
    BY <1>10 DEF Tick, LoginInv, OneExchangePerState, SignInStaysOpen, Typed, loginVars, sessVars
  <1>11. CASE UNCHANGED vars
    BY <1>11, LoginFrame DEF vars, sessVars
  <1> QED
    BY <1>1, <1>2, <1>3, <1>4, <1>5, <1>6, <1>7, <1>8, <1>9, <1>10, <1>11 DEF Next

\* What the steps that touch neither the tokens nor the record leave to TokenInv.
LEMMA TokenFrame ==
  ASSUME TokenInv, UNCHANGED <<now, bclVars>>,
         \A d \in Deliveries : phase'[d] = "validating" => phase[d] = "validating"
  PROVE  TokenInv'
  BY DEF TokenInv, RunsOnce, bclVars

\* Every step keeps TokenInv.
LEMMA TokenStep == IInv /\ [Next]_vars => TokenInv'
  <1> SUFFICES ASSUME Typed, TokenInv, [Next]_vars PROVE TokenInv'
    BY DEF IInv
  <1>1. ASSUME NEW s \in States, Login(s) PROVE TokenInv'
    BY <1>1, TokenFrame DEF Login
  <1>2. ASSUME NEW s \in States, NEW x \in Requests, Exchange(x, s) PROVE TokenInv'
    BY <1>2, TokenFrame DEF Exchange
  <1>3. ASSUME NEW x \in Requests, ExchangeEnds(x) PROVE TokenInv'
    BY <1>3, TokenFrame DEF ExchangeEnds, ExchangeFails, ExchangeDone
  <1>4. ASSUME NEW x \in Requests, Logout(x) PROVE TokenInv'
    BY <1>4, TokenFrame DEF Logout, Typed, Cascades
  <1>5. ASSUME NEW t \in Tokens, NEW at \in Times, Send(t, at) PROVE TokenInv'
    BY <1>5 DEF Send, TokenInv, RunsOnce, Typed, Times, sessVars, Ordered
  <1>6. ASSUME NEW t \in Tokens, NEW d \in Deliveries, Deliver(d, t) PROVE TokenInv'
    BY <1>6 DEF Deliver, TokenInv, RunsOnce, Typed, Cascades, sessVars
  <1>7. ASSUME NEW d \in Deliveries, Validated(d) PROVE TokenInv'
    <2>1. CASE Reject(d)
      BY <2>1, TokenFrame DEF Reject, Typed, Cascades
    <2>2. CASE Accept(d) /\ Seen(token[d])
      BY <2>2 DEF Accept, TokenInv, RunsOnce, Typed, Cascades
    <2>3. CASE Accept(d) /\ ~Seen(token[d])
      <3> DEFINE t == token[d]
                 kept == MakeRoom(seen, SeenCap)
      <3>1. t \in Tokens /\ iat[t] \in Times
        BY <2>3 DEF Accept, TokenInv, Typed
      <3>2. kept \in Ordered(Tokens) /\ kept.keys \subseteq seen.keys
        BY RoomType DEF Typed
      <3>3. /\ seen'.keys = kept.keys \cup {t}
            /\ evicted' = evicted \cup (seen.keys \ kept.keys)
        BY <2>3, <3>1, <3>2, PushType DEF Accept, Remember
      <3>4. \A r \in Tokens : r # t => runs'[r] = runs[r]
        BY <2>3 DEF Accept, Typed
      <3>5. runs'[t] \in {runs[t], runs[t] + 1}
        BY <2>3, <3>1 DEF Accept, Typed
      <3>6. UNCHANGED <<now, iat, token>> /\ late \subseteq late'
        BY <2>3 DEF Accept
      <3>7. \A e \in Deliveries : phase'[e] = "validating" => phase[e] = "validating"
        BY <2>3 DEF Accept, Typed, Cascades
      <3>8. runs[t] = 0 \/ t \in evicted \/ t \in late'
        <4>1. CASE runs[t] # 0 /\ t \notin evicted
          <5>1. now > iat[t] + Tolerance
            BY <2>3, <3>1, <4>1 DEF TokenInv, Seen
          <5>2. ~Acceptable(t, now)
            BY <3>1, <5>1 DEF Acceptable, Typed, Times
          <5> QED BY <2>3, <5>2 DEF Accept
        <4> QED BY <4>1
      <3> HIDE DEF t, kept
      <3>9. RunsOnce'
        BY <3>1, <3>3, <3>4, <3>5, <3>6, <3>8 DEF TokenInv, RunsOnce, Typed
      <3>10. \A r \in Tokens : runs'[r] # 0 =>
               /\ iat'[r] # None
               /\ r \in seen'.keys \/ r \in evicted' \/ now' > iat'[r] + Tolerance
        BY <3>1, <3>2, <3>3, <3>4, <3>6 DEF TokenInv, Times
      <3>11. \A r \in seen'.keys : iat'[r] # None
        BY <3>1, <3>2, <3>3, <3>6 DEF TokenInv, Times
      <3> QED BY <3>6, <3>7, <3>9, <3>10, <3>11 DEF TokenInv
    <2> QED BY <1>7, <2>1, <2>2, <2>3 DEF Validated
  <1>8. ASSUME NEW c \in Cascades, CascadeStep(c) PROVE TokenInv'
    BY <1>8, TokenFrame
    DEF CascadeStep, CascadeStarts, CascadeEnds, Delete, Typed, Cascades
  <1>9. CASE Sweep
    <2>1. seen'.keys = {t \in seen.keys : iat[t] + Tolerance >= now}
      <3>1. seen \in Ordered(Tokens)
        BY DEF Typed
      <3> QED BY <1>9, <3>1, KeepType DEF Sweep
    <2>2. UNCHANGED <<now, phase, iat, token, runs, evicted, late>>
      BY <1>9 DEF Sweep
    <2> QED BY <2>1, <2>2 DEF TokenInv, RunsOnce, Typed, Times, Ordered
  <1>10. CASE Tick
    BY <1>10 DEF Tick, TokenInv, RunsOnce, Typed, Times, bclVars
  <1>11. CASE UNCHANGED vars
    BY <1>11, TokenFrame DEF vars
  <1> QED
    BY <1>1, <1>2, <1>3, <1>4, <1>5, <1>6, <1>7, <1>8, <1>9, <1>10, <1>11 DEF Next

\* Every step keeps CapInv.
LEMMA CapStep == IInv /\ [Next]_vars => CapInv'
  <1> SUFFICES ASSUME LoginInv, WithinCap(logins, LoginCap), WithinCap(seen, SeenCap), [Next]_vars
      PROVE  CapInv'
    BY DEF IInv, CapInv
  <1> USE DEF CapInv
  <1>1. ASSUME NEW s \in States, Login(s) PROVE CapInv'
    <2>1. WithinCap(Fresh, LoginCap)
      BY KeepCapped DEF Fresh
    <2>2. s \notin Fresh.keys
      BY <1>1 DEF Login, LoginInv, Fresh, Keep
    <2>3. WithinCap(Push(MakeRoom(Fresh, LoginCap), s), LoginCap)
      BY <2>1, <2>2, PushCapped
    <2> QED BY <1>1, <2>3 DEF Login, bclVars
  <1>2. ASSUME NEW s \in States, NEW x \in Requests, Exchange(x, s) PROVE CapInv'
    BY <1>2, KeepCapped DEF Exchange, Take, bclVars
  <1>3. ASSUME NEW d \in Deliveries, Validated(d) PROVE CapInv'
    <2>1. CASE UNCHANGED <<logins, seen>>
      BY <2>1
    <2>2. CASE UNCHANGED logins /\ Remember(token[d]) /\ token[d] \notin seen.keys
      <3>1. WithinCap(Push(MakeRoom(seen, SeenCap), token[d]), SeenCap)
        BY <2>2, PushCapped
      <3> QED BY <2>2, <3>1 DEF Remember
    <2> QED BY <1>3, <2>1, <2>2 DEF Validated, Reject, Accept, Seen, loginVars, bclVars
  <1>4. CASE Sweep
    BY <1>4, KeepCapped DEF Sweep, loginVars
  <1>5. CASE UNCHANGED <<logins, seen>>
    BY <1>5
  <1>6. ASSUME NEW x \in Requests, ExchangeEnds(x) \/ Logout(x) PROVE CapInv'
    BY <1>6, <1>5 DEF ExchangeEnds, ExchangeFails, ExchangeDone, Logout, loginVars, bclVars
  <1>7. ASSUME NEW t \in Tokens, (\E at \in Times : Send(t, at))
                                 \/ \E d \in Deliveries : Deliver(d, t)
        PROVE  CapInv'
    BY <1>7, <1>5 DEF Send, Deliver, loginVars
  <1>8. ASSUME NEW c \in Cascades, CascadeStep(c) PROVE CapInv'
    BY <1>8, <1>5 DEF CascadeStep, CascadeStarts, CascadeEnds, Delete, loginVars, bclVars
  <1>9. CASE Tick \/ UNCHANGED vars
    BY <1>9, <1>5 DEF Tick, vars, loginVars, bclVars
  <1> QED BY <1>1, <1>2, <1>3, <1>4, <1>6, <1>7, <1>8, <1>9 DEF Next

\* The strengthening is an invariant: types, what the pending logins and the
\* requests have of each other, where the record of logout tokens may have gaps,
\* and the caps.
THEOREM Inductive == Spec => []IInv
  <1>1. IInv /\ [Next]_vars => IInv'
    BY TypeStep, LoginStep, TokenStep, CapStep DEF IInv
  <1> QED BY InitOK, <1>1, PTL DEF Spec

\* However often the relay page posts a login state, it reaches the identity
\* server once: pop comes before the await.
THEOREM StateUsedOnce == Spec => []OneExchangePerState
  <1>1. IInv => OneExchangePerState
    BY DEF IInv, LoginInv
  <1> QED BY <1>1, Inductive, PTL

\* The sweep and the cap of the pending logins never take a sign-in that is not
\* older than the TTL, evictions at the cap apart.
THEOREM SignInsStayOpen == Spec => []SignInStaysOpen
  <1>1. IInv => SignInStaysOpen
    BY DEF IInv, LoginInv
  <1> QED BY <1>1, Inductive, PTL

\* A logout token asks for one cascade, evicted and late ones apart: whatever
\* the sweep forgot is refused by the window.
THEOREM OneCascadePerToken == Spec => []RunsOnce
  <1>1. IInv => RunsOnce
    BY DEF IInv, TokenInv
  <1> QED BY <1>1, Inductive, PTL

\* Whatever is drawn, delivered and swept, neither the pending logins nor the
\* record of logout tokens outgrows its cap.
THEOREM RecordsStayCapped == Spec => []TypeOK
  <1>1. IInv => TypeOK
    BY DEF IInv, CapInv, WithinCap, TypeOK
  <1> QED BY <1>1, Inductive, PTL

-----------------------------------------------------------------------------
(* What liveness rests on: the cascades of one user follow each other.       *)

\* What CascadesMoveOn says of one cascade.
MovesOn(c) ==
  /\ phase[c] = "queued" =>
       \/ phase'[c] = "queued" /\ target'[c] = target[c]
       \/ phase'[c] = "answered" /\ SessionsOf(target[c])' = {}
       \/ /\ phase'[c] = "running" /\ target'[c] = target[c]
          /\ SessionsOf(target[c])' = ToTearDown(target[c])'
  /\ phase[c] = "running" =>
       /\ target'[c] = target[c]
       /\ ToTearDown(target[c])' \subseteq ToTearDown(target[c])
       /\ \/ phase'[c] = "running"
          \/ phase'[c] = "answered" /\ ToTearDown(target[c])' = {}

\* A step that starts no cascade and ends none, and fences and deletes nothing.
LEMMA CascadeRests ==
  ASSUME NoFenceLeft,
         \A x \in Requests : user'[x] = user[x] \/ session'[x] \notin {"fenced", "gone"},
         \A x \in Requests : (session'[x] = "fenced" <=> session[x] = "fenced"),
         \A x \in Requests : Stored(x)' => user'[x] # None,
         \A c \in Cascades :
           \/ phase'[c] = phase[c] /\ target'[c] = target[c]
           \/ /\ phase[c] \notin {"queued", "running"} /\ phase'[c] # "running"
              /\ phase'[c] = "queued" => target'[c] # None
  PROVE  NoFenceLeft' /\ \A c \in Cascades : MovesOn(c)
  <1>1. \A c \in Cascades : phase'[c] = "running" \/ phase[c] = "running" =>
          phase'[c] = "running" /\ phase[c] = "running" /\ target'[c] = target[c]
    OBVIOUS
  <1>2. \A x \in Requests : session'[x] = "fenced" => session[x] = "fenced" /\ user'[x] = user[x]
    OBVIOUS
  <1>3. NoFenceLeft'
    <2>1. \A c, d \in Cascades :
            phase'[c] = "running" /\ phase'[d] = "running" /\ target'[c] = target'[d] => c = d
      BY <1>1 DEF NoFenceLeft
    <2>2. \A x \in Requests : session'[x] = "fenced" =>
            \E c \in Cascades : phase'[c] = "running" /\ target'[c] = user'[x]
      BY <1>1, <1>2 DEF NoFenceLeft
    <2>3. \A c \in Cascades : phase'[c] \in {"queued", "running"} => target'[c] # None
      BY DEF NoFenceLeft
    <2> QED BY <2>1, <2>2, <2>3 DEF NoFenceLeft
  <1>4. \A u : ToTearDown(u)' \subseteq ToTearDown(u)
    BY <1>2 DEF ToTearDown, SessionsOf, Stored
  <1> QED BY <1>1, <1>3, <1>4 DEF MovesOn

\* The cascade that gets the lock finds no other of its user running, and fences
\* all there is; without sessions it ends at once.
LEMMA StartsOnAll ==
  ASSUME Typed, NoFenceLeft, NEW c \in Cascades, CascadeStarts(c)
  PROVE  NoFenceLeft' /\ \A d \in Cascades : MovesOn(d)
  <1>1. /\ phase[c] = "queued" /\ target[c] # None /\ UNCHANGED <<user, target>>
        /\ \A d \in Cascades : phase[d] = "running" => target[d] # target[c]
        /\ \A d \in Cascades \ {c} : phase'[d] = phase[d]
        /\ phase'[c] = IF SessionsOf(target[c]) = {} THEN "answered" ELSE "running"
    BY DEF CascadeStarts, Typed, NoFenceLeft
  <1>2. \A x \in Requests :
          session'[x] = IF x \in SessionsOf(target[c]) THEN "fenced" ELSE session[x]
    BY DEF CascadeStarts, Fence
  <1>3. \A x \in Requests : Stored(x)' <=> Stored(x)
    BY <1>2 DEF Stored, SessionsOf
  <1>4. \A u : SessionsOf(u)' = SessionsOf(u)
    BY <1>1, <1>3 DEF SessionsOf
  <1>5. NoFenceLeft'
    <2>1. ASSUME NEW x \in Requests, session'[x] = "fenced"
          PROVE  \E d \in Cascades : phase'[d] = "running" /\ target'[d] = user'[x]
      <3>1. CASE x \in SessionsOf(target[c])
        BY <1>1, <3>1 DEF SessionsOf
      <3>2. CASE x \notin SessionsOf(target[c])
        BY <1>1, <1>2, <2>1, <3>2 DEF NoFenceLeft
      <3> QED BY <3>1, <3>2
    <2>2. \A d, e \in Cascades :
            phase'[d] = "running" /\ phase'[e] = "running" /\ target'[d] = target'[e] => d = e
      BY <1>1 DEF NoFenceLeft
    <2>3. \A d \in Cascades : phase'[d] \in {"queued", "running"} => target'[d] # None
      BY <1>1 DEF NoFenceLeft
    <2>4. \A x \in Requests : Stored(x)' => user'[x] # None
      BY <1>1, <1>3 DEF NoFenceLeft
    <2> QED BY <2>1, <2>2, <2>3, <2>4 DEF NoFenceLeft
  <1>6. MovesOn(c)
    <2>1. ToTearDown(target[c])' = SessionsOf(target[c])'
      BY <1>1, <1>2, <1>4 DEF ToTearDown, SessionsOf
    <2> QED BY <1>1, <1>4, <2>1 DEF MovesOn
  <1>7. ASSUME NEW d \in Cascades \ {c} PROVE MovesOn(d)
    <2>1. phase[d] = "running" => ToTearDown(target[d])' \subseteq ToTearDown(target[d])
      BY <1>1, <1>2, <1>4 DEF ToTearDown, SessionsOf
    <2> QED BY <1>1, <2>1 DEF MovesOn
  <1> QED BY <1>5, <1>6, <1>7

\* A deletion, and the end of a cascade.
LEMMA EndsWithNone ==
  ASSUME Typed, NoFenceLeft, NEW c \in Cascades,
         CascadeEnds(c) \/ \E x \in Requests : Delete(c, x)
  PROVE  NoFenceLeft' /\ \A d \in Cascades : MovesOn(d)
  <1>1. ASSUME NEW x \in Requests, Delete(c, x) PROVE NoFenceLeft' /\ \A d \in Cascades : MovesOn(d)
    <2>1. /\ UNCHANGED <<user, phase, target>> /\ session[x] = "fenced" /\ session'[x] = "gone"
          /\ \A y \in Requests \ {x} : session'[y] = session[y]
      BY <1>1 DEF Delete, Typed
    <2>2. NoFenceLeft'
      BY <2>1 DEF NoFenceLeft, Stored
    <2>3. \A u : ToTearDown(u)' \subseteq ToTearDown(u)
      BY <2>1 DEF ToTearDown, SessionsOf, Stored
    <2> QED BY <2>1, <2>2, <2>3 DEF MovesOn
  <1>2. ASSUME CascadeEnds(c) PROVE NoFenceLeft' /\ \A d \in Cascades : MovesOn(d)
    <2>1. /\ UNCHANGED <<session, user, target>> /\ phase[c] = "running" /\ phase'[c] = "answered"
          /\ \A d \in Cascades \ {c} : phase'[d] = phase[d]
          /\ \A x \in SessionsOf(target[c]) : session[x] # "fenced"
      BY <1>2 DEF CascadeEnds, Typed, sessVars
    <2>2. \A u : ToTearDown(u)' = ToTearDown(u) /\ SessionsOf(u)' = SessionsOf(u)
      BY <2>1 DEF ToTearDown, SessionsOf, Stored
    <2>3. NoFenceLeft'
      <3>1. ASSUME NEW x \in Requests, session'[x] = "fenced"
            PROVE  \E d \in Cascades : phase'[d] = "running" /\ target'[d] = user'[x]
        BY <2>1, <3>1 DEF NoFenceLeft, SessionsOf, Stored
      <3> QED BY <2>1, <3>1 DEF NoFenceLeft, Stored
    <2>4. ToTearDown(target[c]) = {}
      BY <2>1 DEF ToTearDown
    <2> QED BY <2>1, <2>2, <2>3, <2>4 DEF MovesOn
  <1> QED BY <1>1, <1>2

\* Every step of anybody.
LEMMA StepMovesOn ==
  ASSUME IInv, NoFenceLeft, [Next]_vars
  PROVE  NoFenceLeft' /\ \A c \in Cascades : MovesOn(c)
  <1>1. Typed
    BY DEF IInv
  <1>2. ASSUME UNCHANGED <<session, user, phase, target>>
        PROVE  NoFenceLeft' /\ \A c \in Cascades : MovesOn(c)
    BY <1>2, CascadeRests DEF NoFenceLeft, Stored
  <1>3. ASSUME NEW s \in States, Login(s) \/ \E x \in Requests : Exchange(x, s)
        PROVE  NoFenceLeft' /\ \A c \in Cascades : MovesOn(c)
    <2>1. CASE Login(s)
      BY <1>2, <2>1 DEF Login, sessVars
    <2>2. ASSUME NEW x \in Requests, Exchange(x, s)
          PROVE  NoFenceLeft' /\ \A c \in Cascades : MovesOn(c)
      <3>1. /\ UNCHANGED <<user, phase, target>> /\ session[x] = "idle"
            /\ session'[x] \in {"waiting", "refused"}
            /\ \A y \in Requests \ {x} : session'[y] = session[y]
        BY <1>1, <2>2 DEF Exchange, Typed
      <3> QED BY <3>1, CascadeRests DEF NoFenceLeft, Stored
    <2> QED BY <1>3, <2>1, <2>2
  <1>4. ASSUME NEW x \in Requests, ExchangeEnds(x)
        PROVE  NoFenceLeft' /\ \A c \in Cascades : MovesOn(c)
    <2>1. /\ UNCHANGED <<phase, target>> /\ session[x] = "waiting"
          /\ session'[x] = "refused" \/ (session'[x] = "open" /\ user'[x] # None)
          /\ \A y \in Requests \ {x} : session'[y] = session[y] /\ user'[y] = user[y]
      BY <1>1, <1>4 DEF ExchangeEnds, ExchangeFails, ExchangeDone, Typed
    <2> QED BY <2>1, CascadeRests DEF NoFenceLeft, Stored
  <1>5. ASSUME NEW x \in Requests, Logout(x) PROVE NoFenceLeft' /\ \A c \in Cascades : MovesOn(c)
    <2>1. /\ UNCHANGED <<session, user>> /\ x \in Cascades /\ phase[x] = "idle" /\ Stored(x)
          /\ phase'[x] = "queued" /\ target'[x] = user[x]
          /\ \A c \in Cascades \ {x} : phase'[c] = phase[c] /\ target'[c] = target[c]
      BY <1>1, <1>5 DEF Logout, Typed, Cascades, sessVars
    <2> QED BY <2>1, CascadeRests DEF NoFenceLeft, Stored
  <1>6. ASSUME NEW t \in Tokens, (\E at \in Times : Send(t, at))
                                 \/ \E d \in Deliveries : Deliver(d, t)
        PROVE  NoFenceLeft' /\ \A c \in Cascades : MovesOn(c)
    <2>1. CASE \E at \in Times : Send(t, at)
      BY <1>2, <2>1 DEF Send, sessVars
    <2>2. ASSUME NEW d \in Deliveries, Deliver(d, t)
          PROVE  NoFenceLeft' /\ \A c \in Cascades : MovesOn(c)
      <3>1. /\ UNCHANGED <<session, user, target>> /\ d \in Cascades /\ phase[d] = "idle"
            /\ phase'[d] = "validating" /\ \A c \in Cascades \ {d} : phase'[c] = phase[c]
        BY <1>1, <2>2 DEF Deliver, Typed, Cascades, sessVars
      <3> QED BY <3>1, CascadeRests DEF NoFenceLeft, Stored
    <2> QED BY <1>6, <2>1, <2>2
  <1>7. ASSUME NEW d \in Deliveries, Validated(d) PROVE NoFenceLeft' /\ \A c \in Cascades : MovesOn(c)
    <2>1. /\ UNCHANGED <<session, user>> /\ d \in Cascades /\ phase[d] = "validating"
          /\ \A c \in Cascades \ {d} : phase'[c] = phase[c] /\ target'[c] = target[c]
          /\ \/ phase'[d] = "answered"
             \/ phase'[d] = "queued" /\ SessionsOf(target'[d]) # {}
      BY <1>1, <1>7 DEF Validated, Reject, Accept, Typed, Cascades, sessVars
    <2>2. phase'[d] = "queued" => target'[d] # None
      BY <2>1 DEF NoFenceLeft, SessionsOf
    <2> QED BY <2>1, <2>2, CascadeRests DEF NoFenceLeft, Stored
  <1>8. ASSUME NEW c \in Cascades, CascadeStep(c) PROVE NoFenceLeft' /\ \A d \in Cascades : MovesOn(d)
    BY <1>1, <1>8, StartsOnAll, EndsWithNone DEF CascadeStep
  <1>9. CASE Sweep \/ Tick \/ UNCHANGED vars
    BY <1>2, <1>9 DEF Sweep, Tick, vars, sessVars
  <1> QED BY <1>3, <1>4, <1>5, <1>6, <1>7, <1>8, <1>9 DEF Next

\* NoFenceLeft, CascadesMoveOn: a fenced session always has the running cascade of
\* its user to delete it, the lock lets one run at a time, and a cascade ends with
\* nothing of what it began on left (get_user_lock, logout_handler).
THEOREM FencesAreLifted == Spec => []NoFenceLeft /\ CascadesMoveOn
  <1>1. Init => NoFenceLeft
    BY DEF Init, NoFenceLeft, Stored
  <1>2. IInv /\ NoFenceLeft /\ [Next]_vars => NoFenceLeft'
    BY StepMovesOn
  <1>3. IInv /\ NoFenceLeft /\ [Next]_vars
          => [\A c \in Cascades :
                /\ phase[c] = "queued" =>
                     \/ phase'[c] = "queued" /\ target'[c] = target[c]
                     \/ phase'[c] = "answered" /\ SessionsOf(target[c])' = {}
                     \/ /\ phase'[c] = "running" /\ target'[c] = target[c]
                        /\ SessionsOf(target[c])' = ToTearDown(target[c])'
                /\ phase[c] = "running" =>
                     /\ target'[c] = target[c]
                     /\ ToTearDown(target[c])' \subseteq ToTearDown(target[c])
                     /\ \/ phase'[c] = "running"
                        \/ phase'[c] = "answered" /\ ToTearDown(target[c])' = {}]_vars
    BY StepMovesOn DEF MovesOn
  <1> QED BY <1>1, <1>2, <1>3, Inductive, PTL DEF Spec, CascadesMoveOn

=============================================================================
