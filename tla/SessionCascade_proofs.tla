----------------------- MODULE SessionCascade_proofs -----------------------
(***************************************************************************)
(* Proofs about SessionCascade, for every set of users, session ids,       *)
(* chats, cascades and receivers.                                          *)
(***************************************************************************)
EXTENDS SessionCascade, FiniteSetTheorems, TLAPS

\* A part of the state that a step leaves alone keeps its types.
LEMMA UnchangedTypes ==
  /\ SessTypeOK /\ UNCHANGED sessVars => SessTypeOK'
  /\ CibaTypeOK /\ UNCHANGED cibaVars => CibaTypeOK'
  /\ ChatTypeOK /\ UNCHANGED chatVars => ChatTypeOK'
  /\ AgentTypeOK /\ UNCHANGED agentVars => AgentTypeOK'
  /\ WalkTypeOK /\ UNCHANGED walkVars => WalkTypeOK'
  /\ RevokeTypeOK /\ UNCHANGED revVars => RevokeTypeOK'
BY DEF SessTypeOK, CibaTypeOK, ChatTypeOK, AgentTypeOK, WalkTypeOK, RevokeTypeOK,
       sessVars, cibaVars, chatVars, agentVars, walkVars, revVars

\* The empty store, with no chat, consent or cascade, is type correct.
LEMMA InitTypes == Init => TypeOK
<1> SUFFICES ASSUME Init PROVE TypeOK
  OBVIOUS
<1>1. SessTypeOK /\ CibaTypeOK
  BY DEF Init, SessTypeOK, CibaTypeOK
<1>2. ChatTypeOK /\ AgentTypeOK
  BY ConstantsOK DEF Init, ChatTypeOK, AgentTypeOK, ChatPcs, FlowPcs
<1>3. WalkTypeOK /\ RevokeTypeOK
  BY DEF Init, WalkTypeOK, RevokeTypeOK, CasPcs
<1> QED
  BY <1>1, <1>2, <1>3 DEF TypeOK

\* The requests of a user (sign-in, chat, cancel, logout) preserve the types.
LEMMA UserTypes == ASSUME TypeOK, UserStep PROVE TypeOK'
<1> USE DEF casVars
<1>1. ASSUME NEW u \in Users, NEW s \in Sids, Login(u, s) PROVE TypeOK'
  <2>1. SessTypeOK'
    BY <1>1 DEF TypeOK, SessTypeOK, Login, Create, TakeReason
  <2> QED
    BY <1>1, <2>1, UnchangedTypes DEF TypeOK, Login, Create, TakeReason
<1>2. ASSUME NEW c \in Chats, NEW s \in Sids, PostChat(c, s) PROVE TypeOK'
  <2>1. ChatTypeOK'
    BY <1>2 DEF TypeOK, ChatTypeOK, PostChat, ChatPcs
  <2> QED
    BY <1>2, <2>1, UnchangedTypes DEF TypeOK, PostChat
<1>3. ASSUME NEW c \in Chats, NEW s \in Sids, PostReportAction(c, s) PROVE TypeOK'
  <2>1. ChatTypeOK'
    BY <1>3, ConstantsOK DEF TypeOK, ChatTypeOK, PostReportAction, ChatPcs
  <2> QED
    BY <1>3, <2>1, UnchangedTypes DEF TypeOK, PostReportAction
<1>4. ASSUME NEW s \in Sids, NEW f \in Flows, PostCancel(s, f) PROVE TypeOK'
  <2>1. AgentTypeOK'
    BY <1>4 DEF TypeOK, AgentTypeOK, PostCancel
  <2> QED
    BY <1>4, <2>1, UnchangedTypes DEF TypeOK, PostCancel
<1>5. ASSUME NEW k \in Cascades, NEW u \in Users \cup {None}, NEW why \in Reasons,
             Queue(k, u, why)
      PROVE  TypeOK'
  <2>1. WalkTypeOK' /\ RevokeTypeOK'
    BY <1>5 DEF TypeOK, WalkTypeOK, RevokeTypeOK, Queue, CasPcs
  <2> QED
    BY <1>5, <2>1, UnchangedTypes DEF TypeOK, Queue
<1>6. ASSUME NEW k \in Cascades, NEW s \in Sids, PostLogout(k, s) PROVE TypeOK'
  BY <1>5, <1>6 DEF PostLogout, TypeOK, SessTypeOK, Reasons
<1>7. ASSUME NEW k \in Cascades, NEW u \in Users, BackChannelLogout(k, u) PROVE TypeOK'
  BY <1>5, <1>7 DEF BackChannelLogout, Reasons
<1> QED
  BY <1>1, <1>2, <1>3, <1>4, <1>6, <1>7 DEF UserStep

\* The steps of a tool fan-out preserve the types.
LEMMA ChatTypes ==
  ASSUME TypeOK, ChatInv, NEW c \in Chats, ChatStep(c) \/ Initiate(c)
  PROVE  TypeOK'
<1> USE DEF casVars
<1> DEFINE f == CurrentFlow(c)
<1>1. chatPc[c] \in {"ready", "sending", "awaiting"} =>
        /\ f \in Flows /\ calls[c] \in 1..MaxCalls /\ chatSess[c] \in Sids
  BY DEF ChatInv, CurrentFlow, Flows
<1>2. ASSUME NEW n \in 0..MaxCalls, Routed(c, n) PROVE TypeOK'
  <2>1. ChatTypeOK'
    BY <1>2 DEF TypeOK, ChatTypeOK, Routed, ChatPcs
  <2> QED
    BY <1>2, <2>1, UnchangedTypes DEF TypeOK, Routed
<1>3. ASSUME StartCall(c) PROVE TypeOK'
  <2>1. ChatTypeOK' /\ SessTypeOK'
    BY <1>1, <1>3 DEF TypeOK, ChatTypeOK, SessTypeOK, StartCall, ChatPcs
  <2> QED
    BY <1>3, <2>1, UnchangedTypes DEF TypeOK, StartCall
<1>4. ASSUME calls[c] \in 1..MaxCalls, NextCall(c), UNCHANGED <<chatSess, replies, reasonSends>>,
             TypeOK
      PROVE  ChatTypeOK'
  BY <1>4, ConstantsOK DEF TypeOK, ChatTypeOK, NextCall, ChatPcs
<1>5. ASSUME SkipCall(c) \/ SendRaises(c) \/ SendAnswers(c) PROVE TypeOK'
  <2>1. ChatTypeOK'
    BY <1>1, <1>4, <1>5 DEF SkipCall, SendRaises, SendAnswers, CallSettled
  <2> QED
    BY <1>5, <2>1, UnchangedTypes DEF TypeOK, SkipCall, SendRaises, SendAnswers, CallSettled
<1>6. ASSUME ConsentRequired(c) PROVE TypeOK'
  <2>1. ChatTypeOK'
    BY <1>6 DEF TypeOK, ChatTypeOK, ConsentRequired, ChatPcs
  <2>2. CibaTypeOK'
    BY <1>1, <1>6 DEF TypeOK, CibaTypeOK, ConsentRequired
  <2> QED
    BY <1>6, <2>1, <2>2, UnchangedTypes DEF TypeOK, ConsentRequired
<1>7. ASSUME AwaitResult(c) \/ AwaitError(c) PROVE TypeOK'
  <2>1. ChatTypeOK'
    BY <1>1, <1>4, <1>7 DEF AwaitResult, AwaitError, LeaveAwait
  <2>2. CibaTypeOK'
    BY <1>1, <1>7 DEF TypeOK, CibaTypeOK, AwaitResult, AwaitError, LeaveAwait
  <2> QED
    BY <1>7, <2>1, <2>2, UnchangedTypes DEF TypeOK, AwaitResult, AwaitError, LeaveAwait
<1>8. ASSUME Reply(c) PROVE TypeOK'
  <2>1. ChatTypeOK'
    BY <1>8 DEF TypeOK, ChatTypeOK, Reply, ChatPcs
  <2> QED
    BY <1>8, <2>1, UnchangedTypes DEF TypeOK, Reply
<1>9. ASSUME Initiate(c) PROVE TypeOK'
  <2>1. AgentTypeOK'
    BY <1>1, <1>9 DEF TypeOK, AgentTypeOK, Initiate, AgentStep, FlowPcs
  <2> QED
    BY <1>9, <2>1, UnchangedTypes DEF TypeOK, Initiate, AgentStep
<1> QED
  BY <1>2, <1>3, <1>5, <1>6, <1>7, <1>8, <1>9 DEF ChatStep

\* The poll loop, the tool call and an arriving cancel preserve the types.
LEMMA AgentTypes ==
  ASSUME TypeOK, NEW f \in Flows, AgentAction(f) \/ CancelArrives(f)
  PROVE  TypeOK'
<1> USE DEF casVars
<1>1. CASE AgentAction(f)
  <2>1. AgentTypeOK'
    BY <1>1 DEF TypeOK, AgentTypeOK, AgentAction, AgentStep, FlowPcs, PollSend,
       PollCancelled, PollDeadline, PollPending, PollRefused, PollToken, ToolDone, ToolFails
  <2>2. UNCHANGED <<sessVars, cibaVars, chatVars, casVars>>
    BY <1>1 DEF AgentAction, AgentStep, PollSend, PollCancelled, PollDeadline,
       PollPending, PollRefused, PollToken, ToolDone, ToolFails
  <2> QED
    BY <2>1, <2>2, UnchangedTypes DEF TypeOK
<1>2. CASE CancelArrives(f)
  <2>1. AgentTypeOK'
    BY <1>2 DEF TypeOK, AgentTypeOK, CancelArrives
  <2> QED
    BY <1>2, <2>1, UnchangedTypes DEF TypeOK, CancelArrives
<1> QED
  BY <1>1, <1>2

\* Starting on the next session keeps what a cascade carries well typed.
LEMMA EnterTypes ==
  ASSUME TypeOK, NEW k \in Cascades, NEW s \in Sids, NEW rest \in SUBSET Sids,
         Enter(k, s, rest)
  PROVE  /\ casPc' \in [Cascades -> CasPcs]
         /\ cur' \in [Cascades -> Sids \cup {None}]
         /\ todo' \in [Cascades -> SUBSET Sids]
         /\ log' \in [Cascades -> SUBSET Flows]
         /\ barrier' \in [Cascades -> SUBSET Flows]
BY DEF TypeOK, WalkTypeOK, CibaTypeOK, Enter, CasPcs

\* Moving to the next record, or dropping the session, preserves the types.
LEMMA ProceedTypes ==
  ASSUME TypeOK, WalkInv, NEW k \in Cascades, Working(k), NEW left \in SUBSET Flows,
         Proceed(k, left), UNCHANGED <<owner, terminating, lastReason>>
  PROVE  SessTypeOK' /\ WalkTypeOK'
<1>1. /\ cur[k] \in Sids /\ casUser[k] \in Users /\ casReason[k] \in Reasons
      /\ owner[cur[k]] = casUser[k]
  BY DEF WalkInv, Before, Working
<1>2. CASE left # {} /\ NextRecord(k, left) /\ legs' = [legs EXCEPT ![k] = Receivers]
  BY <1>2 DEF TypeOK, WalkTypeOK, SessTypeOK, NextRecord, CasPcs
<1>3. CASE DropSession(k) /\ legs' = [legs EXCEPT ![k] = {}]
  <2>1. SessTypeOK'
    BY <1>1, <1>3 DEF TypeOK, SessTypeOK, DropSession, Remove, RecordReason
  <2>2. CASE todo[k] = {} /\ casPc' = [casPc EXCEPT ![k] = "done"]
    BY <1>1, <1>3, <2>1, <2>2
    DEF TypeOK, WalkTypeOK, DropSession, Remove, Release, Enter, CasPcs
  <2>3. CASE \E t \in todo[k] : Enter(k, t, todo[k] \ {t})
    <3>1. todo[k] \subseteq Sids
      BY DEF TypeOK, WalkTypeOK
    <3>2. PICK t \in todo[k] : Enter(k, t, todo[k] \ {t})
      BY <2>3
    <3>3. /\ casPc' \in [Cascades -> CasPcs] /\ cur' \in [Cascades -> Sids \cup {None}]
          /\ todo' \in [Cascades -> SUBSET Sids] /\ log' \in [Cascades -> SUBSET Flows]
          /\ barrier' \in [Cascades -> SUBSET Flows]
      BY <3>1, <3>2, EnterTypes
    <3>4. /\ rec' \in [Cascades -> Flows \cup {None}] /\ legs' \in [Cascades -> SUBSET Receivers]
          /\ lock' \in [Users -> Cascades \cup {None}]
      BY <1>1, <1>3 DEF TypeOK, WalkTypeOK, DropSession, Remove, Release
    <3> QED
      BY <2>1, <3>3, <3>4 DEF WalkTypeOK
  <2> QED
    BY <1>3, <2>2, <2>3 DEF DropSession, Remove, Release
<1> QED
  BY <1>2, <1>3 DEF Proceed, NextRecord

\* The steps of a logout cascade preserve the types.
LEMMA CascadeTypes ==
  ASSUME TypeOK, WalkInv, RecordInv, NEW k \in Cascades, CascadeStep(k)
  PROVE  TypeOK'
<1> USE DEF casVars
<1>1. ASSUME BeginCascade(k) PROVE TypeOK'
  <2> DEFINE mine == SessionsOf(casUser[k])
  <2>1. mine \subseteq Sids /\ casUser[k] \in Users
    BY <1>1 DEF TypeOK, SessTypeOK, SessionsOf, WalkInv, BeginCascade
  <2>2. PICK s \in mine : Enter(k, s, mine \ {s})
    BY <1>1 DEF BeginCascade
  <2>3. /\ casPc' \in [Cascades -> CasPcs] /\ cur' \in [Cascades -> Sids \cup {None}]
        /\ todo' \in [Cascades -> SUBSET Sids] /\ log' \in [Cascades -> SUBSET Flows]
        /\ barrier' \in [Cascades -> SUBSET Flows]
    BY <2>1, <2>2, EnterTypes
  <2>4. WalkTypeOK'
    BY <1>1, <2>3 DEF BeginCascade, Fence, LockFree, TypeOK, WalkTypeOK
  <2>5. RevokeTypeOK' /\ SessTypeOK'
    BY <1>1, <2>1 DEF BeginCascade, Fence, LockFree, TypeOK, RevokeTypeOK, SessTypeOK, CibaTypeOK
  <2> QED
    BY <1>1, <2>4, <2>5, UnchangedTypes DEF TypeOK, BeginCascade
<1>2. ASSUME CascadeAlreadyRun(k) PROVE TypeOK'
  <2>1. WalkTypeOK' /\ RevokeTypeOK'
    BY <1>2 DEF TypeOK, WalkTypeOK, RevokeTypeOK, CascadeAlreadyRun, CasPcs
  <2> QED
    BY <1>2, <2>1, UnchangedTypes DEF TypeOK, CascadeAlreadyRun
<1>3. ASSUME BarrierAcked(k) \/ BarrierTimeout(k) PROVE TypeOK'
  <2>1. WalkTypeOK' /\ RevokeTypeOK'
    BY <1>3 DEF TypeOK, WalkTypeOK, RevokeTypeOK, BarrierAcked, BarrierTimeout,
       LeaveBarrier, CasPcs
  <2> QED
    BY <1>3, <2>1, UnchangedTypes
    DEF TypeOK, BarrierAcked, BarrierTimeout, LeaveBarrier
<1>4. ASSUME RevokeTokenA(k) PROVE TypeOK'
  <2>1. Working(k) /\ log[k] \subseteq Flows /\ cur[k] \in Sids
    BY <1>4 DEF RevokeTokenA, SubmitTokenA, Working, TypeOK, WalkTypeOK, WalkInv
  <2>2. SessTypeOK' /\ WalkTypeOK'
    BY <1>4, <2>1, ProceedTypes DEF RevokeTokenA, SubmitTokenA
  <2>3. RevokeTypeOK'
    BY <1>4, <2>1 DEF RevokeTokenA, SubmitTokenA, TypeOK, RevokeTypeOK
  <2> QED
    BY <1>4, <2>2, <2>3, UnchangedTypes DEF TypeOK, RevokeTokenA, SubmitTokenA
<1>5. ASSUME NEW r \in Receivers, LegEnds(k, r) PROVE TypeOK'
  <2>1. Working(k) /\ log[k] \subseteq Flows /\ rec[k] \in Flows
    BY <1>5 DEF LegEnds, Working, TypeOK, WalkTypeOK, RecordInv
  <2>2. RevokeTypeOK' /\ AgentTypeOK'
    BY <1>5, <2>1 DEF LegEnds, LegOutcome, TypeOK, RevokeTypeOK, AgentTypeOK
  <2>3. SessTypeOK' /\ WalkTypeOK'
    <3>1. CASE legs[k] # {r}
      BY <1>5, <3>1 DEF LegEnds, TypeOK, WalkTypeOK, SessTypeOK
    <3>2. CASE legs[k] = {r}
      <4>1. Proceed(k, log[k] \ {rec[k]}) /\ UNCHANGED <<owner, terminating, lastReason>>
        BY <1>5, <3>2 DEF LegEnds
      <4> QED
        BY <2>1, <4>1, ProceedTypes
    <3> QED
      BY <3>1, <3>2
  <2> QED
    BY <1>5, <2>2, <2>3, UnchangedTypes DEF TypeOK, LegEnds
<1> QED
  BY <1>1, <1>2, <1>3, <1>4, <1>5 DEF CascadeStep

-----------------------------------------------------------------------------

\* Every step from a state of the invariant preserves TypeOK.
LEMMA NextTypes == IInv /\ [Next]_vars => TypeOK'
<1> SUFFICES ASSUME IInv, [Next]_vars PROVE TypeOK'
  OBVIOUS
<1>1. CASE UNCHANGED vars
  BY <1>1, UnchangedTypes DEF IInv, TypeOK, vars, casVars
<1>2. CASE Next
  BY <1>2, UserTypes, ChatTypes, AgentTypes, CascadeTypes DEF IInv, CascadeInv, Next
<1> QED
  BY <1>1, <1>2

\* Every step keeps a running chat attached to a session that was created, and
\* its call index in range: a Session object outlives its entry in the store.
LEMMA NextChatInv == IInv /\ [Next]_vars => ChatInv'
<1> SUFFICES ASSUME IInv, [Next]_vars PROVE ChatInv'
  OBVIOUS
<1>1. TypeOK /\ ChatInv /\ StoreInv
  BY DEF IInv, CascadeInv
<1>2. ASSUME UNCHANGED <<owner, chatPc, chatSess, calls>> PROVE ChatInv'
  BY <1>1, <1>2 DEF ChatInv
<1>3. ASSUME NEW u \in Users, NEW s \in Sids, Login(u, s) PROVE ChatInv'
  BY <1>1, <1>3, ConstantsOK
  DEF TypeOK, SessTypeOK, ChatInv, Login, Create, TakeReason, chatVars
<1>4. ASSUME NEW c \in Chats, NEW s \in Sids, PostChat(c, s) \/ PostReportAction(c, s)
      PROVE  ChatInv'
  BY <1>1, <1>4, ConstantsOK DEF TypeOK, SessTypeOK, ChatTypeOK, ChatInv, StoreInv, Accepts,
     PostChat, PostReportAction, sessVars
<1>5. ASSUME NEW c \in Chats, ChatStep(c) PROVE ChatInv'
  <2>1. ASSUME NEW n \in 0..MaxCalls, Routed(c, n) PROVE ChatInv'
    BY <1>1, <2>1, ConstantsOK DEF TypeOK, ChatTypeOK, ChatInv, Routed, sessVars
  <2>2. ASSUME chatPc[c] \in {"ready", "sending", "awaiting"}, NextCall(c),
               UNCHANGED <<owner, chatSess>>
        PROVE  ChatInv'
    BY <1>1, <2>2, ConstantsOK DEF TypeOK, ChatTypeOK, ChatInv, NextCall
  <2>3. CASE SkipCall(c) \/ SendRaises(c) \/ SendAnswers(c) \/ AwaitResult(c) \/ AwaitError(c)
    BY <2>2, <2>3 DEF SkipCall, SendRaises, SendAnswers, CallSettled, AwaitResult, AwaitError, LeaveAwait, sessVars
  <2>4. CASE StartCall(c) \/ ConsentRequired(c) \/ Reply(c)
    BY <1>1, <2>4 DEF TypeOK, ChatTypeOK, ChatInv, StartCall, ConsentRequired, Reply, sessVars
  <2> QED
    BY <1>5, <2>1, <2>3, <2>4 DEF ChatStep
<1>6. ASSUME NEW c \in Chats, Initiate(c) PROVE ChatInv'
  BY <1>2, <1>6 DEF Initiate, AgentStep, sessVars, chatVars
<1>7. ASSUME NEW f \in Flows, AgentAction(f) \/ CancelArrives(f) PROVE ChatInv'
  BY <1>2, <1>7 DEF AgentAction, AgentStep, CancelArrives, PollSend, PollCancelled,
     PollDeadline, PollPending, PollRefused, PollToken, ToolDone, ToolFails, sessVars, chatVars
<1>8. ASSUME NEW s \in Sids, \E f \in Flows : PostCancel(s, f)
      PROVE  ChatInv'
  BY <1>2, <1>8 DEF PostCancel, sessVars, chatVars
<1>9. ASSUME NEW k \in Cascades,
             \/ \E s \in Sids : PostLogout(k, s)
             \/ \E u \in Users : BackChannelLogout(k, u)
      PROVE  ChatInv'
  BY <1>2, <1>9 DEF PostLogout, BackChannelLogout, Queue, sessVars, chatVars
<1>10. ASSUME NEW k \in Cascades, CascadeStep(k) PROVE ChatInv'
  BY <1>2, <1>10 DEF CascadeStep, BeginCascade, CascadeAlreadyRun, BarrierAcked,
     BarrierTimeout, LeaveBarrier, RevokeTokenA, SubmitTokenA, LegEnds, sessVars, chatVars
<1>11. CASE UNCHANGED vars
  BY <1>2, <1>11 DEF vars, sessVars, chatVars
<1> QED
  BY <1>3, <1>4, <1>5, <1>6, <1>7, <1>8, <1>9, <1>10, <1>11 DEF Next, UserStep

-----------------------------------------------------------------------------

\* Steps that touch none of the state CascadeInv is about.
LEMMA CascadeFrame ==
  ASSUME CascadeInv,
         UNCHANGED <<owner, store, terminating, terminated, completedLog, casPc, casUser,
                     casReason, cur, todo, log, rec, legs, lock, owed, revokeTried, fannedOut>>
  PROVE  CascadeInv'
BY DEF CascadeInv, StoreInv, LockInv, WalkInv, RecordInv, NoSessionStuckFenced,
       TornDownOnce, RemovalComesLast, Working, Closed, Before

\* A sign-in preserves the invariant: a new session is in nobody's way, also
\* while a cascade of the same user is running.
LEMMA LoginStep ==
  ASSUME IInv, NEW u \in Users, NEW s \in Sids, Login(u, s)
  PROVE  CascadeInv'
<1>1. TypeOK /\ CascadeInv /\ s \notin store /\ s \notin terminating /\ None \notin Users
  BY ConstantsOK DEF IInv, CascadeInv, StoreInv, Login, Create, TakeReason
<1>2. /\ owner' = [owner EXCEPT ![s] = u] /\ store' = store \cup {s}
      /\ UNCHANGED <<terminating, terminated, completedLog, casPc, casUser, casReason, cur,
                     todo, log, rec, legs, lock, owed, revokeTried, fannedOut>>
      /\ owner \in [Sids -> Users \cup {None}] /\ owner[s] = None
  BY <1>1 DEF Login, Create, TakeReason, cibaVars, casVars, walkVars, revVars, TypeOK, SessTypeOK
<1>3. StoreInv' /\ TornDownOnce' /\ RemovalComesLast'
  BY <1>1, <1>2 DEF TypeOK, SessTypeOK, CascadeInv, StoreInv, TornDownOnce, RemovalComesLast, Closed
<1>4. LockInv' /\ RecordInv'
  BY <1>1, <1>2 DEF CascadeInv, LockInv, RecordInv, Working
<1>5. WalkInv'
  BY <1>1, <1>2 DEF CascadeInv, WalkInv, Working, Before
<1>6. NoSessionStuckFenced'
  BY <1>1, <1>2 DEF CascadeInv, NoSessionStuckFenced, StoreInv
<1> QED
  BY <1>3, <1>4, <1>5, <1>6 DEF CascadeInv

\* Recording a token preserves the invariant: the log of a session only grows.
LEMMA ResultStep ==
  ASSUME IInv, NEW c \in Chats, AwaitResult(c)
  PROVE  CascadeInv'
<1>1. /\ TypeOK /\ CascadeInv
      /\ completedLog' = [completedLog EXCEPT ![chatSess[c]] = @ \cup {CurrentFlow(c)}]
      /\ UNCHANGED <<owner, store, terminating, terminated, casPc, casUser, casReason, cur,
                     todo, log, rec, legs, lock, owed, revokeTried, fannedOut>>
  BY DEF IInv, AwaitResult, LeaveAwait, sessVars, casVars, walkVars, revVars
<1>2. \A s \in Sids : completedLog[s] \subseteq completedLog'[s]
  BY <1>1 DEF TypeOK, CibaTypeOK
<1>3. RecordInv'
  BY <1>1, <1>2 DEF CascadeInv, RecordInv, WalkInv, Working
<1> QED
  BY <1>1, <1>3 DEF CascadeInv, StoreInv, LockInv, WalkInv, NoSessionStuckFenced,
     TornDownOnce, RemovalComesLast, Working, Closed, Before

\* A requested logout preserves the invariant: it waits and holds nothing.
LEMMA QueueStep ==
  ASSUME IInv, NEW k \in Cascades, NEW u \in Users, NEW why \in Reasons, Queue(k, u, why)
  PROVE  CascadeInv'
<1>1. /\ TypeOK /\ CascadeInv
      /\ casPc[k] = "idle"
      /\ casPc' = [casPc EXCEPT ![k] = "waiting"]
      /\ casUser' = [casUser EXCEPT ![k] = u]
      /\ casReason' = [casReason EXCEPT ![k] = why]
      /\ UNCHANGED <<owner, store, terminating, terminated, completedLog, cur,
                     todo, log, rec, legs, lock, owed, revokeTried, fannedOut>>
  BY DEF IInv, Queue, sessVars, cibaVars
<1>2. ~ Working(k) /\ ~ Working(k)' /\ \A j \in Cascades \ {k} : Working(j)' = Working(j)
  BY <1>1 DEF Working, TypeOK, WalkTypeOK
<1>3. LockInv'
  BY <1>1, <1>2 DEF TypeOK, WalkTypeOK, RevokeTypeOK, CascadeInv, LockInv
<1>4. WalkInv' /\ RecordInv'
  BY <1>1, <1>2 DEF TypeOK, WalkTypeOK, RevokeTypeOK, CascadeInv, WalkInv, RecordInv, Before
<1> QED
  BY <1>1, <1>3, <1>4 DEF CascadeInv, StoreInv, NoSessionStuckFenced, TornDownOnce,
     RemovalComesLast, Closed


\* Two cascades at work serve different users, so they have no session in common.
LEMMA Apart ==
  ASSUME CascadeInv, NEW j \in Cascades, NEW k \in Cascades, Working(j), Working(k),
         j # k
  PROVE  casUser[j] # casUser[k] /\ Before(j) \cap Before(k) = {}
<1>1. casUser[j] # casUser[k]
  BY DEF CascadeInv, LockInv
<1> QED
  BY <1>1 DEF CascadeInv, WalkInv

\* The fence and the entry into the first session keep the invariant.
LEMMA BeginStep ==
  ASSUME IInv, NEW k \in Cascades, BeginCascade(k)
  PROVE  CascadeInv'
<1> DEFINE u == casUser[k]
           mine == SessionsOf(u)
<1>1. TypeOK /\ CascadeInv
  BY DEF IInv
<1>2. PICK s \in mine : Enter(k, s, mine \ {s})
  BY DEF BeginCascade
<1>3. /\ casPc[k] = "waiting" /\ lock[u] = None /\ u \in Users
      /\ terminating' = terminating \cup mine
      /\ owed' = [t \in Sids |-> IF t \in mine THEN completedLog[t] ELSE owed[t]]
      /\ lock' = [lock EXCEPT ![u] = k]
      /\ UNCHANGED <<owner, store, terminated, completedLog, casUser, casReason, rec,
                     legs, revokeTried, fannedOut>>
  BY <1>1 DEF BeginCascade, Fence, LockFree, cibaVars, CascadeInv, WalkInv
<1>4. mine \subseteq store /\ mine \subseteq Sids /\ \A t \in mine : owner[t] = u
  BY <1>1 DEF SessionsOf, TypeOK, SessTypeOK
<1>5. mine \cap terminating = {}
  BY <1>1, <1>3, <1>4 DEF CascadeInv, NoSessionStuckFenced
<1>6. /\ casPc' = [casPc EXCEPT ![k] = casPc'[k]] /\ casPc'[k] \in {"barrier", "revoke"}
      /\ cur' = [cur EXCEPT ![k] = s] /\ todo' = [todo EXCEPT ![k] = mine \ {s}]
      /\ log' = [log EXCEPT ![k] = completedLog[s]]
  BY <1>1, <1>2 DEF Enter, TypeOK, WalkTypeOK
<1>7. /\ ~ Working(k) /\ Working(k)'
      /\ \A j \in Cascades \ {k} : /\ Working(j)' = Working(j)
                                   /\ Before(j)' = Before(j) /\ cur'[j] = cur[j]
                                   /\ casPc'[j] = casPc[j] /\ log'[j] = log[j]
                                   /\ todo'[j] = todo[j]
      /\ Before(k)' = mine /\ cur'[k] = s /\ log'[k] = completedLog[s]
      /\ todo'[k] = mine \ {s}
  BY <1>1, <1>3, <1>6 DEF Working, Before, TypeOK, WalkTypeOK
<1>8. \A j \in Cascades \ {k} : Working(j) => casUser[j] # u
  BY <1>1, <1>3, ConstantsOK DEF CascadeInv, LockInv
<1>9. StoreInv' /\ TornDownOnce' /\ RemovalComesLast'
  <2>1. \A t \in Sids : Closed(t) <=> Closed(t)'
    BY <1>3 DEF Closed
  <2>2. StoreInv'
    BY <1>1, <1>3, <1>4, <2>1, ConstantsOK DEF CascadeInv, StoreInv
  <2>3. RemovalComesLast'
    BY <1>1, <1>3, <1>4, <2>1 DEF CascadeInv, RemovalComesLast, Closed
  <2> QED
    BY <1>1, <1>3, <2>1, <2>2, <2>3 DEF CascadeInv, TornDownOnce
<1>10. LockInv'
  BY <1>1, <1>3, <1>7, <1>8, ConstantsOK DEF CascadeInv, LockInv, TypeOK, WalkTypeOK
<1>11. WalkInv'
  <2>1. ASSUME NEW j \in Cascades
        PROVE  casPc'[j] # "idle" => casUser'[j] \in Users /\ casReason'[j] \in Reasons
    BY <1>1, <1>3, <1>7 DEF CascadeInv, WalkInv
  <2>2. ASSUME NEW j \in Cascades, Working(j)'
        PROVE  /\ cur'[j] \in Sids /\ cur'[j] \notin todo'[j]
               /\ Before(j)' \subseteq store' \cap terminating'
               /\ \A t \in Before(j)' : owner'[t] = casUser'[j]
    <3>1. CASE j = k
      BY <1>3, <1>4, <1>7, <3>1
    <3>2. CASE j # k
      BY <1>1, <1>3, <1>7, <2>2, <3>2 DEF CascadeInv, WalkInv
    <3> QED
      BY <3>1, <3>2
  <2> QED
    BY <2>1, <2>2 DEF WalkInv
<1>12. RecordInv'
  <2>1. \A t \in Sids : owed'[t] \subseteq completedLog'[t]
    BY <1>1, <1>3 DEF CascadeInv, RecordInv
  <2>2. ASSUME NEW j \in Cascades, Working(j)'
        PROVE  /\ log'[j] \subseteq completedLog'[cur'[j]]
               /\ owed'[cur'[j]] \subseteq fannedOut' \cup log'[j]
    <3>1. CASE j = k
      BY <1>3, <1>4, <1>7, <3>1
    <3>2. CASE j # k
      <4>1. cur[j] \notin mine /\ cur[j] \in Sids
        BY <1>1, <1>4, <1>7, <1>8, <2>2, <3>2 DEF CascadeInv, WalkInv, Before
      <4> QED
        BY <1>1, <1>3, <1>7, <2>2, <3>2, <4>1 DEF CascadeInv, RecordInv
    <3> QED
      BY <3>1, <3>2
  <2>3. ASSUME NEW j \in Cascades, casPc'[j] = "fanout"
        PROVE  rec'[j] \in log'[j] /\ legs'[j] # {} /\ cur'[j] \in revokeTried'
    <3>1. j # k
      BY <1>6, <2>3
    <3> QED
      BY <1>1, <1>3, <1>7, <2>3, <3>1 DEF CascadeInv, RecordInv
  <2> QED
    BY <2>1, <2>2, <2>3 DEF RecordInv
<1>13. NoSessionStuckFenced'
  <2> SUFFICES ASSUME NEW t \in store, t \in terminating'
               PROVE  /\ lock'[owner[t]] # None
                      /\ t \in todo'[lock'[owner[t]]] \cup {cur'[lock'[owner[t]]]}
    BY <1>3 DEF NoSessionStuckFenced
  <2>1. CASE t \in mine
    BY <1>1, <1>3, <1>4, <1>7, <2>1, ConstantsOK DEF TypeOK, WalkTypeOK
  <2>2. CASE t \notin mine
    <3>1. t \in terminating /\ owner[t] # u /\ lock'[owner[t]] = lock[owner[t]]
      BY <1>1, <1>3, <2>2 DEF SessionsOf, TypeOK, SessTypeOK, WalkTypeOK
    <3>2. /\ lock[owner[t]] # None
          /\ t \in todo[lock[owner[t]]] \cup {cur[lock[owner[t]]]}
      BY <1>1, <3>1 DEF CascadeInv, NoSessionStuckFenced
    <3>3. owner[t] \in Users /\ lock[owner[t]] \in Cascades \ {k}
      BY <1>1, <1>7, <3>2 DEF CascadeInv, StoreInv, TypeOK, SessTypeOK, WalkTypeOK, LockInv
    <3> QED
      BY <1>7, <3>1, <3>2, <3>3
  <2> QED
    BY <2>1, <2>2
<1> QED
  BY <1>9, <1>10, <1>11, <1>12, <1>13 DEF CascadeInv

\* A cascade that finds nothing to do, or leaves the cancel barrier.
LEMMA WaitingStep ==
  ASSUME IInv, NEW k \in Cascades,
         CascadeAlreadyRun(k) \/ BarrierAcked(k) \/ BarrierTimeout(k)
  PROVE  CascadeInv'
<1>1. TypeOK /\ CascadeInv
  BY DEF IInv
<1>2. /\ casPc' = [casPc EXCEPT ![k] = casPc'[k]]
      /\ \/ casPc[k] = "waiting" /\ casPc'[k] = "done"
         \/ casPc[k] = "barrier" /\ casPc'[k] = "revoke"
      /\ UNCHANGED <<owner, store, terminating, terminated, completedLog, casUser, casReason,
                     cur, todo, log, rec, legs, lock, owed, revokeTried, fannedOut>>
  BY <1>1 DEF CascadeAlreadyRun, BarrierAcked, BarrierTimeout, LeaveBarrier, sessVars,
     cibaVars, TypeOK, WalkTypeOK
<1>3. \A j \in Cascades : /\ Working(j)' = Working(j)
                          /\ casPc'[j] = "idle" <=> casPc[j] = "idle"
                          /\ casPc'[j] = "fanout" <=> casPc[j] = "fanout"
  BY <1>1, <1>2 DEF Working, TypeOK, WalkTypeOK
<1>4. LockInv' /\ WalkInv' /\ RecordInv'
  <2>1. LockInv'
    BY <1>1, <1>2, <1>3 DEF CascadeInv, LockInv, TypeOK, WalkTypeOK
  <2>2. WalkInv'
    BY <1>1, <1>2, <1>3 DEF CascadeInv, WalkInv, Before
  <2>3. RecordInv'
    BY <1>1, <1>2, <1>3 DEF CascadeInv, RecordInv
  <2> QED
    BY <2>1, <2>2, <2>3
<1> QED
  BY <1>1, <1>2, <1>4 DEF CascadeInv, StoreInv, NoSessionStuckFenced, TornDownOnce,
     RemovalComesLast, Closed

\* The next record is taken: nothing about the sessions changes.
LEMMA RecordStep ==
  ASSUME IInv, NEW k \in Cascades, Working(k), NEW left \in SUBSET log[k],
         NextRecord(k, left), legs' = [legs EXCEPT ![k] = Receivers],
         owed[cur[k]] \subseteq fannedOut' \cup left, cur[k] \in revokeTried',
         fannedOut \subseteq fannedOut', revokeTried \subseteq revokeTried',
         UNCHANGED <<owner, terminating, completedLog, casUser, casReason, owed>>
  PROVE  CascadeInv'
<1>1. TypeOK /\ CascadeInv
  BY DEF IInv
<1>2. /\ casPc' = [casPc EXCEPT ![k] = "fanout"] /\ log' = [log EXCEPT ![k] = left]
      /\ legs'[k] # {} /\ rec'[k] \in left
      /\ \A j \in Cascades \ {k} : legs'[j] = legs[j] /\ rec'[j] = rec[j]
      /\ UNCHANGED <<store, terminated, lock, cur, todo>>
  BY <1>1, ConstantsOK DEF NextRecord, TypeOK, WalkTypeOK
<1>3. \A j \in Cascades : Working(j)' = Working(j)
  BY <1>1, <1>2 DEF Working, TypeOK, WalkTypeOK
<1>4. LockInv'
  BY <1>1, <1>2, <1>3 DEF CascadeInv, LockInv, TypeOK, WalkTypeOK
<1>5. WalkInv'
  BY <1>1, <1>2, <1>3 DEF CascadeInv, WalkInv, Before, Working, TypeOK, WalkTypeOK
<1>6. RecordInv'
  <2>1. \A s \in Sids : owed'[s] \subseteq completedLog'[s]
    BY <1>1 DEF CascadeInv, RecordInv
  <2>2. ASSUME NEW j \in Cascades, Working(j)'
        PROVE  /\ log'[j] \subseteq completedLog'[cur'[j]]
               /\ owed'[cur'[j]] \subseteq fannedOut' \cup log'[j]
               /\ casPc'[j] = "fanout" => /\ rec'[j] \in log'[j] /\ legs'[j] # {}
                                          /\ cur'[j] \in revokeTried'
    <3>1. CASE j = k
      BY <1>1, <1>2, <3>1 DEF CascadeInv, RecordInv, TypeOK, WalkTypeOK
    <3>2. CASE j # k
      BY <1>1, <1>2, <1>3, <2>2, <3>2 DEF CascadeInv, RecordInv, TypeOK, WalkTypeOK
    <3> QED
      BY <3>1, <3>2
  <2> QED
    BY <2>1, <2>2 DEF RecordInv, Working
<1>7. RemovalComesLast'
  BY <1>1, <1>2 DEF CascadeInv, RemovalComesLast, Closed
<1> QED
  BY <1>1, <1>2, <1>4, <1>5, <1>6, <1>7 DEF CascadeInv, StoreInv, NoSessionStuckFenced,
     TornDownOnce, Closed

\* A session leaves the store, and the cascade turns to the next one or ends.
LEMMA DropStep ==
  ASSUME IInv, NEW k \in Cascades, Working(k),
         DropSession(k), legs' = [legs EXCEPT ![k] = {}],
         owed[cur[k]] \subseteq fannedOut', cur[k] \in revokeTried',
         fannedOut \subseteq fannedOut', revokeTried \subseteq revokeTried',
         UNCHANGED <<owner, terminating, completedLog, casUser, casReason, owed>>
  PROVE  CascadeInv'
<1> DEFINE s == cur[k]
           u == casUser[k]
<1>1. TypeOK /\ CascadeInv
  BY DEF IInv
<1>2. /\ s \in Sids /\ s \in store \cap terminating /\ owner[s] = u /\ u \in Users
      /\ s \notin todo[k] /\ todo[k] \subseteq Sids /\ lock[u] = k /\ owner[s] # None
      /\ \A t \in todo[k] : t \in store \cap terminating /\ owner[t] = u
  BY <1>1, ConstantsOK DEF CascadeInv, WalkInv, LockInv, Before, Working, TypeOK, WalkTypeOK
<1>3. store' = store \ {s} /\ terminated' = [terminated EXCEPT ![s] = @ + 1]
  BY DEF DropSession, Remove
<1>4. \A t \in Sids : Closed(t)' <=> Closed(t) \/ t = s
  BY <1>2, <1>3 DEF Closed
<1>5. StoreInv' /\ TornDownOnce' /\ RemovalComesLast'
  <2>1. StoreInv'
    BY <1>1, <1>2, <1>3, <1>4 DEF CascadeInv, StoreInv
  <2>2. TornDownOnce'
    <3>1. ~ Closed(s)
      BY <1>2 DEF Closed
    <3> QED
      BY <1>1, <1>2, <1>3, <1>4, <3>1 DEF CascadeInv, TornDownOnce, TypeOK, SessTypeOK
  <2>3. RemovalComesLast'
    BY <1>1, <1>2, <1>4 DEF CascadeInv, RemovalComesLast
  <2> QED
    BY <2>1, <2>2, <2>3
<1>6. \A j \in Cascades \ {k} : Working(j) => casUser[j] # u /\ s \notin Before(j)
  BY <1>1, Apart DEF Before
<1>7. ASSUME \A j \in Cascades \ {k} : /\ casPc'[j] = casPc[j] /\ cur'[j] = cur[j]
                                       /\ todo'[j] = todo[j] /\ log'[j] = log[j]
      PROVE  \A j \in Cascades \ {k} :
               /\ Working(j)' = Working(j)
               /\ casPc'[j] # "idle" => casUser'[j] \in Users /\ casReason'[j] \in Reasons
               /\ Working(j) =>
                    /\ cur'[j] \in Sids /\ cur'[j] \notin todo'[j]
                    /\ Before(j)' \subseteq store' \cap terminating'
                    /\ \A t \in Before(j)' : owner'[t] = casUser'[j]
                    /\ log'[j] \subseteq completedLog'[cur'[j]]
                    /\ owed'[cur'[j]] \subseteq fannedOut' \cup log'[j]
               /\ casPc'[j] = "fanout" => /\ rec'[j] \in log'[j] /\ legs'[j] # {}
                                          /\ cur'[j] \in revokeTried'
  <2> TAKE j \in Cascades \ {k}
  <2>1. Working(j)' = Working(j) /\ Before(j)' = Before(j)
    BY <1>7 DEF Working, Before
  <2>2. rec'[j] = rec[j] /\ legs'[j] = legs[j]
    BY <1>1 DEF DropSession, Remove, TypeOK, WalkTypeOK
  <2>3. casPc'[j] # "idle" => casUser'[j] \in Users /\ casReason'[j] \in Reasons
    BY <1>1, <1>7 DEF CascadeInv, WalkInv
  <2>4. ASSUME Working(j)
        PROVE  /\ cur'[j] \in Sids /\ cur'[j] \notin todo'[j]
               /\ Before(j)' \subseteq store' \cap terminating'
               /\ \A t \in Before(j)' : owner'[t] = casUser'[j]
    BY <1>1, <1>3, <1>6, <1>7, <2>1, <2>4 DEF CascadeInv, WalkInv
  <2>5. ASSUME Working(j)
        PROVE  /\ log'[j] \subseteq completedLog'[cur'[j]]
               /\ owed'[cur'[j]] \subseteq fannedOut' \cup log'[j]
    BY <1>1, <1>7, <2>5 DEF CascadeInv, RecordInv
  <2>6. casPc'[j] = "fanout" => /\ rec'[j] \in log'[j] /\ legs'[j] # {}
                                /\ cur'[j] \in revokeTried'
    BY <1>1, <1>7, <2>2 DEF CascadeInv, RecordInv
  <2> QED
    BY <2>1, <2>3, <2>4, <2>5, <2>6
<1>8. CASE /\ todo[k] = {} /\ casPc' = [casPc EXCEPT ![k] = "done"]
           /\ lock' = [lock EXCEPT ![u] = None] /\ cur' = [cur EXCEPT ![k] = None]
           /\ log' = [log EXCEPT ![k] = {}] /\ UNCHANGED todo
  <2>1. /\ casPc'[k] = "done" /\ ~ Working(k)'
        /\ \A j \in Cascades \ {k} : /\ casPc'[j] = casPc[j] /\ cur'[j] = cur[j]
                                     /\ todo'[j] = todo[j] /\ log'[j] = log[j]
    BY <1>1, <1>8 DEF Working, TypeOK, WalkTypeOK
  <2>2. WalkInv'
    BY <1>1, <1>7, <2>1 DEF CascadeInv, WalkInv, Working
  <2>3. RecordInv'
    <3>1. \A t \in Sids : owed'[t] \subseteq completedLog'[t]
      BY <1>1 DEF CascadeInv, RecordInv
    <3> QED
      BY <1>7, <2>1, <3>1 DEF RecordInv
  <2>4. LockInv'
    <3>1. \A v \in Users : lock'[v] # None => v # u /\ lock'[v] = lock[v] /\ lock[v] # k
      BY <1>1, <1>2, <1>8, ConstantsOK DEF CascadeInv, LockInv, TypeOK, WalkTypeOK
    <3>2. \A v \in Users : lock'[v] # None =>
            Working(lock[v])' /\ casUser'[lock[v]] = v
      BY <1>1, <1>7, <2>1, <3>1 DEF CascadeInv, LockInv, TypeOK, WalkTypeOK
    <3>3. ASSUME NEW v \in Users, lock'[v] # None
          PROVE  /\ casPc'[lock'[v]] \in {"barrier", "revoke", "fanout"}
                 /\ casUser'[lock'[v]] = v
      BY <3>1, <3>2, <3>3 DEF Working
    <3>4. \A j \in Cascades : Working(j)' => lock'[casUser'[j]] = j
      BY <1>1, <1>2, <1>6, <1>7, <1>8, <2>1 DEF CascadeInv, LockInv, TypeOK, WalkTypeOK
    <3> QED
      BY <3>3, <3>4 DEF LockInv, Working
  <2>5. NoSessionStuckFenced'
    <3> SUFFICES ASSUME NEW t \in store', t \in terminating'
                 PROVE  /\ lock'[owner[t]] # None
                        /\ t \in todo'[lock'[owner[t]]] \cup {cur'[lock'[owner[t]]]}
      BY DEF NoSessionStuckFenced
    <3>1. /\ lock[owner[t]] # None /\ t # s /\ owner[t] \in Users
          /\ t \in todo[lock[owner[t]]] \cup {cur[lock[owner[t]]]}
      BY <1>1, <1>3 DEF CascadeInv, NoSessionStuckFenced, StoreInv, TypeOK, SessTypeOK
    <3>2. owner[t] # u
      BY <1>2, <1>8, <3>1
    <3>3. lock'[owner[t]] = lock[owner[t]] /\ lock[owner[t]] \in Cascades \ {k}
      BY <1>1, <1>8, <3>1, <3>2 DEF CascadeInv, LockInv, TypeOK, WalkTypeOK
    <3> QED
      BY <2>1, <3>1, <3>3
  <2> QED
    BY <1>5, <2>2, <2>3, <2>4, <2>5 DEF CascadeInv
<1>9. CASE (\E t \in todo[k] : Enter(k, t, todo[k] \ {t})) /\ UNCHANGED lock
  <2>1. PICK n \in todo[k] : Enter(k, n, todo[k] \ {n})
    BY <1>9
  <2>2. /\ casPc'[k] \in {"revoke", "barrier"} /\ cur'[k] = n /\ todo'[k] = todo[k] \ {n}
        /\ log'[k] = completedLog[n]
        /\ Working(k)' /\ Before(k)' = todo[k]
        /\ \A j \in Cascades \ {k} : /\ casPc'[j] = casPc[j] /\ cur'[j] = cur[j]
                                     /\ todo'[j] = todo[j] /\ log'[j] = log[j]
    BY <1>1, <2>1 DEF Enter, Working, Before, TypeOK, WalkTypeOK
  <2>3. \A j \in Cascades : Working(j)' <=> Working(j)
    BY <2>2 DEF Working
  <2>4. WalkInv'
    <3>1. /\ casUser'[k] \in Users /\ casReason'[k] \in Reasons
          /\ cur'[k] \in Sids /\ cur'[k] \notin todo'[k]
          /\ Before(k)' \subseteq store' \cap terminating'
          /\ \A t \in Before(k)' : owner'[t] = casUser'[k]
      BY <1>1, <1>2, <1>3, <2>2 DEF CascadeInv, WalkInv, Working
    <3> QED
      BY <1>7, <2>2, <2>3, <3>1 DEF WalkInv
  <2>5. RecordInv'
    <3>1. \A t \in Sids : owed'[t] \subseteq completedLog'[t]
      BY <1>1 DEF CascadeInv, RecordInv
    <3>2. /\ log'[k] \subseteq completedLog'[cur'[k]]
          /\ owed'[cur'[k]] \subseteq fannedOut' \cup log'[k]
          /\ casPc'[k] # "fanout"
      BY <1>2, <2>2, <3>1
    <3> QED
      BY <1>7, <2>2, <2>3, <3>1, <3>2 DEF RecordInv
  <2>6. LockInv'
    BY <1>1, <1>9, <2>3 DEF CascadeInv, LockInv, TypeOK, WalkTypeOK
  <2>7. NoSessionStuckFenced'
    <3> SUFFICES ASSUME NEW t \in store', t \in terminating'
                 PROVE  /\ lock'[owner[t]] # None
                        /\ t \in todo'[lock'[owner[t]]] \cup {cur'[lock'[owner[t]]]}
      BY DEF NoSessionStuckFenced
    <3>1. /\ lock[owner[t]] # None /\ t # s
          /\ t \in todo[lock[owner[t]]] \cup {cur[lock[owner[t]]]}
          /\ lock[owner[t]] \in Cascades
      BY <1>1, <1>3 DEF CascadeInv, NoSessionStuckFenced, LockInv, StoreInv, TypeOK,
         SessTypeOK, WalkTypeOK
    <3> QED
      BY <1>9, <2>2, <3>1
  <2> QED
    BY <1>5, <2>4, <2>5, <2>6, <2>7 DEF CascadeInv
<1> QED
  BY <1>8, <1>9 DEF DropSession, Remove, Release

\* The answer to the token-A revocation and the end of a fan-out leg.
LEMMA FanoutStep ==
  ASSUME IInv, NEW k \in Cascades,
         RevokeTokenA(k) \/ \E r \in Receivers : LegEnds(k, r)
  PROVE  CascadeInv'
<1>1. TypeOK /\ CascadeInv
  BY DEF IInv
<1>2. CASE RevokeTokenA(k)
  <2>1. /\ Working(k) /\ Proceed(k, log[k]) /\ log[k] \in SUBSET log[k]
        /\ owed[cur[k]] \subseteq fannedOut' \cup log[k]
        /\ cur[k] \in revokeTried' /\ fannedOut \subseteq fannedOut'
        /\ revokeTried \subseteq revokeTried'
        /\ UNCHANGED <<owner, terminating, completedLog, casUser, casReason, owed>>
    BY <1>1, <1>2 DEF RevokeTokenA, SubmitTokenA, CascadeInv, RecordInv, Working, cibaVars
  <2> QED
    BY <2>1, RecordStep, DropStep DEF Proceed
<1>3. ASSUME NEW r \in Receivers, LegEnds(k, r) PROVE CascadeInv'
  <2>1. CASE legs[k] # {r}
    <3>1. /\ legs' = [legs EXCEPT ![k] = @ \ {r}] /\ legs[k] \ {r} # {}
          /\ UNCHANGED <<owner, store, terminating, terminated, completedLog, casPc, casUser,
                         casReason, cur, todo, log, rec, lock, owed, revokeTried, fannedOut>>
      BY <1>3, <2>1 DEF LegEnds, cibaVars
    <3>2. RecordInv'
      BY <1>1, <3>1 DEF CascadeInv, RecordInv, Working, TypeOK, WalkTypeOK
    <3> QED
      BY <1>1, <3>1, <3>2 DEF CascadeInv, StoreInv, LockInv, WalkInv, NoSessionStuckFenced,
         TornDownOnce, RemovalComesLast, Working, Closed, Before
  <2>2. CASE legs[k] = {r}
    <3> DEFINE left == log[k] \ {rec[k]}
    <3>1. /\ Working(k) /\ Proceed(k, left) /\ left \in SUBSET log[k]
          /\ owed[cur[k]] \subseteq fannedOut' \cup left
          /\ cur[k] \in revokeTried' /\ fannedOut \subseteq fannedOut'
          /\ revokeTried \subseteq revokeTried'
          /\ UNCHANGED <<owner, terminating, completedLog, casUser, casReason, owed>>
      BY <1>1, <1>3, <2>2 DEF LegEnds, CascadeInv, RecordInv, Working, cibaVars
    <3> QED
      BY <3>1, RecordStep, DropStep DEF Proceed
  <2> QED
    BY <2>1, <2>2
<1> QED
  BY <1>2, <1>3

\* The steps that are neither a login, a recorded token, nor a cascade's.
OtherStep ==
  \/ UNCHANGED vars
  \/ \E c \in Chats, s \in Sids : PostChat(c, s) \/ PostReportAction(c, s)
  \/ \E s \in Sids : \E f \in Flows : PostCancel(s, f)
  \/ \E c \in Chats : \/ \E n \in 0..MaxCalls : Routed(c, n)
                      \/ StartCall(c) \/ SkipCall(c) \/ SendRaises(c) \/ SendAnswers(c)
                      \/ ConsentRequired(c) \/ AwaitError(c) \/ Reply(c) \/ Initiate(c)
  \/ \E f \in Flows : AgentAction(f) \/ CancelArrives(f)

\* Such a step leaves the sessions, the cascades and their records alone.
LEMMA OtherFrame ==
  ASSUME OtherStep
  PROVE  UNCHANGED <<owner, store, terminating, terminated, completedLog, casPc, casUser,
                     casReason, cur, todo, log, rec, legs, lock, owed, revokeTried, fannedOut>>
<1> DEFINE Frame ==
      UNCHANGED <<owner, store, terminating, terminated, completedLog, casPc, casUser,
                  casReason, cur, todo, log, rec, legs, lock, owed, revokeTried, fannedOut>>
<1> USE DEF sessVars, cibaVars, casVars, walkVars, revVars
<1>1. UNCHANGED vars => Frame
  BY DEF vars
<1>2. ASSUME NEW c \in Chats, NEW s \in Sids, PostChat(c, s) \/ PostReportAction(c, s)
      PROVE  Frame
  BY <1>2 DEF PostChat, PostReportAction
<1>3. ASSUME NEW s \in Sids, \E f \in Flows : PostCancel(s, f)
      PROVE  Frame
  BY <1>3 DEF PostCancel
<1>4. ASSUME NEW c \in Chats, NEW n \in 0..MaxCalls, Routed(c, n) PROVE Frame
  BY <1>4 DEF Routed
<1>5. ASSUME NEW c \in Chats,
             \/ StartCall(c) \/ SkipCall(c) \/ SendRaises(c) \/ SendAnswers(c)
             \/ ConsentRequired(c) \/ AwaitError(c) \/ Reply(c) \/ Initiate(c)
      PROVE  Frame
  BY <1>5 DEF StartCall, SkipCall, SendRaises, SendAnswers, CallSettled, ConsentRequired, AwaitError, LeaveAwait,
     Reply, Initiate, AgentStep
<1>6. ASSUME NEW f \in Flows, AgentAction(f) \/ CancelArrives(f) PROVE Frame
  BY <1>6 DEF AgentAction, AgentStep, CancelArrives, PollSend, PollCancelled,
     PollDeadline, PollPending, PollRefused, PollToken, ToolDone, ToolFails
<1> QED
  BY <1>1, <1>2, <1>3, <1>4, <1>5, <1>6 DEF OtherStep

\* So the steps OtherStep lists preserve the invariant.
LEMMA OtherSteps == ASSUME IInv, OtherStep PROVE CascadeInv'
BY OtherFrame, CascadeFrame DEF IInv

\* The invariant holds initially.
LEMMA InitIInv == Init => IInv
<1> SUFFICES ASSUME Init PROVE IInv
  OBVIOUS
<1>1. TypeOK
  BY InitTypes
<1>2. ChatInv /\ StoreInv /\ NoSessionStuckFenced /\ TornDownOnce /\ RemovalComesLast
  BY DEF Init, ChatInv, StoreInv, NoSessionStuckFenced, TornDownOnce, RemovalComesLast, Closed
<1>3. \A k \in Cascades : casPc[k] = "idle" /\ ~ Working(k)
  BY DEF Init, Working
<1>4. LockInv /\ WalkInv
  BY <1>3 DEF Init, LockInv, WalkInv
<1>5. RecordInv
  BY <1>3 DEF Init, RecordInv
<1> QED
  BY <1>1, <1>2, <1>4, <1>5 DEF IInv, CascadeInv

\* The invariant is preserved by every step: one step per kind of action.
LEMMA NextIInv == IInv /\ [Next]_vars => IInv'
<1> SUFFICES ASSUME IInv, [Next]_vars PROVE CascadeInv'
  BY NextTypes, NextChatInv DEF IInv
<1>1. ASSUME UserStep PROVE CascadeInv'
  <2>1. ASSUME NEW k \in Cascades, NEW s \in Sids, PostLogout(k, s) PROVE CascadeInv'
    <3>1. owner[s] \in Users
      BY <2>1 DEF PostLogout, IInv, CascadeInv, StoreInv, TypeOK, SessTypeOK
    <3> QED
      BY <2>1, <3>1, QueueStep DEF PostLogout, Reasons
  <2>2. ASSUME NEW k \in Cascades, NEW u \in Users, BackChannelLogout(k, u)
        PROVE  CascadeInv'
    BY <2>2, QueueStep DEF BackChannelLogout, Reasons
  <2> QED
    BY <1>1, <2>1, <2>2, LoginStep, OtherSteps DEF UserStep, OtherStep
<1>2. ASSUME NEW c \in Chats, ChatStep(c) \/ Initiate(c) PROVE CascadeInv'
  BY <1>2, ResultStep, OtherSteps DEF ChatStep, OtherStep
<1>3. ASSUME NEW f \in Flows, AgentAction(f) \/ CancelArrives(f) PROVE CascadeInv'
  BY <1>3, OtherSteps DEF OtherStep
<1>4. ASSUME NEW k \in Cascades, CascadeStep(k) PROVE CascadeInv'
  BY <1>4, BeginStep, WaitingStep, FanoutStep DEF CascadeStep
<1>5. CASE UNCHANGED vars
  BY <1>5, OtherSteps DEF OtherStep
<1> QED
  BY <1>1, <1>2, <1>3, <1>4, <1>5 DEF Next

\* IInv holds in every reachable state of the orchestrator: lock discipline, what
\* each cascade has before it, and which records it still has to fan out.
THEOREM Inductive == Spec => []IInv
<1> QED
  BY InitIInv, NextIInv, PTL DEF Spec

\* TypeOK: every variable keeps its type.
THEOREM TypeCorrect == Spec => []TypeOK
<1>1. IInv => TypeOK
  BY DEF IInv
<1> QED
  BY <1>1, Inductive, PTL

\* NoSessionStuckFenced: a fenced session still in the store is always before the
\* cascade that holds its user's lock (logout_handler: fence, then remove).
THEOREM FencedSessionsAreRemoved == Spec => []NoSessionStuckFenced
<1>1. IInv => NoSessionStuckFenced
  BY DEF IInv, CascadeInv
<1> QED
  BY <1>1, Inductive, PTL

\* TornDownOnce: racing logouts tear a session down once, with one event.
THEOREM OneTeardown == Spec => []TornDownOnce
<1>1. IInv => TornDownOnce
  BY DEF IInv, CascadeInv
<1> QED
  BY <1>1, Inductive, PTL

\* RemovalComesLast: no session leaves the store before its token-A and the tokens
\* it had logged when sign-out began were submitted for revocation.
THEOREM RemovalIsLast == Spec => []RemovalComesLast
<1>1. IInv => RemovalComesLast
  BY DEF IInv, CascadeInv
<1> QED
  BY <1>1, Inductive, PTL

-----------------------------------------------------------------------------
(* The cascade implements the abstract sign-out.                             *)

\* A step that changes nothing the refinement mapping reads is a stutter.
LEMMA StepStutters ==
  ASSUME UNCHANGED <<owner, store, terminating, completedLog, owed, fannedOut, terminated>>
  PROVE  UNCHANGED Promise!vars
BY DEF Promise!vars, Phase

\* The empty store is an initial state of SignOut.
LEMMA InitImplements == Init => Promise!Init
BY DEF Init, Promise!Init, Phase

\* A login opens a session.
LEMMA LoginImplements ==
  ASSUME IInv, NEW u \in Users, NEW s \in Sids, Login(u, s)
  PROVE  Promise!Next
<1>1. /\ owner \in [Sids -> Users \cup {None}] /\ owner[s] = None /\ s \notin terminating
      /\ owner' = [owner EXCEPT ![s] = u] /\ store' = store \cup {s}
      /\ UNCHANGED <<terminating, completedLog, owed, fannedOut, terminated>>
      /\ u # None
  BY ConstantsOK DEF IInv, CascadeInv, StoreInv, TypeOK, SessTypeOK, Login, Create, TakeReason, cibaVars,
     casVars, revVars
<1>2. Promise!Open(s)
  BY <1>1 DEF Promise!Open, Phase
<1> QED
  BY <1>2 DEF Promise!Next

\* A completed consent records a token.
LEMMA ResultImplements ==
  ASSUME IInv, NEW c \in Chats, AwaitResult(c)
  PROVE  Promise!Next
<1>1. /\ chatSess[c] \in Sids /\ owner[chatSess[c]] # None /\ CurrentFlow(c) \in Flows
      /\ completedLog' = [completedLog EXCEPT ![chatSess[c]] = @ \cup {CurrentFlow(c)}]
      /\ UNCHANGED <<owner, store, terminating, owed, fannedOut, terminated>>
  BY DEF IInv, ChatInv, AwaitResult, LeaveAwait, CurrentFlow, Flows, sessVars, casVars, revVars
<1>2. Promise!Record(chatSess[c], CurrentFlow(c))
  BY <1>1 DEF Promise!Record, Phase
<1> QED
  BY <1>1, <1>2 DEF Promise!Next

\* The start of a cascade fences all sessions of its user at once.
LEMMA BeginImplements ==
  ASSUME IInv, NEW k \in Cascades, BeginCascade(k)
  PROVE  Promise!Next
<1> DEFINE mine == SessionsOf(casUser[k])
<1>1. TypeOK /\ CascadeInv
  BY DEF IInv
<1>2. /\ mine # {} /\ lock[casUser[k]] = None
      /\ terminating' = terminating \cup mine
      /\ owed' = [t \in Sids |-> IF t \in mine THEN completedLog[t] ELSE owed[t]]
      /\ UNCHANGED <<owner, store, completedLog, fannedOut, terminated>>
  BY DEF BeginCascade, Fence, LockFree, cibaVars
<1>3. mine \subseteq store /\ mine \in SUBSET Sids /\ \A t \in mine : owner[t] = casUser[k]
  BY <1>1 DEF SessionsOf, TypeOK, SessTypeOK
<1>4. mine \cap terminating = {} /\ \A t \in mine : owner[t] # None
  BY <1>1, <1>2, <1>3 DEF CascadeInv, NoSessionStuckFenced, StoreInv
<1>5. /\ \A t \in mine : Phase(t) = "open" /\ Phase(t)' = "ending"
      /\ \A t \in Sids \ mine : Phase(t)' = Phase(t)
  BY <1>2, <1>3, <1>4 DEF Phase
<1>6. Promise!Fence(mine)
  BY <1>2, <1>3, <1>5 DEF Promise!Fence
<1> QED
  BY <1>3, <1>6 DEF Promise!Next

\* The end of a session's teardown closes it, the last record having been tried.
LEMMA DropImplements ==
  ASSUME IInv, NEW k \in Cascades, Working(k), DropSession(k),
         NEW T \in SUBSET completedLog[cur[k]], fannedOut' = fannedOut \cup T,
         owed[cur[k]] \subseteq fannedOut',
         UNCHANGED <<owner, terminating, completedLog, owed>>
  PROVE  Promise!Next
<1>1. /\ cur[k] \in Sids /\ cur[k] \in store \cap terminating /\ owner[cur[k]] # None
      /\ store' = store \ {cur[k]} /\ terminated' = [terminated EXCEPT ![cur[k]] = @ + 1]
  BY DEF IInv, CascadeInv, StoreInv, WalkInv, Before, DropSession, Remove
<1>2. \A t \in Sids : IF t = cur[k] THEN Phase(t) = "ending" /\ Phase(t)' = "closed"
                                    ELSE Phase(t)' = Phase(t)
  BY <1>1 DEF Phase
<1>3. Promise!Close(cur[k], T)
  BY <1>1, <1>2 DEF Promise!Close, Promise!Attempt
<1> QED
  BY <1>1, <1>3 DEF Promise!Next

\* The end of a fan-out leg revokes one token, closes the session, or stutters.
LEMMA FanoutImplements ==
  ASSUME IInv, NEW k \in Cascades,
         RevokeTokenA(k) \/ \E r \in Receivers : LegEnds(k, r)
  PROVE  Promise!Next \/ UNCHANGED Promise!vars
<1>1. TypeOK /\ CascadeInv
  BY DEF IInv
<1>2. CASE RevokeTokenA(k)
  <2>1. /\ Working(k) /\ Proceed(k, log[k])
        /\ owed[cur[k]] \subseteq fannedOut \cup log[k]
        /\ UNCHANGED <<owner, terminating, completedLog, owed, fannedOut>>
    BY <1>1, <1>2 DEF RevokeTokenA, SubmitTokenA, CascadeInv, RecordInv, Working, cibaVars
  <2>2. CASE NextRecord(k, log[k])
    BY <2>1, <2>2, StepStutters DEF NextRecord
  <2>3. CASE log[k] = {} /\ DropSession(k)
    <3>1. /\ {} \in SUBSET completedLog[cur[k]] /\ fannedOut' = fannedOut \cup {}
          /\ owed[cur[k]] \subseteq fannedOut'
      BY <2>1, <2>3
    <3> QED
      BY <2>1, <2>3, <3>1, DropImplements
  <2> QED
    BY <2>1, <2>2, <2>3 DEF Proceed
<1>3. ASSUME NEW r \in Receivers, LegEnds(k, r)
      PROVE  Promise!Next \/ UNCHANGED Promise!vars
  <2>1. CASE legs[k] # {r}
    BY <1>3, <2>1, StepStutters DEF LegEnds, cibaVars
  <2>2. CASE legs[k] = {r}
    <3>1. /\ Working(k) /\ Proceed(k, log[k] \ {rec[k]})
          /\ cur[k] \in Sids /\ cur[k] \in store \cap terminating /\ owner[cur[k]] # None
          /\ {rec[k]} \in SUBSET completedLog[cur[k]]
          /\ fannedOut' = fannedOut \cup {rec[k]}
          /\ owed[cur[k]] \subseteq fannedOut \cup log[k]
          /\ UNCHANGED <<owner, terminating, completedLog, owed>>
      BY <1>1, <1>3, <2>2
      DEF LegEnds, CascadeInv, StoreInv, WalkInv, RecordInv, Before, Working, cibaVars
    <3>2. CASE NextRecord(k, log[k] \ {rec[k]})
      <4>1. Phase(cur[k]) = "ending" /\ UNCHANGED <<store, terminated>>
        BY <3>1, <3>2 DEF Phase, NextRecord
      <4>2. Promise!Revoke(cur[k], {rec[k]})
        BY <3>1, <4>1 DEF Promise!Revoke, Promise!Attempt, Phase
      <4> QED
        BY <3>1, <4>2 DEF Promise!Next
    <3>3. CASE log[k] \ {rec[k]} = {} /\ DropSession(k)
      <4>1. owed[cur[k]] \subseteq fannedOut'
        BY <3>1, <3>3
      <4> QED
        BY <3>1, <3>3, <4>1, DropImplements
    <3> QED
      BY <3>1, <3>2, <3>3 DEF Proceed
  <2> QED
    BY <2>1, <2>2
<1> QED
  BY <1>2, <1>3

\* Every step of the orchestrator is a step of SignOut or a stutter.
LEMMA NextImplements ==
  IInv /\ [Next]_vars => [Promise!Next]_Promise!vars
<1> SUFFICES ASSUME IInv, [Next]_vars PROVE Promise!Next \/ UNCHANGED Promise!vars
  OBVIOUS
<1>1. CASE OtherStep
  BY <1>1, OtherFrame, StepStutters
<1>2. ASSUME NEW k \in Cascades, NEW u \in Users \cup {None}, NEW why \in Reasons,
             Queue(k, u, why)
      PROVE  UNCHANGED Promise!vars
  BY <1>2, StepStutters DEF Queue, sessVars, cibaVars
<1>3. ASSUME UserStep PROVE Promise!Next \/ UNCHANGED Promise!vars
  <2>1. ASSUME NEW k \in Cascades, NEW s \in Sids, PostLogout(k, s)
        PROVE  UNCHANGED Promise!vars
    <3>1. owner[s] \in Users \cup {None}
      BY DEF IInv, TypeOK, SessTypeOK
    <3> QED
      BY <1>2, <2>1, <3>1 DEF PostLogout, Reasons
  <2>2. ASSUME NEW k \in Cascades, NEW u \in Users, BackChannelLogout(k, u)
        PROVE  UNCHANGED Promise!vars
    BY <1>2, <2>2 DEF BackChannelLogout, Reasons
  <2> QED
    BY <1>1, <1>3, <2>1, <2>2, LoginImplements DEF UserStep, OtherStep
<1>4. ASSUME NEW k \in Cascades, CascadeStep(k)
      PROVE  Promise!Next \/ UNCHANGED Promise!vars
  <2>1. CASE CascadeAlreadyRun(k) \/ BarrierAcked(k) \/ BarrierTimeout(k)
    BY <2>1, StepStutters DEF CascadeAlreadyRun, BarrierAcked, BarrierTimeout, LeaveBarrier,
       sessVars, cibaVars
  <2> QED
    BY <1>4, <2>1, BeginImplements, FanoutImplements DEF CascadeStep
<1>5. ASSUME NEW c \in Chats, ChatStep(c) \/ Initiate(c)
      PROVE  Promise!Next \/ UNCHANGED Promise!vars
  BY <1>1, <1>5, ResultImplements DEF ChatStep, OtherStep
<1> QED
  BY <1>1, <1>3, <1>4, <1>5 DEF Next, OtherStep

\* The cascade, with its lock, barrier and fan-outs, refines SignOut: sessions
\* are fenced together, and each is closed once, after its owed tokens.
THEOREM Implements == Spec => ImplementsSignOut
<1> QED
  BY InitImplements, NextImplements, Inductive, PTL DEF Spec, ImplementsSignOut, Promise!Spec

-----------------------------------------------------------------------------
(* Consents, tokens, reasons: what the remaining safety properties rest on.  *)

\* What no step takes back: a running chat keeps its session, an issued token
\* stays issued, a session keeps its owner and its fence, a cascade its user.
Steady ==
  /\ \A c \in Chats : chatPc[c] # "idle" => chatPc'[c] # "idle" /\ chatSess'[c] = chatSess[c]
  /\ \A f \in Flows : flow[f] = "result" => flow'[f] = "result"
  /\ \A s \in Sids : owner[s] # None => owner'[s] = owner[s]
  /\ terminating \subseteq terminating'
  /\ \A k \in Cascades : casPc[k] \notin {"idle", "waiting"} =>
       casPc'[k] \notin {"idle", "waiting"} /\ casUser'[k] = casUser[k]

\* The end of a teardown removes one session and records the reason for its owner.
Removes(k) ==
  /\ store' = store \ {cur[k]}
  /\ RecordReason(owner[cur[k]], casReason[k])

\* A working cascade goes on, or ends.
LEMMA ProceedEffect ==
  ASSUME TypeOK, NEW k \in Cascades, NEW left, Proceed(k, left)
  PROVE  /\ \E p \in CasPcs \ {"idle", "waiting"} : casPc' = [casPc EXCEPT ![k] = p]
         /\ UNCHANGED <<store, pendingReason, later>> \/ Removes(k)
<1>1. CASE NextRecord(k, left)
  BY <1>1 DEF NextRecord, CasPcs
<1>2. CASE DropSession(k)
  BY <1>2 DEF DropSession, Remove, Enter, Removes, CasPcs
<1> QED
  BY <1>1, <1>2 DEF Proceed

\* A cascade's step on what the properties below are about.
LEMMA CascadeEffect ==
  ASSUME TypeOK, NEW k \in Cascades, CascadeStep(k)
  PROVE  /\ UNCHANGED <<owner, lastReason, cibaVars, chatVars, flow, casUser>>
         /\ casPc' = casPc \/ \E p \in CasPcs \ {"idle", "waiting"} : casPc' = [casPc EXCEPT ![k] = p]
         /\ \/ terminating' = terminating
            \/ /\ casPc' # casPc
               /\ terminating' = terminating \cup SessionsOf(casUser[k])
         /\ UNCHANGED <<store, pendingReason, later>> \/ (Removes(k) /\ Working(k))
         /\ UNCHANGED <<held, denied>> \/ \E r \in Receivers : casPc[k] = "fanout" /\ LegOutcome(k, r)
<1>1. CASE BeginCascade(k)
  <2>1. casPc' # casPc /\ \E p \in CasPcs \ {"idle", "waiting"} : casPc' = [casPc EXCEPT ![k] = p]
    <3>1. casPc[k] = "waiting" /\ \E p \in {"revoke", "barrier"} : casPc' = [casPc EXCEPT ![k] = p]
      BY <1>1 DEF BeginCascade, Enter
    <3> QED
      BY <3>1 DEF CasPcs, TypeOK, WalkTypeOK
  <2>2. terminating' = terminating \cup SessionsOf(casUser[k])
    BY <1>1 DEF BeginCascade, Fence
  <2>3. UNCHANGED <<owner, lastReason, cibaVars, chatVars, flow, casUser, store, pendingReason, later,
                 held, denied>>
    BY <1>1 DEF BeginCascade, agentVars
  <2> QED
    BY <2>1, <2>2, <2>3
<1>2. CASE CascadeAlreadyRun(k) \/ BarrierAcked(k) \/ BarrierTimeout(k)
  BY <1>2 DEF CascadeAlreadyRun, BarrierAcked, BarrierTimeout, LeaveBarrier, CasPcs, sessVars, agentVars
<1>3. CASE RevokeTokenA(k)
  <2>1. Working(k) /\ Proceed(k, log[k]) /\ terminating' = terminating
        /\ UNCHANGED <<owner, lastReason, cibaVars, chatVars, flow, casUser, held, denied>>
    BY <1>3 DEF RevokeTokenA, SubmitTokenA, Working, agentVars
  <2> QED
    BY <2>1, ProceedEffect
<1>4. ASSUME NEW r \in Receivers, LegEnds(k, r)
      PROVE  /\ UNCHANGED <<owner, lastReason, cibaVars, chatVars, flow, casUser, terminating>>
             /\ casPc' = casPc \/ \E p \in CasPcs \ {"idle", "waiting"} : casPc' = [casPc EXCEPT ![k] = p]
             /\ UNCHANGED <<store, pendingReason, later>> \/ (Removes(k) /\ Working(k))
             /\ casPc[k] = "fanout" /\ LegOutcome(k, r)
  <2>1. Working(k) /\ casPc[k] = "fanout" /\ LegOutcome(k, r)
        /\ UNCHANGED <<owner, lastReason, cibaVars, chatVars, flow, casUser, terminating>>
    BY <1>4 DEF LegEnds, Working
  <2>2. UNCHANGED <<store, pendingReason, later, casPc>> \/ Proceed(k, log[k] \ {rec[k]})
    BY <1>4 DEF LegEnds
  <2> QED
    BY <2>1, <2>2, ProceedEffect
<1> QED
  BY <1>1, <1>2, <1>3, <1>4 DEF CascadeStep

\* The steps that touch neither the sessions' owners, fences and reasons, nor a
\* cascade, nor a chat: the agent's, and cancels.
LEMMA AgentEffect ==
  ASSUME TypeOK, NEW f \in Flows, AgentAction(f) \/ CancelArrives(f)
  PROVE  /\ UNCHANGED <<sessVars, cibaVars, chatVars, casVars>>
         /\ \A g \in Flows : flow[g] = "result" => flow'[g] = "result"
         /\ held' = held \/ (held' = held \cup {f} /\ flow[f] = "minted" /\ flow'[f] = "result")
<1>1. CASE CancelArrives(f)
  BY <1>1 DEF CancelArrives
<1>2. ASSUME NEW from \in {"none", "sleeping", "posting", "minted"}, NEW to, AgentStep(f, from, to)
      PROVE  /\ UNCHANGED <<sessVars, cibaVars, chatVars, casVars>>
             /\ \A g \in Flows : flow[g] = "result" => flow'[g] = "result"
             /\ flow'[f] = to
  BY <1>2 DEF AgentStep, TypeOK, AgentTypeOK
<1>3. CASE ToolDone(f)
  BY <1>2, <1>3 DEF ToolDone, AgentStep
<1>4. CASE PollSend(f) \/ PollCancelled(f) \/ PollDeadline(f) \/ PollPending(f) \/ PollRefused(f)
           \/ PollToken(f) \/ ToolFails(f)
  BY <1>2, <1>4 DEF PollSend, PollCancelled, PollDeadline, PollPending, PollRefused, PollToken, ToolFails
<1> QED
  BY <1>1, <1>3, <1>4 DEF AgentAction

\* A consent that starts touches neither sessions nor cascades.
LEMMA InitiateEffect ==
  ASSUME IInv, NEW c \in Chats, Initiate(c)
  PROVE  /\ UNCHANGED <<sessVars, cibaVars, chatVars, casVars, held>>
         /\ \A g \in Flows : flow[g] = "result" => flow'[g] = "result"
  BY DEF Initiate, AgentStep, IInv, TypeOK, AgentTypeOK

\* A chat's own step on what the properties are about.
LEMMA ChatEffect ==
  ASSUME IInv, NEW c \in Chats, ChatStep(c)
  PROVE  /\ UNCHANGED <<owner, store, terminating, terminated, pendingReason, later, chatSess, agentVars, casVars>>
         /\ chatPc[c] # "idle"
         /\ \E p \in ChatPcs \ {"idle"} : chatPc' = [chatPc EXCEPT ![c] = p]
         /\ UNCHANGED <<lastReason, reasonSends>> \/ StartCall(c)
         /\ UNCHANGED completedLog \/ AwaitResult(c)
<1> USE DEF sessVars, cibaVars, ChatPcs
<1>1. ASSUME NEW n \in 0 .. MaxCalls, Routed(c, n)
      PROVE  /\ UNCHANGED <<sessVars, cibaVars, chatSess, reasonSends, agentVars, casVars>>
             /\ chatPc[c] # "idle"
             /\ \E p \in ChatPcs \ {"idle"} : chatPc' = [chatPc EXCEPT ![c] = p]
  BY <1>1 DEF Routed
<1>2. CASE StartCall(c)
  BY <1>2 DEF StartCall
<1>3. CASE SkipCall(c) \/ SendRaises(c) \/ SendAnswers(c)
  BY <1>3 DEF SkipCall, SendRaises, SendAnswers, CallSettled, NextCall
<1>4. CASE ConsentRequired(c)
  BY <1>4 DEF ConsentRequired
<1>5. CASE AwaitResult(c) \/ AwaitError(c)
  BY <1>5 DEF AwaitResult, AwaitError, LeaveAwait, NextCall
<1>6. CASE Reply(c)
  BY <1>6 DEF Reply
<1> QED
  BY <1>1, <1>2, <1>3, <1>4, <1>5, <1>6 DEF ChatStep

\* Every step is steady.
LEMMA StepIsSteady == IInv /\ [Next]_vars => Steady
<1> SUFFICES ASSUME IInv, [Next]_vars PROVE Steady
  OBVIOUS
<1>1. TypeOK
  BY DEF IInv
<1> USE DEF Steady
<1>2. CASE UNCHANGED vars
  BY <1>2 DEF vars, sessVars, chatVars, agentVars, casVars, walkVars, revVars
<1>3. ASSUME NEW u \in Users, NEW s \in Sids, Login(u, s) PROVE Steady
  BY <1>1, <1>3 DEF Login, Create, TakeReason, TypeOK, SessTypeOK, chatVars, agentVars, casVars, walkVars, revVars
<1>4. ASSUME NEW c \in Chats, NEW s \in Sids, PostChat(c, s) \/ PostReportAction(c, s) PROVE Steady
  BY <1>1, <1>4 DEF PostChat, PostReportAction, TypeOK, ChatTypeOK, sessVars, agentVars, casVars, walkVars, revVars
<1>5. ASSUME NEW s \in Sids, \E f \in Flows : PostCancel(s, f) PROVE Steady
  BY <1>5 DEF PostCancel, sessVars, chatVars, casVars, walkVars, revVars
<1>6. ASSUME NEW k \in Cascades, NEW u, NEW why, Queue(k, u, why) PROVE Steady
  BY <1>1, <1>6 DEF Queue, TypeOK, WalkTypeOK, RevokeTypeOK, sessVars, chatVars, agentVars
<1>7. ASSUME NEW c \in Chats, ChatStep(c) PROVE Steady
  BY <1>1, <1>7, ChatEffect DEF TypeOK, ChatTypeOK, ChatPcs, agentVars, casVars, walkVars, revVars
<1>8. ASSUME NEW c \in Chats, Initiate(c) PROVE Steady
  BY <1>8, InitiateEffect DEF sessVars, chatVars, casVars, walkVars, revVars
<1>9. ASSUME NEW f \in Flows, AgentAction(f) \/ CancelArrives(f) PROVE Steady
  BY <1>1, <1>9, AgentEffect DEF sessVars, chatVars, casVars, walkVars, revVars
<1>10. ASSUME NEW k \in Cascades, CascadeStep(k) PROVE Steady
  <2>1. \A j \in Cascades : casPc[j] \notin {"idle", "waiting"} => casPc'[j] \notin {"idle", "waiting"}
    BY <1>1, <1>10, CascadeEffect DEF TypeOK, WalkTypeOK
  <2> QED
    BY <1>1, <1>10, <2>1, CascadeEffect DEF chatVars
<1> QED
  BY <1>2, <1>3, <1>4, <1>5, <1>6, <1>7, <1>8, <1>9, <1>10
  DEF Next, UserStep, PostLogout, BackChannelLogout

\* A consent is pending on the session whose chat awaits it now, and none of those
\* acknowledged lies before its chat: the calls of a chat only count down.
AwaitInv ==
  /\ \A s \in Sids : \A f \in Flows :
       f \in pendingCiba[s] <=> chatPc[f[1]] = "awaiting" /\ chatSess[f[1]] = s /\ calls[f[1]] = f[2]
  /\ \A f \in acked : chatPc[f[1]] \notin {"idle", "routing"} /\ calls[f[1]] < f[2]

\* Every step keeps AwaitInv.
LEMMA StepKeepsAwait == IInv /\ AwaitInv /\ [Next]_vars => AwaitInv'
<1> SUFFICES ASSUME IInv, AwaitInv, [Next]_vars PROVE AwaitInv'
  OBVIOUS
<1>1. TypeOK /\ ChatInv /\ \A f \in Flows : f[1] \in Chats /\ f[2] \in 1 .. MaxCalls /\ f = <<f[1], f[2]>>
  BY DEF IInv, Flows
<1>2. /\ chatPc \in [Chats -> ChatPcs] /\ calls \in [Chats -> 0 .. MaxCalls]
      /\ chatSess \in [Chats -> Sids \cup {None}]
      /\ pendingCiba \in [Sids -> SUBSET Flows] /\ acked \subseteq Flows /\ MaxCalls \in Nat
  BY <1>1, ConstantsOK DEF TypeOK, ChatTypeOK, CibaTypeOK
<1>3. ASSUME UNCHANGED <<chatPc, chatSess, calls, pendingCiba, acked>> PROVE AwaitInv'
  BY <1>3 DEF AwaitInv
<1>4. ASSUME NEW c \in Chats, NEW s \in Sids, PostChat(c, s) \/ PostReportAction(c, s) PROVE AwaitInv'
  <2>1. /\ chatPc[c] = "idle" /\ chatPc'[c] # "awaiting" /\ UNCHANGED <<pendingCiba, acked>>
        /\ \A d \in Chats : d # c => chatPc'[d] = chatPc[d] /\ chatSess'[d] = chatSess[d] /\ calls'[d] = calls[d]
    BY <1>2, <1>4 DEF PostChat, PostReportAction, cibaVars
  <2>2. \A f \in acked : f[1] # c
    BY <2>1 DEF AwaitInv
  <2> QED
    BY <1>1, <1>2, <2>1, <2>2 DEF AwaitInv
<1>5. ASSUME NEW c \in Chats, NEW n \in 0 .. MaxCalls, Routed(c, n) PROVE AwaitInv'
  <2>1. /\ chatPc[c] = "routing" /\ chatPc'[c] # "awaiting" /\ UNCHANGED <<pendingCiba, acked, chatSess>>
        /\ \A d \in Chats : d # c => chatPc'[d] = chatPc[d] /\ calls'[d] = calls[d]
    BY <1>2, <1>5 DEF Routed, cibaVars
  <2>2. \A f \in acked : f[1] # c
    BY <2>1 DEF AwaitInv
  <2> QED
    BY <1>1, <1>2, <2>1, <2>2 DEF AwaitInv
<1>6. ASSUME NEW c \in Chats, StartCall(c) \/ Reply(c) PROVE AwaitInv'
  <2>1. /\ chatPc[c] \notin {"awaiting", "idle", "routing"} /\ chatPc'[c] \notin {"awaiting", "idle", "routing"}
        /\ UNCHANGED <<pendingCiba, acked, chatSess, calls>>
        /\ \A d \in Chats : d # c => chatPc'[d] = chatPc[d]
    BY <1>2, <1>6 DEF StartCall, Reply, cibaVars
  <2> QED
    BY <1>1, <1>2, <2>1 DEF AwaitInv
<1>7. ASSUME NEW c \in Chats, chatPc[c] \in {"ready", "sending", "awaiting"}, NextCall(c)
      PROVE  /\ calls'[c] = calls[c] - 1 /\ calls[c] \in 1 .. MaxCalls
             /\ chatPc'[c] \notin {"awaiting", "idle", "routing"}
             /\ \A d \in Chats : d # c => chatPc'[d] = chatPc[d] /\ calls'[d] = calls[d]
  BY <1>1, <1>2, <1>7 DEF NextCall, ChatInv
<1>8. ASSUME NEW c \in Chats, SkipCall(c) \/ SendRaises(c) \/ SendAnswers(c) PROVE AwaitInv'
  <2>1. chatPc[c] \in {"ready", "sending"} /\ NextCall(c) /\ UNCHANGED <<pendingCiba, acked, chatSess>>
    BY <1>8 DEF SkipCall, SendRaises, SendAnswers, CallSettled, cibaVars
  <2> QED
    BY <1>1, <1>2, <1>7, <2>1 DEF AwaitInv
<1>9. ASSUME NEW c \in Chats, ConsentRequired(c) PROVE AwaitInv'
  <2> DEFINE t == chatSess[c]
  <2>1. /\ chatPc[c] = "sending" /\ chatPc'[c] = "awaiting" /\ UNCHANGED <<acked, chatSess, calls>>
        /\ \A d \in Chats : d # c => chatPc'[d] = chatPc[d]
        /\ t \in Sids /\ calls[c] \in 1 .. MaxCalls
    BY <1>1, <1>2, <1>9 DEF ConsentRequired, ChatInv
  <2>2. pendingCiba'[t] = pendingCiba[t] \cup {<<c, calls[c]>>} /\ \A s \in Sids : s # t => pendingCiba'[s] = pendingCiba[s]
    BY <1>2, <1>9, <2>1 DEF ConsentRequired, CurrentFlow
  <2>3. \A s \in Sids : \A f \in Flows :
          f \in pendingCiba'[s] <=> chatPc'[f[1]] = "awaiting" /\ chatSess'[f[1]] = s /\ calls'[f[1]] = f[2]
    BY <1>1, <1>2, <2>1, <2>2 DEF AwaitInv
  <2>4. \A f \in acked : chatPc'[f[1]] \notin {"idle", "routing"}
    BY <1>1, <1>2, <2>1 DEF AwaitInv
  <2> QED
    BY <2>1, <2>3, <2>4 DEF AwaitInv
<1>10. ASSUME NEW c \in Chats, LeaveAwait(c) PROVE AwaitInv'
  <2> DEFINE t == chatSess[c]
  <2>1. chatPc[c] = "awaiting" /\ NextCall(c) /\ UNCHANGED chatSess /\ t \in Sids
        /\ acked' = acked \cup {<<c, calls[c]>>}
    BY <1>1, <1>10 DEF LeaveAwait, ChatInv, CurrentFlow
  <2>2. pendingCiba'[t] = pendingCiba[t] \ {<<c, calls[c]>>} /\ \A s \in Sids : s # t => pendingCiba'[s] = pendingCiba[s]
    BY <1>2, <1>10, <2>1 DEF LeaveAwait, CurrentFlow
  <2>3. \A s \in Sids : \A f \in Flows :
          f \in pendingCiba'[s] <=> chatPc'[f[1]] = "awaiting" /\ chatSess'[f[1]] = s /\ calls'[f[1]] = f[2]
    <3> SUFFICES ASSUME NEW s \in Sids, NEW f \in Flows
                 PROVE  f \in pendingCiba'[s] <=>
                          chatPc'[f[1]] = "awaiting" /\ chatSess'[f[1]] = s /\ calls'[f[1]] = f[2]
      OBVIOUS
    <3>1. CASE f[1] = c
      BY <1>1, <1>7, <2>1, <2>2, <3>1 DEF AwaitInv
    <3>2. CASE f[1] # c
      BY <1>1, <1>7, <2>1, <2>2, <3>2 DEF AwaitInv
    <3> QED
      BY <3>1, <3>2
  <2>4. \A f \in acked' : chatPc'[f[1]] \notin {"idle", "routing"} /\ calls'[f[1]] < f[2]
    BY <1>1, <1>2, <1>7, <2>1 DEF AwaitInv
  <2> QED
    BY <2>3, <2>4 DEF AwaitInv
<1>11. ASSUME NEW c \in Chats, ChatStep(c) PROVE AwaitInv'
  BY <1>5, <1>6, <1>8, <1>9, <1>10, <1>11 DEF ChatStep, AwaitResult, AwaitError
<1>12. ASSUME NEW c \in Chats, Initiate(c) PROVE AwaitInv'
  BY <1>3, <1>12, InitiateEffect DEF chatVars, cibaVars
<1>13. ASSUME NEW f \in Flows, AgentAction(f) \/ CancelArrives(f) PROVE AwaitInv'
  BY <1>1, <1>3, <1>13, AgentEffect DEF chatVars, cibaVars
<1>14. ASSUME NEW k \in Cascades, CascadeStep(k) PROVE AwaitInv'
  BY <1>1, <1>3, <1>14, CascadeEffect DEF chatVars, cibaVars
<1>15. ASSUME \/ UNCHANGED vars
              \/ \E u \in Users, s \in Sids : Login(u, s)
              \/ \E s \in Sids : \E f \in Flows : PostCancel(s, f)
              \/ \E k \in Cascades, s \in Sids : PostLogout(k, s)
              \/ \E k \in Cascades, u \in Users : BackChannelLogout(k, u)
       PROVE  AwaitInv'
  BY <1>3, <1>15 DEF vars, Login, Create, TakeReason, PostCancel, PostLogout, BackChannelLogout, Queue,
     chatVars, cibaVars
<1> QED
  BY <1>4, <1>11, <1>12, <1>13, <1>14, <1>15 DEF Next, UserStep

\* PendingIsAwaited: a session's pending entries are the consents its chats await,
\* so that a barrier passed in time has seen them end (BLOCK-A).
THEOREM BarrierSeesAwaits == Spec => []PendingIsAwaited
<1>1. Init => AwaitInv
  BY DEF Init, AwaitInv, Flows
<1>2. IInv /\ AwaitInv => PendingIsAwaited
  <2> SUFFICES ASSUME IInv, AwaitInv, NEW s \in Sids
               PROVE  pendingCiba[s] = AwaitedIn(s) /\ acked \cap pendingCiba[s] = {}
    BY DEF PendingIsAwaited
  <2>1. pendingCiba[s] \subseteq Flows /\ \A f \in Flows : f[1] \in Chats /\ f = <<f[1], f[2]>>
    BY DEF IInv, TypeOK, CibaTypeOK, Flows
  <2>2. \A c \in Chats : chatPc[c] = "awaiting" => <<c, calls[c]>> \in Flows
    BY DEF IInv, ChatInv, Flows
  <2>3. pendingCiba[s] = AwaitedIn(s)
    BY <2>1, <2>2 DEF AwaitInv, AwaitedIn, CurrentFlow
  <2>4. \A f \in acked : f \notin pendingCiba[s]
    <3> TAKE f \in acked
    <3>1. f \in Flows /\ calls[f[1]] < f[2] /\ calls[f[1]] \in Nat
      BY DEF AwaitInv, IInv, TypeOK, CibaTypeOK, ChatTypeOK, Flows
    <3> QED
      BY <3>1 DEF AwaitInv
  <2> QED
    BY <2>3, <2>4
<1> QED
  BY <1>1, <1>2, StepKeepsAwait, Inductive, PTL DEF Spec

\* Only a result is recorded, cached or revoked; a recorded token is its session's
\* own, and a revoked one is a fenced session's.
TokenInv ==
  /\ \A s \in Sids : \A f \in completedLog[s] :
       flow[f] = "result" /\ chatPc[f[1]] # "idle" /\ chatSess[f[1]] = s
  /\ \A f \in held : flow[f] = "result"
  /\ \A r \in Receivers : \A f \in denied[r] :
       flow[f] = "result" /\ chatPc[f[1]] # "idle" /\ chatSess[f[1]] \in terminating
  /\ RevokedNotCached

\* A fence is the work of a cascade of the session's owner.
FenceInv ==
  \A s \in terminating :
    \E k \in Cascades : casUser[k] = owner[s] /\ casPc[k] \notin {"idle", "waiting"}

\* Every step keeps TokenInv.
LEMMA StepKeepsTokens == IInv /\ TokenInv /\ [Next]_vars => TokenInv'
<1> SUFFICES ASSUME IInv, TokenInv, [Next]_vars PROVE TokenInv'
  OBVIOUS
<1>1. /\ TypeOK /\ Steady /\ \A f \in Flows : f[1] \in Chats
      /\ completedLog \in [Sids -> SUBSET Flows] /\ held \subseteq Flows
      /\ denied \in [Receivers -> SUBSET Flows] /\ Agent \in Receivers
  BY StepIsSteady, ConstantsOK DEF IInv, TypeOK, CibaTypeOK, AgentTypeOK, RevokeTypeOK, Flows
<1>2. /\ \A s \in Sids : \A f \in completedLog[s] :
           flow'[f] = "result" /\ chatPc'[f[1]] # "idle" /\ chatSess'[f[1]] = s
      /\ \A f \in held : flow'[f] = "result"
      /\ \A r \in Receivers : \A f \in denied[r] :
           flow'[f] = "result" /\ chatPc'[f[1]] # "idle" /\ chatSess'[f[1]] \in terminating'
  <2>1. \A s \in Sids : \A f \in completedLog[s] : f \in Flows
    BY <1>1
  <2>2. \A r \in Receivers : \A f \in denied[r] : f \in Flows
    BY <1>1
  <2> QED
    BY <1>1, <2>1, <2>2 DEF TokenInv, Steady
<1>3. ASSUME UNCHANGED <<completedLog, held, denied>> PROVE TokenInv'
  BY <1>2, <1>3 DEF TokenInv, RevokedNotCached
<1>4. ASSUME NEW c \in Chats, AwaitResult(c) PROVE TokenInv'
  <2>1. /\ chatPc[c] = "awaiting" /\ flow[CurrentFlow(c)] = "result" /\ UNCHANGED <<held, denied>>
        /\ completedLog' = [completedLog EXCEPT ![chatSess[c]] = @ \cup {CurrentFlow(c)}]
    BY <1>4 DEF AwaitResult, LeaveAwait, agentVars, casVars, revVars
  <2>2. CurrentFlow(c) \in Flows /\ CurrentFlow(c)[1] = c
    BY <2>1 DEF IInv, ChatInv, CurrentFlow, Flows
  <2>3. flow'[CurrentFlow(c)] = "result" /\ chatPc'[c] # "idle" /\ chatSess'[c] = chatSess[c]
    BY <1>1, <2>1, <2>2 DEF Steady
  <2>4. \A s \in Sids : \A f \in completedLog'[s] :
          flow'[f] = "result" /\ chatPc'[f[1]] # "idle" /\ chatSess'[f[1]] = s
    <3> SUFFICES ASSUME NEW s \in Sids, NEW f \in completedLog'[s]
                 PROVE  flow'[f] = "result" /\ chatPc'[f[1]] # "idle" /\ chatSess'[f[1]] = s
      OBVIOUS
    <3>1. f \in completedLog[s] \/ (s = chatSess[c] /\ f = CurrentFlow(c))
      BY <1>1, <2>1
    <3> QED
      BY <1>2, <2>2, <2>3, <3>1
  <2> QED
    BY <1>2, <2>1, <2>4 DEF TokenInv, RevokedNotCached
<1>5. ASSUME NEW c \in Chats, ChatStep(c) PROVE TokenInv'
  <2>1. UNCHANGED <<held, denied>> /\ (UNCHANGED completedLog \/ AwaitResult(c))
    BY <1>5, ChatEffect DEF agentVars, casVars, revVars
  <2> QED
    BY <1>3, <1>4, <2>1
<1>6. ASSUME NEW f \in Flows, AgentAction(f) \/ CancelArrives(f) PROVE TokenInv'
  <2>1. /\ UNCHANGED <<completedLog, denied>>
        /\ held' = held \/ (held' = held \cup {f} /\ flow[f] = "minted" /\ flow'[f] = "result")
    BY <1>1, <1>6, AgentEffect DEF cibaVars, casVars, revVars
  <2>2. flow[f] = "minted" => f \notin denied[Agent]
    BY <1>1 DEF TokenInv
  <2> QED
    BY <1>2, <1>3, <2>1, <2>2 DEF TokenInv, RevokedNotCached
<1>7. ASSUME NEW c \in Chats, Initiate(c) PROVE TokenInv'
  BY <1>3, <1>7, InitiateEffect DEF cibaVars, casVars, revVars
<1>8. ASSUME NEW k \in Cascades, CascadeStep(k) PROVE TokenInv'
  <2>1. UNCHANGED completedLog
    BY <1>1, <1>8, CascadeEffect DEF cibaVars
  <2>2. ASSUME NEW r \in Receivers, casPc[k] = "fanout", LegOutcome(k, r) PROVE TokenInv'
    <3>1. rec[k] \in completedLog[cur[k]] /\ cur[k] \in Sids /\ cur[k] \in terminating
      BY <2>2 DEF IInv, CascadeInv, RecordInv, WalkInv, Working, Before
    <3>2. /\ flow'[rec[k]] = "result" /\ chatPc'[rec[k][1]] # "idle"
          /\ chatSess'[rec[k][1]] \in terminating'
      BY <1>1, <1>2, <3>1 DEF Steady
    <3>3. CASE UNCHANGED <<denied, held>>
      BY <1>3, <2>1, <3>3
    <3>4. CASE /\ denied' = [denied EXCEPT ![r] = @ \cup {rec[k]}]
               /\ held' = IF r = Agent THEN held \ {rec[k]} ELSE held
      <4>1. \A q \in Receivers : \A f \in denied'[q] : f \in denied[q] \/ f = rec[k]
        BY <1>1, <3>4
      <4>2. \A q \in Receivers : \A f \in denied'[q] :
              flow'[f] = "result" /\ chatPc'[f[1]] # "idle" /\ chatSess'[f[1]] \in terminating'
        BY <1>2, <3>2, <4>1
      <4>3. RevokedNotCached'
        BY <1>1, <3>4 DEF TokenInv, RevokedNotCached
      <4> QED
        BY <1>2, <2>1, <3>4, <4>2, <4>3 DEF TokenInv
    <3> QED
      BY <2>2, <3>3, <3>4 DEF LegOutcome
  <2> QED
    BY <1>1, <1>3, <1>8, <2>1, <2>2, CascadeEffect
<1>9. ASSUME \/ UNCHANGED vars
             \/ \E u \in Users, s \in Sids : Login(u, s)
             \/ \E c \in Chats, s \in Sids : PostChat(c, s) \/ PostReportAction(c, s)
             \/ \E s \in Sids : \E f \in Flows : PostCancel(s, f)
             \/ \E k \in Cascades, s \in Sids : PostLogout(k, s)
             \/ \E k \in Cascades, u \in Users : BackChannelLogout(k, u)
      PROVE  TokenInv'
  BY <1>3, <1>9 DEF vars, Login, Create, TakeReason, PostChat, PostReportAction, PostCancel, PostLogout,
     BackChannelLogout, Queue, cibaVars, agentVars, casVars, revVars
<1> QED
  BY <1>5, <1>6, <1>7, <1>8, <1>9 DEF Next, UserStep

\* Every step keeps FenceInv.
LEMMA StepKeepsFences == IInv /\ FenceInv /\ [Next]_vars => FenceInv'
<1> SUFFICES ASSUME IInv, FenceInv, [Next]_vars PROVE FenceInv'
  OBVIOUS
<1>1. TypeOK /\ Steady /\ \A s \in terminating : s \in Sids /\ owner[s] # None
  BY StepIsSteady DEF IInv, CascadeInv, StoreInv, TypeOK, SessTypeOK
<1>2. \A s \in terminating :
        \E k \in Cascades : casUser'[k] = owner'[s] /\ casPc'[k] \notin {"idle", "waiting"}
  BY <1>1 DEF FenceInv, Steady
<1>3. ASSUME NEW k \in Cascades, CascadeStep(k) PROVE FenceInv'
  <2>1. CASE terminating' = terminating
    BY <1>2, <2>1 DEF FenceInv
  <2>2. CASE terminating' # terminating
    <3>1. /\ terminating' = terminating \cup SessionsOf(casUser[k]) /\ UNCHANGED <<casUser, owner>>
          /\ casPc'[k] \notin {"idle", "waiting"}
      BY <1>1, <1>3, <2>2, CascadeEffect DEF TypeOK, WalkTypeOK
    <3>2. \A s \in SessionsOf(casUser[k]) : owner'[s] = casUser'[k]
      BY <3>1 DEF SessionsOf
    <3> QED
      BY <1>2, <3>1, <3>2 DEF FenceInv
  <2> QED
    BY <2>1, <2>2
<1>4. ASSUME NEW c \in Chats, ChatStep(c) \/ Initiate(c) PROVE terminating' = terminating
  BY <1>4, ChatEffect, InitiateEffect DEF sessVars
<1>5. ASSUME NEW f \in Flows, AgentAction(f) \/ CancelArrives(f) PROVE terminating' = terminating
  BY <1>1, <1>5, AgentEffect DEF sessVars
<1>6. ASSUME UserStep \/ UNCHANGED vars PROVE terminating' = terminating
  BY <1>6 DEF UserStep, vars, Login, Create, TakeReason, PostChat, PostReportAction, PostCancel, PostLogout,
     BackChannelLogout, Queue, sessVars
<1>7. terminating' = terminating => FenceInv'
  BY <1>2 DEF FenceInv
<1> QED
  BY <1>3, <1>4, <1>5, <1>6, <1>7 DEF Next

\* RevokedNotCached: what the agent was told to revoke has left its cache for good,
\* as only tokens whose cache write is done are recorded.
THEOREM RevokedLeavesCache == Spec => []RevokedNotCached
<1>1. Init => TokenInv
  BY ConstantsOK DEF Init, TokenInv, RevokedNotCached
<1>2. TokenInv => RevokedNotCached
  BY DEF TokenInv
<1> QED
  BY <1>1, <1>2, StepKeepsTokens, Inductive, PTL DEF Spec

\* OnlyOwnSessions: a sign-out fences its own user's sessions, and only tokens of
\* fenced sessions are revoked.
THEOREM SignOutIsPersonal == Spec => []OnlyOwnSessions
<1>1. Init => TokenInv /\ FenceInv
  BY ConstantsOK DEF Init, TokenInv, RevokedNotCached, FenceInv
<1>2. TokenInv /\ FenceInv => OnlyOwnSessions
  BY DEF TokenInv, FenceInv, OnlyOwnSessions
<1> QED
  BY <1>1, <1>2, StepKeepsTokens, StepKeepsFences, Inductive, PTL DEF Spec

\* A set with one more member is no smaller.
LEMMA GrowingSet ==
  ASSUME NEW S, IsFiniteSet(S), NEW x
  PROVE  IsFiniteSet(S \cup {x}) /\ Cardinality(S \cup {x}) >= Cardinality(S)
<1>1. /\ IsFiniteSet(S \cup {x})
      /\ Cardinality(S \cup {x}) = IF x \in S THEN Cardinality(S) ELSE Cardinality(S) + 1
  BY FS_AddElement
<1>2. Cardinality(S) \in Nat
  BY FS_CardinalityType
<1> QED
  BY <1>1, <1>2

\* The user who loses the reason kept for them: as many others as the cap allows
\* for have one by then that was recorded later.
LEMMA EvictedWasCrowdedOut ==
  ASSUME NEW u \in Users, NEW v \in Evicted(u), IsFiniteSet(later[v])
  PROVE  Cardinality(later[v] \cup {u}) >= ReasonCap
<1> DEFINE others == Waiting \ {v}
<1>1. /\ u \notin Waiting /\ ~ (Cardinality(Waiting) < ReasonCap)
      /\ v \in Waiting /\ others \subseteq later[v]
  BY DEF Evicted, LongestWaiting
<1>2. IsFiniteSet(others)
  BY <1>1, FS_Subset
<1>3. IsFiniteSet(Waiting) /\ Cardinality(Waiting) = Cardinality(others) + 1
  <2>1. Waiting = others \cup {v} /\ v \notin others
    BY <1>1
  <2> HIDE DEF others
  <2> QED
    BY <1>2, <2>1, FS_AddElement
<1>4. /\ IsFiniteSet(others \cup {u})
      /\ Cardinality(others \cup {u}) = Cardinality(others) + 1
  BY <1>1, <1>2, FS_AddElement
<1>5. IsFiniteSet(later[v] \cup {u}) /\ others \cup {u} \subseteq later[v] \cup {u}
  BY <1>1, FS_AddElement
<1>6. Cardinality(others \cup {u}) <= Cardinality(later[v] \cup {u})
  BY <1>5, FS_Subset
<1>7. /\ Cardinality(later[v] \cup {u}) \in Nat /\ Cardinality(Waiting) \in Nat
      /\ Cardinality(others \cup {u}) \in Nat /\ ReasonCap \in Nat
  BY <1>3, <1>4, <1>5, FS_CardinalityType, ConstantsOK
<1> QED
  BY <1>1, <1>3, <1>4, <1>6, <1>7

\* A reason can still be sent only for a session that has sent none; an id that
\* nobody signed in with has none; and only finitely many reasons were recorded
\* since a user's own.
ReasonInv ==
  /\ \A s \in Sids : owner[s] = None => reasonSends[s] = 0
  /\ \A u \in Users : IsFiniteSet(later[u])
  /\ ReasonToldOnce

\* Every step keeps ReasonInv.
LEMMA StepKeepsReasons == IInv /\ ReasonInv /\ [Next]_vars => ReasonInv'
<1> SUFFICES ASSUME IInv, ReasonInv, [Next]_vars PROVE ReasonInv'
  OBVIOUS
<1>1. /\ owner \in [Sids -> Users \cup {None}] /\ store \subseteq Sids /\ None \notin Users
      /\ lastReason \in [Sids -> Reasons \cup {None}] /\ pendingReason \in [Users -> Reasons \cup {None}]
      /\ reasonSends \in [Sids -> Nat] /\ None \notin Reasons /\ TypeOK
      /\ later \in [Users -> SUBSET Users] /\ ReasonCap \in Nat
  BY ConstantsOK, NoneIsNoReason DEF IInv, TypeOK, SessTypeOK, ChatTypeOK
<1>2. ASSUME UNCHANGED <<owner, store, lastReason, pendingReason, later, reasonSends>> PROVE ReasonInv'
  BY <1>2 DEF ReasonInv, ReasonToldOnce, SessionsOf
<1>3. ASSUME NEW u \in Users, NEW s \in Sids, Login(u, s) PROVE ReasonInv'
  <2>1. /\ owner[s] = None /\ owner'[s] = u /\ store' = store \cup {s}
        /\ \A t \in Sids : t # s => owner'[t] = owner[t] /\ lastReason'[t] = lastReason[t]
        /\ \A v \in Users : v # u => pendingReason'[v] = pendingReason[v]
        /\ UNCHANGED <<later, reasonSends>>
    BY <1>1, <1>3 DEF Login, Create, TakeReason, chatVars
  <2>2. \A t \in Sids : owner'[t] = None => reasonSends'[t] = 0
    BY <1>1, <2>1 DEF ReasonInv
  <2>3. \A t \in Sids : reasonSends'[t] + (IF lastReason'[t] = None THEN 0 ELSE 1) <= 1
    <3> SUFFICES ASSUME NEW t \in Sids
                 PROVE  reasonSends'[t] + (IF lastReason'[t] = None THEN 0 ELSE 1) <= 1
      OBVIOUS
    <3>1. CASE t = s
      BY <2>1, <3>1 DEF ReasonInv
    <3>2. CASE t # s
      BY <2>1, <3>2 DEF ReasonInv, ReasonToldOnce
    <3> QED
      BY <3>1, <3>2
  <2>4. ASSUME NEW v \in Users, SessionsOf(v)' = {}, \E t \in Sids : owner'[t] = v
        PROVE  pendingReason'[v] # None \/ Cardinality(later'[v]) >= ReasonCap
    <3>1. v # u
      BY <2>1, <2>4 DEF SessionsOf
    <3>2. s \notin store
      BY <2>1 DEF IInv, CascadeInv, StoreInv
    <3>3. SessionsOf(v) = {} /\ \E t \in Sids : owner[t] = v
      BY <1>1, <2>1, <2>4, <3>1, <3>2 DEF SessionsOf
    <3> QED
      BY <2>1, <3>1, <3>3 DEF ReasonInv, ReasonToldOnce
  <2> QED
    BY <2>1, <2>2, <2>3, <2>4 DEF ReasonInv, ReasonToldOnce
<1>4. ASSUME NEW c \in Chats, StartCall(c) PROVE ReasonInv'
  <2> DEFINE s == chatSess[c]
  <2>1. /\ s \in Sids /\ owner[s] # None /\ UNCHANGED <<owner, store, pendingReason, later>>
        /\ reasonSends' = IF lastReason[s] = None THEN reasonSends ELSE [reasonSends EXCEPT ![s] = @ + 1]
        /\ lastReason' = [lastReason EXCEPT ![s] = None]
    BY <1>4 DEF StartCall, IInv, ChatInv
  <2>2. \A t \in Sids : t # s => lastReason'[t] = lastReason[t] /\ reasonSends'[t] = reasonSends[t]
    BY <1>1, <2>1
  <2>3. lastReason'[s] = None /\ reasonSends'[s] <= 1
    BY <1>1, <2>1 DEF ReasonInv, ReasonToldOnce
  <2>4. \A t \in Sids : reasonSends'[t] + (IF lastReason'[t] = None THEN 0 ELSE 1) <= 1
    <3> SUFFICES ASSUME NEW t \in Sids
                 PROVE  reasonSends'[t] + (IF lastReason'[t] = None THEN 0 ELSE 1) <= 1
      OBVIOUS
    <3>1. CASE t = s
      <4>1. reasonSends'[s] \in Nat
        BY <1>1, <2>1
      <4> QED
        BY <2>3, <3>1, <4>1
    <3>2. CASE t # s
      BY <2>2, <3>2 DEF ReasonInv, ReasonToldOnce
    <3> QED
      BY <3>1, <3>2
  <2> QED
    BY <2>1, <2>2, <2>4 DEF ReasonInv, ReasonToldOnce, SessionsOf
<1>5. ASSUME NEW c \in Chats, ChatStep(c) PROVE ReasonInv'
  BY <1>2, <1>4, <1>5, ChatEffect
<1>6. ASSUME NEW c \in Chats, Initiate(c) PROVE ReasonInv'
  BY <1>2, <1>6, InitiateEffect DEF sessVars, chatVars
<1>7. ASSUME NEW f \in Flows, AgentAction(f) \/ CancelArrives(f) PROVE ReasonInv'
  BY <1>1, <1>2, <1>7, AgentEffect DEF sessVars, chatVars
<1>8. ASSUME NEW k \in Cascades, CascadeStep(k) PROVE ReasonInv'
  <2>1. UNCHANGED <<owner, lastReason, reasonSends>>
    BY <1>1, <1>8, CascadeEffect DEF chatVars
  <2>2. ASSUME Removes(k), Working(k) PROVE ReasonInv'
    <3>1. cur[k] \in Sids /\ owner[cur[k]] \in Users /\ casReason[k] \in Reasons
      BY <1>1, <2>2 DEF IInv, CascadeInv, WalkInv, StoreInv, Working, Before
    <3> DEFINE u == owner[cur[k]]
    <3>2. /\ store' = store \ {cur[k]} /\ pendingReason'[u] # None /\ later'[u] = {}
          /\ \A v \in Users : v # u =>
               /\ later'[v] = later[v] \cup {u}
               /\ v \in Evicted(u) \/ pendingReason'[v] = pendingReason[v]
      BY <1>1, <2>2, <3>1 DEF Removes, RecordReason
    <3>4. \A v \in Users : IsFiniteSet(later'[v])
      <4>1. IsFiniteSet({})
        BY FS_EmptySet
      <4>2. \A v \in Users : IsFiniteSet(later[v] \cup {u})
        BY GrowingSet DEF ReasonInv
      <4> QED
        BY <3>2, <4>1, <4>2
    <3>3. ASSUME NEW v \in Users, SessionsOf(v)' = {}, \E t \in Sids : owner'[t] = v
          PROVE  pendingReason'[v] # None \/ Cardinality(later'[v]) >= ReasonCap
      <4>1. CASE v = u
        BY <3>2, <4>1
      <4>2. CASE v # u /\ v \in Evicted(u)
        BY <3>1, <3>2, <4>2, EvictedWasCrowdedOut DEF ReasonInv
      <4>3. CASE v # u /\ v \notin Evicted(u)
        <5>1. SessionsOf(v) = {}
          BY <2>1, <3>2, <3>3, <4>3 DEF SessionsOf
        <5>2. pendingReason'[v] # None \/ Cardinality(later[v]) >= ReasonCap
          BY <2>1, <3>2, <3>3, <4>3, <5>1 DEF ReasonInv, ReasonToldOnce
        <5>3. IsFiniteSet(later'[v]) /\ Cardinality(later'[v]) >= Cardinality(later[v])
          <6>1. later'[v] = later[v] \cup {u} /\ IsFiniteSet(later[v])
            BY <3>2, <4>3 DEF ReasonInv
          <6>2. /\ IsFiniteSet(later[v] \cup {u})
                /\ Cardinality(later[v] \cup {u}) >= Cardinality(later[v])
            BY <6>1, GrowingSet
          <6> QED
            BY <6>1, <6>2
        <5>4. Cardinality(later'[v]) \in Nat /\ Cardinality(later[v]) \in Nat
          BY <5>3, FS_CardinalityType DEF ReasonInv
        <5> QED
          BY <1>1, <5>2, <5>3, <5>4
      <4> QED
        BY <4>1, <4>2, <4>3
    <3> QED
      BY <2>1, <3>3, <3>4 DEF ReasonInv, ReasonToldOnce
  <2> QED
    BY <1>1, <1>2, <1>8, <2>1, <2>2, CascadeEffect
<1>9. ASSUME \/ UNCHANGED vars
             \/ \E c \in Chats, s \in Sids : PostChat(c, s) \/ PostReportAction(c, s)
             \/ \E s \in Sids : \E f \in Flows : PostCancel(s, f)
             \/ \E k \in Cascades, s \in Sids : PostLogout(k, s)
             \/ \E k \in Cascades, u \in Users : BackChannelLogout(k, u)
      PROVE  ReasonInv'
  BY <1>2, <1>9 DEF vars, PostChat, PostReportAction, PostCancel, PostLogout,
     BackChannelLogout, Queue, sessVars, chatVars
<1> QED
  BY <1>3, <1>5, <1>6, <1>7, <1>8, <1>9 DEF Next, UserStep

\* ReasonToldOnce: a logout reason reaches at most one agent call of a session
\* (FIX-17), and waits whenever a user who had sessions has none left, unless as
\* many other users as the cap allows for had a reason recorded since.
THEOREM ReasonsAreToldOnce == Spec => []ReasonToldOnce
<1>1. Init => ReasonInv
  BY ConstantsOK, FS_EmptySet DEF Init, ReasonInv, ReasonToldOnce
<1>2. ReasonInv => ReasonToldOnce
  BY DEF ReasonInv
<1> QED
  BY <1>1, <1>2, StepKeepsReasons, Inductive, PTL DEF Spec

-----------------------------------------------------------------------------
(* The agent of this model implements ConsentTask, as AgentDispatcher does.  *)

\* A step that moves no consent's task and lets no token into the cache.
LEMMA ConsentRests ==
  ASSUME UNCHANGED flow, agentCancel \subseteq agentCancel', held' \subseteq held
  PROVE  Consent!Next
BY DEF Consent!Next, Consent!Moved

\* The agent's own steps are the moves of a consent.
LEMMA ConsentMoves ==
  ASSUME IInv, NEW f \in Flows, AgentAction(f) PROVE Consent!Next
<1>1. flow \in [Flows -> FlowPcs] /\ agentCancel' = agentCancel
  BY DEF IInv, TypeOK, AgentTypeOK, AgentAction, PollSend, PollCancelled, PollDeadline,
     PollPending, PollRefused, PollToken, ToolDone, ToolFails, AgentStep
<1>2. ASSUME NEW from, NEW to, AgentStep(f, from, to), held' = held,
             <<from, to>> \in Consent!Moves, to = "posting" => f \notin agentCancel
      PROVE  Consent!Next
  BY <1>1, <1>2 DEF AgentStep, Consent!Next, Consent!Moved
<1>3. CASE ToolDone(f)
  BY <1>1, <1>3 DEF ToolDone, AgentStep, Consent!Next, Consent!Moved, Consent!Moves
<1>4. CASE PollSend(f) \/ PollPending(f) \/ PollToken(f)
  BY <1>2, <1>4 DEF PollSend, PollPending, PollToken, Consent!Moves
<1>5. CASE PollCancelled(f) \/ PollDeadline(f) \/ PollRefused(f) \/ ToolFails(f)
  BY <1>2, <1>5 DEF PollCancelled, PollDeadline, PollRefused, ToolFails, Consent!Moves
<1> QED
  BY <1>3, <1>4, <1>5 DEF AgentAction

\* A cascade only takes tokens from the cache.
LEMMA ConsentCascade ==
  ASSUME IInv, NEW k \in Cascades, CascadeStep(k) PROVE Consent!Next
<1>1. UNCHANGED flow /\ held' \subseteq held
  BY CascadeEffect DEF IInv, LegOutcome
<1>2. agentCancel' = agentCancel
  BY DEF CascadeStep, BeginCascade, CascadeAlreadyRun, BarrierAcked, BarrierTimeout, LeaveBarrier,
     RevokeTokenA, LegEnds, agentVars
<1> QED
  BY <1>1, <1>2, ConsentRests

\* A tool call may start a consent, once.
LEMMA ConsentStarts ==
  ASSUME IInv, NEW c \in Chats, Initiate(c) PROVE Consent!Next
<1>1. /\ flow \in [Flows -> FlowPcs] /\ agentCancel' = agentCancel /\ held' = held
      /\ flow[CurrentFlow(c)] = "none" /\ flow' = [flow EXCEPT ![CurrentFlow(c)] = "sleeping"]
  BY DEF IInv, TypeOK, AgentTypeOK, Initiate, AgentStep
<1> QED
  BY <1>1 DEF Consent!Next, Consent!Moved, Consent!Moves

\* ImplementsConsentTask: the agent of the orchestrator's model keeps the promise
\* about consents that AgentDispatcher keeps: no poll once a cancel has arrived,
\* and no token cached but by the step in which its consent succeeds.
THEOREM ImplementsConsents == Spec => ImplementsConsentTask
<1>1. Init => Consent!Init
  BY DEF Init, Consent!Init
<1>2. ASSUME IInv, [Next]_vars PROVE [Consent!Next]_(Consent!vars)
  <2>1. CASE UNCHANGED vars
    BY <2>1, ConsentRests DEF vars, agentVars
  <2>2. CASE UserStep
    <3>1. UNCHANGED <<flow, agentCancel, held>>
      BY <2>2 DEF UserStep, Login, PostChat, PostReportAction, PostCancel,
         PostLogout, BackChannelLogout, Queue, agentVars
    <3> QED
      BY <3>1, ConsentRests
  <2>3. ASSUME NEW c \in Chats, ChatStep(c) PROVE Consent!Next
    BY <1>2, <2>3, ChatEffect, ConsentRests DEF agentVars
  <2>4. ASSUME NEW f \in Flows, CancelArrives(f) PROVE Consent!Next
    BY <2>4, ConsentRests DEF CancelArrives
  <2> QED
    BY <1>2, <2>1, <2>2, <2>3, <2>4, ConsentMoves, ConsentCascade, ConsentStarts DEF Next
<1> QED
  BY <1>1, <1>2, Inductive, PTL DEF Spec, ImplementsConsentTask, Consent!Spec

-----------------------------------------------------------------------------
(* What liveness rests on: a chat and a cascade are never set back.          *)

\* A chat's step takes it one place further, with at most one reply.
LEMMA ChatMoves ==
  ASSUME IInv, NEW c \in Chats, ChatStep(c)
  PROVE  \E p \in ChatPcs, n \in 0..MaxCalls :
           /\ chatPc' = [chatPc EXCEPT ![c] = p] /\ calls' = [calls EXCEPT ![c] = n]
           /\ \/ chatPc[c] = "routing" /\ p = IF n = 0 THEN "composing" ELSE "ready"
              \/ chatPc[c] = "ready" /\ p = "sending" /\ n = calls[c]
              \/ chatPc[c] = "sending" /\ p = "awaiting" /\ n = calls[c]
              \/ /\ chatPc[c] \in {"ready", "sending", "awaiting"} /\ n = calls[c] - 1
                 /\ p = IF n = 0 THEN "composing" ELSE "ready"
              \/ chatPc[c] = "composing" /\ p = "done" /\ n = calls[c]
           /\ replies' = IF p = "done" THEN [replies EXCEPT ![c] = @ + 1] ELSE replies
<1> DEFINE Goal(p, n) ==
      /\ chatPc' = [chatPc EXCEPT ![c] = p] /\ calls' = [calls EXCEPT ![c] = n]
      /\ \/ chatPc[c] = "routing" /\ p = IF n = 0 THEN "composing" ELSE "ready"
         \/ chatPc[c] = "ready" /\ p = "sending" /\ n = calls[c]
         \/ chatPc[c] = "sending" /\ p = "awaiting" /\ n = calls[c]
         \/ /\ chatPc[c] \in {"ready", "sending", "awaiting"} /\ n = calls[c] - 1
            /\ p = IF n = 0 THEN "composing" ELSE "ready"
         \/ chatPc[c] = "composing" /\ p = "done" /\ n = calls[c]
      /\ replies' = IF p = "done" THEN [replies EXCEPT ![c] = @ + 1] ELSE replies
<1>1. /\ calls \in [Chats -> 0..MaxCalls] /\ chatPc \in [Chats -> ChatPcs]
      /\ chatPc[c] \in {"ready", "sending", "awaiting"} => calls[c] \in 1..MaxCalls
      /\ MaxCalls \in Nat
  BY ConstantsOK DEF IInv, TypeOK, ChatTypeOK, ChatInv
<1>2. calls = [calls EXCEPT ![c] = calls[c]] /\ calls[c] \in 0..MaxCalls
  BY <1>1
<1>3. ASSUME NEW n \in 0..MaxCalls, Routed(c, n) PROVE \E p \in ChatPcs : Goal(p, n)
  BY <1>3 DEF Routed, ChatPcs
<1>4. CASE StartCall(c)
  <2>1. Goal("sending", calls[c])
    BY <1>2, <1>4 DEF StartCall
  <2> QED
    BY <1>2, <2>1 DEF ChatPcs
<1>5. CASE ConsentRequired(c)
  <2>1. Goal("awaiting", calls[c])
    BY <1>2, <1>5 DEF ConsentRequired
  <2> QED
    BY <1>2, <2>1 DEF ChatPcs
<1>6. ASSUME chatPc[c] \in {"ready", "sending", "awaiting"}, NextCall(c), UNCHANGED replies
      PROVE  \E p \in ChatPcs, n \in 0..MaxCalls : Goal(p, n)
  <2>1. calls[c] - 1 \in 0..MaxCalls /\ (calls[c] - 1 = 0 <=> calls[c] = 1)
    BY <1>1, <1>6
  <2> DEFINE p == IF calls[c] - 1 = 0 THEN "composing" ELSE "ready"
  <2>2. Goal(p, calls[c] - 1) /\ p \in ChatPcs
    BY <1>6, <2>1 DEF NextCall, ChatPcs
  <2> QED
    BY <2>1, <2>2
<1>7. CASE SkipCall(c) \/ SendRaises(c) \/ SendAnswers(c) \/ AwaitResult(c) \/ AwaitError(c)
  BY <1>6, <1>7 DEF SkipCall, SendRaises, SendAnswers, CallSettled, AwaitResult, AwaitError,
     LeaveAwait
<1>8. CASE Reply(c)
  <2>1. Goal("done", calls[c])
    BY <1>2, <1>8 DEF Reply
  <2> QED
    BY <1>2, <2>1 DEF ChatPcs
<1> QED
  BY <1>3, <1>4, <1>5, <1>7, <1>8 DEF ChatStep

\* A chat's step brings its reply nearer and moves no other chat.
LEMMA ChatStepMovesOn ==
  ASSUME IInv, OneReply, NEW c \in Chats, ChatStep(c)
  PROVE  /\ Left(c)' < Left(c)
         /\ \A d \in Chats \ {c} : UNCHANGED <<chatPc[d], calls[d]>>
         /\ OneReply'
<1>1. /\ calls \in [Chats -> 0..MaxCalls] /\ chatPc \in [Chats -> ChatPcs]
      /\ replies \in [Chats -> Nat] /\ MaxCalls \in Nat
      /\ chatPc[c] \in {"ready", "sending", "awaiting"} => calls[c] \in 1..MaxCalls
  BY ConstantsOK DEF IInv, TypeOK, ChatTypeOK, ChatInv
<1>2. PICK p \in ChatPcs, n \in 0..MaxCalls :
        /\ chatPc' = [chatPc EXCEPT ![c] = p] /\ calls' = [calls EXCEPT ![c] = n]
        /\ \/ chatPc[c] = "routing" /\ p = IF n = 0 THEN "composing" ELSE "ready"
           \/ chatPc[c] = "ready" /\ p = "sending" /\ n = calls[c]
           \/ chatPc[c] = "sending" /\ p = "awaiting" /\ n = calls[c]
           \/ /\ chatPc[c] \in {"ready", "sending", "awaiting"} /\ n = calls[c] - 1
              /\ p = IF n = 0 THEN "composing" ELSE "ready"
           \/ chatPc[c] = "composing" /\ p = "done" /\ n = calls[c]
        /\ replies' = IF p = "done" THEN [replies EXCEPT ![c] = @ + 1] ELSE replies
  BY ChatMoves
<1>3. /\ chatPc'[c] = p /\ calls'[c] = n
      /\ \A d \in Chats \ {c} : UNCHANGED <<chatPc[d], calls[d]>>
  BY <1>1, <1>2
<1>4. Left(c)' < Left(c)
  <2>1. CASE chatPc[c] = "routing"
    BY <1>1, <1>2, <1>3, <2>1 DEF Left
  <2>2. CASE chatPc[c] = "ready"
    BY <1>1, <1>2, <1>3, <2>2 DEF Left
  <2>3. CASE chatPc[c] = "sending"
    BY <1>1, <1>2, <1>3, <2>3 DEF Left
  <2>4. CASE chatPc[c] = "awaiting"
    BY <1>1, <1>2, <1>3, <2>4 DEF Left
  <2>5. CASE chatPc[c] = "composing"
    BY <1>1, <1>2, <1>3, <2>5 DEF Left
  <2> QED
    BY <1>2, <2>1, <2>2, <2>3, <2>4, <2>5
<1>5. OneReply'
  <2>1. chatPc[c] # "done" /\ replies[c] = 0
    BY <1>2 DEF OneReply
  <2>2. replies'[c] = IF p = "done" THEN 1 ELSE 0
    BY <1>1, <1>2, <2>1
  <2>3. \A d \in Chats \ {c} : replies'[d] = replies[d] /\ chatPc'[d] = chatPc[d]
    BY <1>1, <1>2
  <2> QED
    BY <1>3, <2>2, <2>3 DEF OneReply
<1> QED
  BY <1>3, <1>4, <1>5

\* Any other step moves no chat that is running, and answers none.
LEMMA ChatsMove ==
  ASSUME IInv, OneReply, [Next]_vars
  PROVE  /\ OneReply'
         /\ \A c \in Chats : chatPc[c] # "idle" =>
              Left(c)' < Left(c) \/ UNCHANGED <<chatPc[c], calls[c]>>
<1>1. TypeOK /\ chatPc \in [Chats -> ChatPcs] /\ calls \in [Chats -> 0..MaxCalls]
  BY DEF IInv, TypeOK, ChatTypeOK
<1>2. ASSUME NEW c \in Chats, ChatStep(c)
      PROVE  /\ OneReply'
             /\ \A d \in Chats : Left(d)' < Left(d) \/ UNCHANGED <<chatPc[d], calls[d]>>
  BY <1>2, ChatStepMovesOn
<1>3. CASE UNCHANGED <<chatPc, calls, replies>>
  BY <1>3 DEF OneReply
<1>4. ASSUME NEW c \in Chats, NEW s \in Sids, PostChat(c, s) \/ PostReportAction(c, s)
      PROVE  /\ OneReply'
             /\ \A d \in Chats : chatPc[d] # "idle" => UNCHANGED <<chatPc[d], calls[d]>>
  <2>1. /\ chatPc[c] = "idle" /\ chatPc'[c] # "done" /\ UNCHANGED replies
        /\ \A d \in Chats \ {c} : UNCHANGED <<chatPc[d], calls[d]>>
    BY <1>1, <1>4 DEF PostChat, PostReportAction
  <2> QED
    BY <2>1 DEF OneReply
<1>5. ASSUME NEW c \in Chats, Initiate(c) PROVE UNCHANGED chatVars
  BY <1>5, InitiateEffect
<1>6. ASSUME NEW f \in Flows, AgentAction(f) \/ CancelArrives(f) PROVE UNCHANGED chatVars
  BY <1>1, <1>6, AgentEffect
<1>7. ASSUME NEW k \in Cascades, CascadeStep(k) PROVE UNCHANGED chatVars
  BY <1>1, <1>7, CascadeEffect
<1>8. ASSUME \/ UNCHANGED vars
             \/ \E u \in Users, s \in Sids : Login(u, s)
             \/ \E s \in Sids : \E f \in Flows : PostCancel(s, f)
             \/ \E k \in Cascades, s \in Sids : PostLogout(k, s)
             \/ \E k \in Cascades, u \in Users : BackChannelLogout(k, u)
      PROVE  UNCHANGED chatVars
  BY <1>8 DEF vars, Login, PostCancel, PostLogout, BackChannelLogout, Queue
<1>9. UNCHANGED chatVars => UNCHANGED <<chatPc, calls, replies>>
  BY DEF chatVars
<1> QED
  BY <1>2, <1>3, <1>4, <1>5, <1>6, <1>7, <1>8, <1>9 DEF Next, UserStep

\* ChatsMoveOn, OneReply: every step of a chat brings its reply nearer, by a
\* measure bounded by its tool calls, no logout, cancel or agent takes it back, and
\* the reply is published exactly once (_run_serial_fan_out).
THEOREM ChatsAreAnsweredOnce == Spec => []OneReply /\ ChatsMoveOn
<1>1. Init => OneReply
  BY DEF Init, OneReply
<1>2. IInv /\ OneReply /\ [Next]_vars => OneReply'
  BY ChatsMove
<1>3. IInv /\ OneReply /\ [Next]_vars
        => [\A c \in Chats : chatPc[c] # "idle" =>
              \/ Left(c)' < Left(c)
              \/ UNCHANGED <<chatPc[c], calls[c]>>]_vars
  BY ChatsMove
<1> QED
  BY <1>1, <1>2, <1>3, Inductive, PTL DEF Spec, ChatsMoveOn

\* The state a cascade carries from step to step is its own.
Untouched(k) == UNCHANGED <<casPc[k], casUser[k], cur[k], todo[k], log[k], rec[k], legs[k]>>

\* After a record or token-A there is another record, another session, or the end.
LEMMA ProceedIsNearer ==
  ASSUME TypeOK, WalkInv, NEW k \in Cascades, NEW left \in SUBSET Flows, Proceed(k, left),
         casPc[k] = "revoke" \/ (casPc[k] = "fanout" /\ Fewer(left, log[k]))
  PROVE  /\ Nearer(k)
         /\ \A j \in Cascades \ {k} : UNCHANGED <<casPc[j], cur[j], todo[j], log[j], rec[j], legs[j]>>
<1>1. /\ casPc \in [Cascades -> CasPcs] /\ cur \in [Cascades -> Sids \cup {None}]
      /\ todo \in [Cascades -> SUBSET Sids] /\ log \in [Cascades -> SUBSET Flows]
      /\ rec \in [Cascades -> Flows \cup {None}] /\ legs \in [Cascades -> SUBSET Receivers]
      /\ lock \in [Users -> Cascades \cup {None}] /\ Working(k) /\ casUser[k] \in Users
  BY DEF TypeOK, WalkTypeOK, WalkInv, Working
<1>2. CASE NextRecord(k, left) /\ legs' = [legs EXCEPT ![k] = Receivers]
  <2>1. /\ casPc'[k] = "fanout" /\ log'[k] = left /\ UNCHANGED <<cur[k], todo[k]>>
        /\ \A j \in Cascades \ {k} :
             UNCHANGED <<casPc[j], cur[j], todo[j], log[j], rec[j], legs[j]>>
    BY <1>1, <1>2 DEF NextRecord
  <2> QED
    BY <2>1 DEF Nearer
<1>3. CASE DropSession(k) /\ legs' = [legs EXCEPT ![k] = {}]
  <2>1. CASE /\ todo[k] = {} /\ casPc' = [casPc EXCEPT ![k] = "done"] /\ Release(k)
             /\ cur' = [cur EXCEPT ![k] = None] /\ log' = [log EXCEPT ![k] = {}]
             /\ UNCHANGED todo
    <3>1. casPc'[k] = "done" /\ lock'[casUser[k]] = None
      BY <1>1, <2>1 DEF Release
    <3>2. rec' = [rec EXCEPT ![k] = None]
      BY <1>3 DEF DropSession
    <3>3. \A j \in Cascades \ {k} :
            UNCHANGED <<casPc[j], cur[j], todo[j], log[j], rec[j], legs[j]>>
      BY <1>1, <1>3, <2>1, <3>2
    <3> QED
      BY <1>1, <3>1, <3>3 DEF Nearer
  <2>2. ASSUME NEW t \in todo[k], Enter(k, t, todo[k] \ {t})
        PROVE  /\ Nearer(k)
               /\ \A j \in Cascades \ {k} :
                    UNCHANGED <<casPc[j], cur[j], todo[j], log[j], rec[j], legs[j]>>
    <3>1. casPc'[k] \in {"barrier", "revoke"} /\ todo'[k] = todo[k] \ {t}
      BY <1>1, <2>2 DEF Enter
    <3>2. Working(k)' /\ Fewer(todo'[k], todo[k])
      BY <3>1 DEF Working, Fewer
    <3>3. rec' = [rec EXCEPT ![k] = None]
      BY <1>3 DEF DropSession
    <3>4. \A j \in Cascades \ {k} :
            UNCHANGED <<casPc[j], cur[j], todo[j], log[j], rec[j], legs[j]>>
      BY <1>1, <1>3, <2>2, <3>3 DEF Enter
    <3> QED
      BY <1>1, <3>2, <3>4 DEF Nearer
  <2> QED
    BY <1>3, <2>1, <2>2 DEF DropSession
<1> QED
  BY <1>2, <1>3 DEF Proceed

\* A cascade's step brings its end nearer and touches no other cascade.
LEMMA CascadeStepMovesOn ==
  ASSUME IInv, NEW k \in Cascades, CascadeStep(k)
  PROVE  Nearer(k) /\ \A j \in Cascades \ {k} : Untouched(j)
<1>1. /\ casPc \in [Cascades -> CasPcs] /\ cur \in [Cascades -> Sids \cup {None}]
      /\ todo \in [Cascades -> SUBSET Sids] /\ log \in [Cascades -> SUBSET Flows]
      /\ rec \in [Cascades -> Flows \cup {None}] /\ legs \in [Cascades -> SUBSET Receivers]
      /\ TypeOK /\ WalkInv /\ RecordInv
  BY DEF IInv, CascadeInv, TypeOK, WalkTypeOK
<1>2. casUser' = casUser
  BY <1>1, CascadeEffect
<1> DEFINE Still(j) == UNCHANGED <<casPc[j], cur[j], todo[j], log[j], rec[j], legs[j]>>
<1>3. CASE BeginCascade(k)
  <2>1. PICK s \in SessionsOf(casUser[k]) : Enter(k, s, SessionsOf(casUser[k]) \ {s})
    BY <1>3 DEF BeginCascade
  <2>2. casPc[k] = "waiting" /\ casPc'[k] \in {"barrier", "revoke"} /\ UNCHANGED <<rec, legs>>
    BY <1>1, <1>3, <2>1 DEF BeginCascade, Enter
  <2>3. \A j \in Cascades \ {k} : Still(j)
    BY <1>1, <2>1, <2>2 DEF Enter
  <2> QED
    BY <1>2, <2>2, <2>3 DEF Nearer, Untouched
<1>4. CASE CascadeAlreadyRun(k)
  <2>1. casPc[k] = "waiting" /\ casPc'[k] = "done" /\ \A j \in Cascades \ {k} : Still(j)
    BY <1>1, <1>4 DEF CascadeAlreadyRun
  <2> QED
    BY <1>2, <2>1 DEF Nearer, Untouched
<1>5. CASE BarrierAcked(k) \/ BarrierTimeout(k)
  <2>1. /\ casPc[k] = "barrier" /\ casPc'[k] = "revoke" /\ UNCHANGED <<cur, todo>>
        /\ \A j \in Cascades \ {k} : Still(j)
    BY <1>1, <1>5 DEF BarrierAcked, BarrierTimeout, LeaveBarrier
  <2> QED
    BY <1>2, <2>1 DEF Nearer, Untouched
<1>6. CASE RevokeTokenA(k)
  <2>1. casPc[k] = "revoke" /\ Proceed(k, log[k]) /\ log[k] \in SUBSET Flows
    BY <1>1, <1>6 DEF RevokeTokenA
  <2> QED
    BY <1>1, <1>2, <2>1, ProceedIsNearer DEF Untouched
<1>7. ASSUME NEW r \in Receivers, LegEnds(k, r) PROVE Nearer(k) /\ \A j \in Cascades \ {k} : Untouched(j)
  <2>1. casPc[k] = "fanout" /\ r \in legs[k] /\ rec[k] \in log[k]
    BY <1>1, <1>7 DEF LegEnds, RecordInv
  <2>2. CASE legs[k] # {r}
    <3>1. /\ legs' = [legs EXCEPT ![k] = @ \ {r}] /\ UNCHANGED <<casPc, cur, todo, log, rec>>
      BY <1>7, <2>2 DEF LegEnds
    <3>2. Fewer(legs'[k], legs[k])
      BY <1>1, <2>1, <3>1 DEF Fewer
    <3>3. \A j \in Cascades \ {k} : Still(j)
      BY <1>1, <3>1
    <3> QED
      BY <1>2, <3>1, <3>2, <3>3 DEF Nearer, Untouched
  <2>3. CASE legs[k] = {r}
    <3>1. Proceed(k, log[k] \ {rec[k]})
      BY <1>7, <2>3 DEF LegEnds
    <3>2. log[k] \ {rec[k]} \in SUBSET Flows /\ Fewer(log[k] \ {rec[k]}, log[k])
      BY <1>1, <2>1 DEF Fewer
    <3> QED
      BY <1>1, <1>2, <2>1, <3>1, <3>2, ProceedIsNearer DEF Untouched
  <2> QED
    BY <2>2, <2>3
<1> QED
  BY <1>3, <1>4, <1>5, <1>6, <1>7 DEF CascadeStep

\* No step of anybody sets a cascade back.
LEMMA CascadesMove ==
  ASSUME IInv, [Next]_vars
  PROVE  \A k \in Cascades : casPc[k] # "idle" => Nearer(k) \/ Untouched(k)
<1>1. ASSUME NEW k \in Cascades, CascadeStep(k) PROVE \A j \in Cascades : Nearer(j) \/ Untouched(j)
  BY <1>1, CascadeStepMovesOn
<1>2. ASSUME UNCHANGED <<casPc, casUser, cur, todo, log, rec, legs>>
      PROVE  \A k \in Cascades : Untouched(k)
  BY <1>2 DEF Untouched
<1>3. CASE OtherStep
  BY <1>2, <1>3, OtherFrame
<1>4. ASSUME NEW u \in Users, NEW s \in Sids, Login(u, s) PROVE \A k \in Cascades : Untouched(k)
  BY <1>2, <1>4 DEF Login, casVars, walkVars, revVars
<1>5. ASSUME NEW c \in Chats, AwaitResult(c) PROVE \A k \in Cascades : Untouched(k)
  BY <1>2, <1>5, ChatEffect DEF casVars, walkVars, revVars, ChatStep
<1>6. ASSUME NEW k \in Cascades, NEW u, NEW why, Queue(k, u, why)
      PROVE  \A j \in Cascades : casPc[j] # "idle" => Untouched(j)
  <2>1. /\ casPc[k] = "idle" /\ UNCHANGED <<cur, todo, log, rec, legs>>
        /\ casPc' = [casPc EXCEPT ![k] = "waiting"] /\ casUser' = [casUser EXCEPT ![k] = u]
    BY <1>6 DEF Queue
  <2>2. casPc \in [Cascades -> CasPcs] /\ casUser \in [Cascades -> Users \cup {None}]
    BY DEF IInv, TypeOK, WalkTypeOK, RevokeTypeOK
  <2> QED
    BY <2>1, <2>2 DEF Untouched
<1>7. ASSUME NEW k \in Cascades,
             \/ \E s \in Sids : PostLogout(k, s)
             \/ \E u \in Users : BackChannelLogout(k, u)
      PROVE  \A j \in Cascades : casPc[j] # "idle" => Untouched(j)
  BY <1>6, <1>7 DEF PostLogout, BackChannelLogout
<1> QED
  BY <1>1, <1>3, <1>4, <1>5, <1>7 DEF Next, UserStep, ChatStep, OtherStep

\* NoCascadeHangs, CascadesMoveOn: a cascade waits for the user's lock only behind
\* one that works, each of its steps leaves it fewer sessions, records or legs, no
\* login, chat or other cascade adds to them, and the lock is free when it ends
\* (get_user_lock, logout_handler).
THEOREM LogoutsMoveOn == Spec => []NoCascadeHangs /\ CascadesMoveOn
<1>1. IInv => NoCascadeHangs
  BY DEF IInv, CascadeInv, LockInv, WalkInv, RecordInv, NoCascadeHangs, LockFree
<1>2. IInv /\ [Next]_vars
        => [\A k \in Cascades : casPc[k] # "idle" =>
              \/ Nearer(k)
              \/ UNCHANGED <<casPc[k], casUser[k], cur[k], todo[k], log[k], rec[k], legs[k]>>]_vars
  BY CascadesMove DEF Untouched
<1> QED
  BY <1>1, <1>2, Inductive, PTL DEF Spec, CascadesMoveOn

=============================================================================
