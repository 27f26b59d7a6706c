------------------------ MODULE ConsentScreen_proofs ------------------------
(***************************************************************************)
(* Proofs about ConsentScreen, for all tabs, jobs, numbers of calls and of *)
(* streams.                                                                *)
(***************************************************************************)
EXTENDS ConsentScreen, TLAPS

USE ConsentScreenAssumption

\* The call that asks is one of those left.
AskInv == \A j \in Jobs : fanout[j].at = "asking" => fanout[j].left > 0

Answers(e) == e.kind \in {"message", "error"}

LiveStates == {"running", "asking"}

\* What follows a card in the queue, or will: the state that ends it, and the
\* answer of its job.
QueueInv ==
  \A n \in 1 .. Len(queue) :
    /\ fanout[JobOf(queue[n])].at # "new"
    /\ queue[n].kind = "url" =>
         /\ \/ fanout[JobOf(queue[n])].at = "asking"
            \/ \E m \in n + 1 .. Len(queue) :
                 queue[m].kind = "state" /\ JobOf(queue[m]) = JobOf(queue[n])
         /\ \/ fanout[JobOf(queue[n])].at \in LiveStates
            \/ \E m \in n + 1 .. Len(queue) :
                 Answers(queue[m]) /\ JobOf(queue[m]) = JobOf(queue[n])

Started == {"posted", "running", "asking"}

\* A job of the tab is yet to be answered, or its answer is in the queue.
Expecting(t) ==
  \/ \E j \in Jobs : fanout[j].tab = t /\ fanout[j].at \in Started
  \/ \E n \in 1 .. Len(queue) : Answers(queue[n]) /\ fanout[JobOf(queue[n])].tab = t

\* A job of the tab awaits a consent, or what came of one is in the queue.
Asking(t) ==
  \/ \E j \in Jobs : fanout[j].tab = t /\ fanout[j].at = "asking"
  \/ \E n \in 1 .. Len(queue) : queue[n].kind = "state" /\ fanout[JobOf(queue[n])].tab = t

\* A card that the page waits for is visible; a tab that is locked will be
\* answered, and a card that asks will be told, as long as nothing went astray.
TabInv(t) ==
  /\ page[t].widget # NoConsent => page[t].visible
  /\ ~astray =>
       /\ page[t].busy \/ ~page[t].composer => Expecting(t)
       /\ page[t].widget # NoConsent /\ page[t].card = "AWAITING" => Asking(t)

ScreenInv == \A t \in Tabs : TabInv(t)

CsInv == CsTypeOK /\ AskInv /\ QueueInv /\ ScreenInv

-----------------------------------------------------------------------------
(* The initial states, and types.                                            *)

\* A new page is a page without a card.
LEMMA FreshOK == FreshPage \in Page /\ FreshPage.widget = NoConsent
  BY DEF FreshPage, Page, Cards

\* Nothing has been sent, no stream is open: the invariant holds.
LEMMA CsInitInv == CsInit => CsInv
  <1> SUFFICES ASSUME CsInit PROVE CsInv
    OBVIOUS
  <1>1. PICK t \in Tabs :
          /\ fanout = [j \in Jobs |-> [at |-> "new", left |-> 0, tab |-> t]]
          /\ stream = [i \in Streams |-> [at |-> "none", tab |-> t]]
    BY DEF CsInit
  <1>2. CsTypeOK
    <2>1. queue \in Seq(Event) /\ page \in [Tabs -> Page]
      BY FreshOK DEF CsInit
    <2>2. 0 \in 0 .. Tools /\ 0 \in 0 .. MaxStreams
      OBVIOUS
    <2>3. fanout \in [Jobs -> [at : {"new", "posted", "orphan", "running", "asking", "done"},
                              left : 0 .. Tools, tab : Tabs]]
      BY <1>1, <2>2
    <2>4. stream \in [Streams -> [at : {"none", "open", "gone", "closed"}, tab : Tabs]]
      BY <1>1
    <2> QED BY <2>1, <2>2, <2>3, <2>4 DEF CsInit, CsTypeOK
  <1>3. QueueInv
    BY DEF CsInit, QueueInv
  <1>4. ScreenInv
    BY DEF CsInit, ScreenInv, TabInv, FreshPage
  <1>5. AskInv
    BY DEF CsInit, AskInv
  <1> QED BY <1>2, <1>3, <1>4, <1>5 DEF CsInv

\* Every handler of the page returns a page.
LEMMA HandlerTypes ==
  ASSUME NEW p \in Page
  PROVE  /\ Dismissed(p) \in Page /\ Sending(p) \in Page /\ OnAnswer(p) \in Page
         /\ FadeOver(p) \in Page
         /\ \A c \in Consents : OnUrl(p, c) \in Page
         /\ \A s : OnState(p, s) \in Page
  <1>1. Dismissed(p) \in Page
    BY DEF Page, Dismissed
  <1>2. Sending(p) \in Page /\ OnAnswer(p) \in Page
    BY DEF Page, Sending, OnAnswer
  <1>3. FadeOver(p) \in Page
    BY DEF Page, FadeOver
  <1>4. ASSUME NEW c \in Consents PROVE OnUrl(p, c) \in Page
    BY <1>4 DEF Page, Cards, OnUrl
  <1>5. ASSUME NEW s PROVE OnState(p, s) \in Page
    <2>1. [Dismissed(p) EXCEPT !.composer = TRUE] \in Page
      BY <1>1 DEF Page
    <2>2. [p EXCEPT !.card = "OVER", !.clocks = @ \ {p.widget}] \in Page
      BY DEF Page, Cards
    <2> QED BY <2>1, <2>2 DEF OnState
  <1> QED BY <1>1, <1>2, <1>3, <1>4, <1>5

\* What an event is made of, by its kind.
LEMMA EventParts ==
  ASSUME NEW e \in Event
  PROVE  /\ e.kind \in {"message", "error", "url", "state"}
         /\ e.kind = "url" => e.consent \in Consents /\ JobOf(e) = e.consent[1]
         /\ e.kind # "url" => JobOf(e) = e.job
         /\ JobOf(e) \in Jobs
  BY DEF Event, Consents, JobOf

\* Whatever event is handled, a page stays a page.
LEMMA HandledType ==
  ASSUME NEW p \in Page, NEW e \in Event
  PROVE  Handled(p, e) \in Page
  BY HandlerTypes, EventParts DEF Handled

-----------------------------------------------------------------------------
(* Types.                                                                    *)

\* What one publish or one take does to the queue.
LEMMA AppendQueue ==
  ASSUME queue \in Seq(Event), NEW e \in Event, queue' = Append(queue, e)
  PROVE  /\ queue' \in Seq(Event) /\ Len(queue') = Len(queue) + 1 /\ Len(queue) \in Nat
         /\ queue'[Len(queue')] = e
         /\ \A n \in 1 .. Len(queue) : queue'[n] = queue[n]
  OBVIOUS

\* Taking the first event leaves a queue of events.
LEMMA TailQueue ==
  ASSUME queue \in Seq(Event), queue # <<>>, queue' = Tail(queue)
  PROVE  /\ queue' \in Seq(Event) /\ Len(queue') = Len(queue) - 1 /\ Len(queue) \in Nat \ {0}
         /\ Head(queue) = queue[1] /\ Head(queue) \in Event
         /\ \A n \in 1 .. Len(queue') : queue'[n] = queue[n + 1]
  OBVIOUS

\* Each event the services publish is an event.
LEMMA EventTypes ==
  /\ \A j \in Jobs : /\ [kind |-> "message", job |-> j] \in Event
                     /\ [kind |-> "error", job |-> j] \in Event
                     /\ \A st \in {"DONE", "DENIED", "FAILED"} :
                          [kind |-> "state", job |-> j, state |-> st] \in Event
  /\ \A c \in Consents : [kind |-> "url", consent |-> c] \in Event
  BY DEF Event

\* Replacing one value of a function keeps its type.
LEMMA ExceptType ==
  ASSUME NEW S, NEW T, NEW f \in [S -> T], NEW x, NEW y \in T
  PROVE  /\ [f EXCEPT ![x] = y] \in [S -> T]
         /\ x \in S => [f EXCEPT ![x] = y][x] = y
         /\ \A z \in S \ {x} : [f EXCEPT ![x] = y][z] = f[z]
  OBVIOUS

Places == {"new", "posted", "orphan", "running", "asking", "done"}

Fan == [at : Places, left : 0 .. Tools, tab : Tabs]

\* A step of a job leaves the other jobs alone, and its own tab.
LEMMA StepEffect ==
  ASSUME fanout \in [Jobs -> Fan], NEW j \in Jobs,
         NEW where \in Places, NEW n \in 0 .. Tools, Step(j, where, n)
  PROVE  /\ fanout' \in [Jobs -> Fan]
         /\ fanout'[j].at = where /\ fanout'[j].left = n /\ fanout'[j].tab = fanout[j].tab
         /\ \A o \in Jobs \ {j} : fanout'[o] = fanout[o]
  <1> DEFINE r == [at |-> where, left |-> n, tab |-> fanout[j].tab]
  <1>1. fanout[j] \in Fan
    OBVIOUS
  <1>2. r \in Fan
    BY <1>1 DEF Fan
  <1> DEFINE f == [fanout EXCEPT ![j].at = where]
  <1>3. f \in [Jobs -> Fan] /\ f[j].at = where /\ f[j].tab = fanout[j].tab
        /\ \A o \in Jobs \ {j} : f[o] = fanout[o]
    BY <1>1 DEF Fan
  <1>4. fanout' = [f EXCEPT ![j].left = n]
    BY DEF Step
  <1> HIDE DEF f
  <1>5. fanout'[j] = r /\ \A o \in Jobs \ {j} : fanout'[o] = fanout[o]
    BY <1>3, <1>4 DEF Fan
  <1>6. fanout' = [f EXCEPT ![j] = r]
    BY <1>3, <1>4, <1>5
  <1> QED BY <1>2, <1>3, <1>5, <1>6, ExceptType

JobSteps(j) ==
  Routed(j) \/ Unrouted(j) \/ PostFails(j) \/ CallEnds(j) \/ CallAsks(j) \/ Settle(j) \/ Compose(j)

\* Where a step of a job leaves it.
LEMMA JobEffect ==
  ASSUME fanout \in [Jobs -> Fan], AskInv, NEW j \in Jobs, JobSteps(j)
  PROVE  /\ fanout' \in [Jobs -> Fan] /\ fanout'[j].tab = fanout[j].tab
         /\ \A o \in Jobs \ {j} : fanout'[o] = fanout[o]
         /\ Routed(j) \/ CallEnds(j) \/ Settle(j) => fanout'[j].at = "running"
         /\ Unrouted(j) \/ PostFails(j) \/ Compose(j) => fanout'[j].at = "done"
         /\ CallAsks(j) => fanout'[j].at = "asking" /\ fanout'[j].left = fanout[j].left
  <1>1. fanout[j].left \in 0 .. Tools /\ Tools \in Nat
    BY DEF Fan
  <1>2. /\ 0 \in 0 .. Tools /\ 1 .. Tools \subseteq 0 .. Tools
        /\ fanout[j].left > 0 => fanout[j].left - 1 \in 0 .. Tools
    BY <1>1
  <1>3. "running" \in Places /\ "asking" \in Places /\ "done" \in Places
    BY DEF Places
  <1>4. \A where \in Places, n \in 0 .. Tools : Step(j, where, n) =>
          /\ fanout' \in [Jobs -> Fan] /\ fanout'[j].tab = fanout[j].tab
          /\ fanout'[j].at = where /\ fanout'[j].left = n
          /\ \A o \in Jobs \ {j} : fanout'[o] = fanout[o]
    BY StepEffect
  <1>5. Routed(j) => \E n \in 0 .. Tools : Step(j, "running", n)
    BY <1>2 DEF Routed
  <1>6. Unrouted(j) \/ PostFails(j) \/ Compose(j) => Step(j, "done", 0)
    BY DEF Unrouted, PostFails, Compose
  <1>7. CallEnds(j) \/ Settle(j) => \E n \in 0 .. Tools : Step(j, "running", n)
    BY <1>2 DEF CallEnds, Settle, EndStates, AskInv
  <1>8. CallAsks(j) => Step(j, "asking", fanout[j].left)
    BY DEF CallAsks
  <1> QED BY <1>1, <1>2, <1>3, <1>4, <1>5, <1>6, <1>7, <1>8 DEF JobSteps

\* The steps of a job keep the types.
LEMMA JobTypes ==
  ASSUME CsTypeOK, AskInv, NEW j \in Jobs, JobSteps(j)
  PROVE  CsTypeOK'
  <1>0. fanout \in [Jobs -> Fan]
    BY DEF CsTypeOK, Fan, Places
  <1>1. fanout' \in [Jobs -> Fan]
    BY <1>0, JobEffect
  <1> USE DEF CsTypeOK
  <1>2. Tools \in Nat /\ MaxStreams \in Nat
    OBVIOUS
  <1>3. fanout[j].left \in 0 .. Tools /\ fanout[j].tab \in Tabs
    OBVIOUS
  <1>4. fanout[j].left > 0 => fanout[j].left - 1 \in 0 .. Tools /\ <<j, fanout[j].left>> \in Consents
    BY <1>2, <1>3 DEF Consents
  <1> USE DEF Fan, Places
  <1>5. CASE Routed(j)
    BY <1>1, <1>2, <1>5 DEF Routed, awaited
  <1>6. CASE Unrouted(j)
    <2>1. queue' \in Seq(Event)
      BY <1>6, EventTypes, AppendQueue DEF Unrouted, Publish1
    <2> QED BY <1>1, <1>2, <1>6, <2>1 DEF Unrouted, awaited
  <1>7. CASE PostFails(j)
    <2>1. page' \in [Tabs -> Page]
      <3> DEFINE t == fanout[j].tab
                 q == [page[t] EXCEPT !.busy = FALSE, !.composer = TRUE]
      <3>1. page \in [Tabs -> Page] /\ page[t] \in Page
        BY <1>3
      <3>2. q \in Page
        BY <3>1 DEF Page
      <3>3. page' = page \/ page' = [page EXCEPT ![t] = q]
        BY <1>7, <3>1 DEF PostFails
      <3> HIDE DEF t, q
      <3> QED BY <3>1, <3>2, <3>3
    <2> QED BY <1>1, <1>2, <1>7, <2>1 DEF PostFails, awaited
  <1>8. CASE CallEnds(j)
    <2>1. queue' \in Seq(Event)
      BY <1>8, EventTypes, AppendQueue DEF CallEnds, Publish1
    <2> QED BY <1>1, <1>4, <1>8, <2>1 DEF CallEnds, awaited
  <1>9. CASE CallAsks(j)
    <2>1. queue' \in Seq(Event)
      BY <1>4, <1>9, EventTypes, AppendQueue DEF CallAsks, Publish1
    <2> QED BY <1>1, <1>3, <1>9, <2>1 DEF CallAsks, awaited
  <1>10. CASE Settle(j)
    <2>1. queue' \in Seq(Event)
      BY <1>10, EventTypes, AppendQueue DEF Settle, EndStates, Publish1
    <2>2. shownBy' \in [Consents -> 0 .. MaxStreams]
      <3>1. shownBy' = [shownBy EXCEPT ![<<j, fanout[j].left>>] = 0]
        BY <1>10 DEF Settle, EndStates
      <3>2. shownBy \in [Consents -> 0 .. MaxStreams] /\ 0 \in 0 .. MaxStreams
        BY <1>2
      <3> QED BY <3>1, <3>2, ExceptType, Zenon
    <2> QED BY <1>1, <1>4, <1>10, <2>1, <2>2 DEF Settle, EndStates, AskInv
  <1>11. CASE Compose(j)
    <2>1. queue' \in Seq(Event)
      BY <1>11, EventTypes, AppendQueue DEF Compose, Publish1
    <2> QED BY <1>1, <1>2, <1>11, <2>1 DEF Compose, awaited
  <1> QED BY <1>5, <1>6, <1>7, <1>8, <1>9, <1>10, <1>11 DEF JobSteps

StreamRec == [at : {"none", "open", "gone", "closed"}, tab : Tabs]

\* The parts of CsTypeOK, by name.
LEMMA TypeParts ==
  CsTypeOK <=>
    /\ fanout \in [Jobs -> Fan] /\ stream \in [Streams -> StreamRec] /\ page \in [Tabs -> Page]
    /\ opened \cup stopTold \cup declined \subseteq Consents
    /\ shownBy \in [Consents -> 0 .. MaxStreams]
    /\ queue \in Seq(Event) /\ astray \in BOOLEAN
  BY DEF CsTypeOK, Fan, Places, StreamRec

\* The types of the next state, variable by variable.
LEMMA TypeNext ==
  CsTypeOK' <=>
    /\ fanout' \in [Jobs -> Fan] /\ stream' \in [Streams -> StreamRec] /\ page' \in [Tabs -> Page]
    /\ opened' \cup stopTold' \cup declined' \subseteq Consents
    /\ shownBy' \in [Consents -> 0 .. MaxStreams]
    /\ queue' \in Seq(Event) /\ astray' \in BOOLEAN
  BY DEF CsTypeOK, Fan, Places, StreamRec

\* A new post, or a decision in the reports view, is of a job that is new.
LEMMA NewJob ==
  ASSUME fanout \in [Jobs -> Fan], NEW t \in Tabs, NEW j \in Jobs,
         Posted(t, j) \/ Report(t, j)
  PROVE  /\ fanout' \in [Jobs -> Fan] /\ fanout[j].at = "new"
         /\ fanout'[j].tab = t /\ fanout'[j].at \in {"posted", "running"}
         /\ \A o \in Jobs \ {j} : fanout'[o] = fanout[o]
  <1>1. 0 \in 0 .. Tools /\ 1 \in 0 .. Tools
    OBVIOUS
  <1>2. PICK r \in Fan : /\ fanout' = [fanout EXCEPT ![j] = r]
                         /\ r.tab = t /\ r.at \in {"posted", "running"}
    BY <1>1 DEF Posted, Report, Fan, Places
  <1> QED BY <1>2, ExceptType DEF Posted, Report

\* Loading a page anew makes orphans of what it posted.
LEMMA ReloadEffect ==
  ASSUME fanout \in [Jobs -> Fan], NEW i \in Streams, Reload(i)
  PROVE  /\ fanout' \in [Jobs -> Fan]
         /\ \A j \in Jobs : /\ fanout'[j].tab = fanout[j].tab /\ fanout'[j].left = fanout[j].left
                            /\ \/ fanout'[j].at = fanout[j].at
                               \/ /\ fanout[j].at = "posted" /\ fanout[j].tab = stream[i].tab
                                  /\ fanout'[j].at = "orphan"
  BY DEF Reload, Fan, Places

StreamSteps(i) == Drop(i) \/ Reload(i) \/ Close(i) \/ Lose(i) \/ Deliver(i)

\* A stream that hands over an event keeps the types.
LEMMA TakeTypes ==
  ASSUME CsTypeOK, NEW i \in Streams, NEW e, FromQueue(i, e)
  PROVE  /\ queue' \in Seq(Event) /\ e \in Event
         /\ shownBy' \in [Consents -> 0 .. MaxStreams]
         /\ UNCHANGED <<fanout, opened, stopTold, declined, stream>>
  <1>1. queue \in Seq(Event) /\ shownBy \in [Consents -> 0 .. MaxStreams]
    BY TypeParts
  <1>2. queue' \in Seq(Event) /\ e \in Event
    BY <1>1, TailQueue DEF FromQueue
  <1>3. i \in 0 .. MaxStreams
    BY DEF Streams
  <1>4. shownBy' = shownBy \/ shownBy' = [shownBy EXCEPT ![e.consent] = i]
    BY DEF FromQueue
  <1>5. shownBy' \in [Consents -> 0 .. MaxStreams]
    <2>1. shownBy \in [Consents -> 0 .. MaxStreams]
      BY <1>1
    <2>2. [shownBy EXCEPT ![e.consent] = i] \in [Consents -> 0 .. MaxStreams]
      BY <1>3, <2>1, ExceptType, Zenon
    <2> QED BY <1>4, <2>1, <2>2
  <1> QED BY <1>2, <1>5 DEF FromQueue

\* Streams that open, drop and end keep the types.
LEMMA StreamTypes ==
  ASSUME CsTypeOK, NEW i \in Streams, StreamSteps(i)
  PROVE  CsTypeOK'
  <1>1. /\ fanout \in [Jobs -> Fan] /\ stream \in [Streams -> StreamRec] /\ page \in [Tabs -> Page]
        /\ opened \cup stopTold \cup declined \subseteq Consents
        /\ shownBy \in [Consents -> 0 .. MaxStreams]
        /\ queue \in Seq(Event) /\ astray \in BOOLEAN
    BY TypeParts
  <1>2. stream[i] \in StreamRec /\ stream[i].tab \in Tabs /\ Pending \subseteq Consents
    BY <1>1 DEF StreamRec, Pending
  <1>3. CASE Drop(i)
    <2>1. stream' \in [Streams -> StreamRec]
      BY <1>1, <1>3 DEF Drop, StreamRec
    <2> QED BY <1>1, <1>3, <2>1, TypeNext DEF Drop, awaited
  <1>4. CASE Reload(i)
    <2>1. stream' \in [Streams -> StreamRec]
      BY <1>1, <1>4 DEF Reload, StreamRec
    <2>2. page' \in [Tabs -> Page]
      BY <1>1, <1>4, FreshOK, ExceptType DEF Reload
    <2> QED BY <1>1, <1>4, <2>1, <2>2, ReloadEffect, TypeNext DEF Reload, awaited
  <1>5. CASE Close(i)
    <2>1. stream' \in [Streams -> StreamRec]
      BY <1>1, <1>5 DEF Close, StreamRec
    <2> QED BY <1>1, <1>5, <2>1, TypeNext DEF Close, SentWhenCancelled
  <1>6. CASE Lose(i)
    BY <1>1, <1>6, TakeTypes, TypeNext DEF Lose
  <1>7. CASE Deliver(i)
    <2> DEFINE t == stream[i].tab
               e == Head(queue)
    <2>1. /\ queue' \in Seq(Event) /\ e \in Event
          /\ shownBy' \in [Consents -> 0 .. MaxStreams]
          /\ UNCHANGED <<fanout, opened, stopTold, declined, stream>>
      BY <1>7, TakeTypes DEF Deliver
    <2>2. Handled(page[t], e) \in Page
      BY <1>1, <1>2, <2>1, HandledType
    <2>3. page' = [page EXCEPT ![t] = Handled(page[t], e)] /\ astray' \in BOOLEAN
      BY <1>7 DEF Deliver
    <2> HIDE DEF t, e
    <2>4. page' \in [Tabs -> Page]
      BY <1>1, <2>2, <2>3, ExceptType
    <2> QED BY <1>1, <2>1, <2>3, <2>4, TypeNext
  <1> QED BY <1>3, <1>4, <1>5, <1>6, <1>7 DEF StreamSteps

UserSteps(t) ==
  \/ Connect(t) \/ Fade(t) \/ Approve(t) \/ Deny(t) \/ Denied(t) \/ Dismiss(t)
  \/ \E c \in Consents : RunOut(t, c)
  \/ \E j \in Jobs : Submit(t, j) \/ Report(t, j) \/ RetryWidget(t, j)

\* Which pages a step of the user at a tab may leave there.
LEMMA UserPages ==
  ASSUME page \in [Tabs -> Page], NEW t \in Tabs, UserSteps(t)
  PROVE  \E q \in Page : page' = [page EXCEPT ![t] = q]
  <1>1. page[t] \in Page /\ page = [page EXCEPT ![t] = page[t]]
    OBVIOUS
  <1>2. CASE Connect(t) \/ \E j \in Jobs : Report(t, j)
    BY <1>1, <1>2 DEF Connect, Report
  <1>3. CASE Fade(t)
    BY <1>1, <1>3, HandlerTypes DEF Fade
  <1>4. CASE Approve(t)
    <2>1. [page[t] EXCEPT !.card = "VERIFYING", !.clocks = @ \ {page[t].widget}] \in Page
      BY <1>1 DEF Page, Cards
    <2>2. page' = [page EXCEPT ![t] =
            [page[t] EXCEPT !.card = "VERIFYING", !.clocks = @ \ {page[t].widget}]]
      BY <1>1, <1>4 DEF Approve, Page
    <2> QED BY <2>1, <2>2
  <1>5. CASE Deny(t)
    <2>1. [page[t] EXCEPT !.denying = TRUE] \in Page
      BY <1>1 DEF Page
    <2> QED BY <1>1, <1>5, <2>1 DEF Deny
  <1>6. CASE Denied(t)
    <2>1. /\ [page[t] EXCEPT !.denying = FALSE] \in Page
          /\ [Dismissed(page[t]) EXCEPT !.denying = FALSE, !.composer = TRUE] \in Page
      BY <1>1 DEF Page, Dismissed
    <2> QED BY <1>1, <1>6, <2>1 DEF Denied
  <1>7. CASE Dismiss(t)
    <2>1. [Dismissed(page[t]) EXCEPT !.composer = TRUE] \in Page
      BY <1>1 DEF Page, Dismissed
    <2> QED BY <1>1, <1>7, <2>1 DEF Dismiss
  <1>8. ASSUME NEW c \in Consents, RunOut(t, c)
        PROVE  \E q \in Page : page' = [page EXCEPT ![t] = q]
    <2>1. [page[t] EXCEPT !.card = "OVER", !.clocks = @ \ {page[t].widget}] \in Page
      BY <1>1 DEF Page, Cards
    <2>2. page' = [page EXCEPT ![t] =
            [page[t] EXCEPT !.card = "OVER", !.clocks = @ \ {page[t].widget}]]
      BY <1>1, <1>8 DEF RunOut, Page
    <2> QED BY <2>1, <2>2
  <1>9. ASSUME NEW j \in Jobs, Submit(t, j) \/ RetryWidget(t, j)
        PROVE  \E q \in Page : page' = [page EXCEPT ![t] = q]
    <2>1. /\ Sending(page[t]) \in Page /\ Dismissed(page[t]) \in Page
          /\ Sending(Dismissed(page[t])) \in Page
      BY <1>1, HandlerTypes
    <2> QED BY <1>1, <1>9, <2>1 DEF Submit, RetryWidget
  <1> QED BY <1>2, <1>3, <1>4, <1>5, <1>6, <1>7, <1>8, <1>9 DEF UserSteps

\* The steps of the user and of the page keep the types.
LEMMA UserTypes ==
  ASSUME CsTypeOK, NEW t \in Tabs, UserSteps(t)
  PROVE  CsTypeOK'
  <1>1. /\ fanout \in [Jobs -> Fan] /\ stream \in [Streams -> StreamRec] /\ page \in [Tabs -> Page]
        /\ opened \cup stopTold \cup declined \subseteq Consents
        /\ shownBy \in [Consents -> 0 .. MaxStreams]
        /\ queue \in Seq(Event) /\ astray \in BOOLEAN
    BY TypeParts
  <1>2. page' \in [Tabs -> Page]
    BY <1>1, UserPages, ExceptType
  <1>3. Pending \subseteq Consents
    BY DEF Pending
  <1>4. CASE Connect(t)
    <2>1. PICK i \in Streams : stream' = [stream EXCEPT ![i].at = "open", ![i].tab = t]
      BY <1>4 DEF Connect
    <2>2. stream' \in [Streams -> StreamRec]
      BY <1>1, <2>1 DEF StreamRec
    <2> QED BY <1>1, <1>4, <2>2, TypeNext DEF Connect, awaited
  <1>5. CASE Fade(t) \/ Dismiss(t) \/ \E c \in Consents : RunOut(t, c)
    BY <1>1, <1>2, <1>5, TypeNext DEF Fade, Dismiss, RunOut, awaited
  <1>6. CASE Approve(t) \/ Deny(t) \/ Denied(t)
    BY <1>1, <1>2, <1>3, <1>6, TypeNext DEF Approve, Deny, Denied, CancelRequest
  <1>7. ASSUME NEW j \in Jobs, Submit(t, j) \/ Report(t, j) \/ RetryWidget(t, j) PROVE CsTypeOK'
    <2>1. fanout' \in [Jobs -> Fan]
      BY <1>1, <1>7, NewJob DEF Submit, RetryWidget
    <2> QED BY <1>1, <1>2, <1>7, <2>1, TypeNext DEF Submit, Report, RetryWidget, awaited
  <1> QED BY <1>4, <1>5, <1>6, <1>7 DEF UserSteps

\* Every step keeps the types.
LEMMA CsTypeStep == CsTypeOK /\ AskInv /\ [CsNext]_csVars => CsTypeOK'
  <1> SUFFICES ASSUME CsTypeOK, AskInv, [CsNext]_csVars PROVE CsTypeOK'
    OBVIOUS
  <1>1. CASE UNCHANGED csVars
    BY <1>1 DEF csVars, awaited, CsTypeOK
  <1> QED BY <1>1, JobTypes, StreamTypes, UserTypes DEF CsNext, JobSteps, StreamSteps, UserSteps

-----------------------------------------------------------------------------
(* What follows a card in the queue.                                         *)

\* Every step keeps AskInv.
LEMMA AskStep == CsTypeOK /\ AskInv /\ [CsNext]_csVars => AskInv'
  <1> SUFFICES ASSUME CsTypeOK, AskInv, [CsNext]_csVars PROVE AskInv'
    OBVIOUS
  <1>1. fanout \in [Jobs -> Fan]
    BY TypeParts
  <1>2. CASE UNCHANGED fanout
    BY <1>2 DEF AskInv
  <1>3. ASSUME NEW j \in Jobs, JobSteps(j) PROVE AskInv'
    <2>1. CallAsks(j) => fanout[j].left > 0
      BY DEF CallAsks
    <2> QED BY <1>1, <1>3, <2>1, JobEffect DEF AskInv, JobSteps
  <1>4. ASSUME NEW i \in Streams, StreamSteps(i) PROVE AskInv'
    <2>1. CASE Reload(i)
      BY <1>1, <2>1, ReloadEffect DEF AskInv
    <2> QED BY <1>2, <1>4, <2>1
            DEF StreamSteps, Drop, Close, Lose, Deliver, FromQueue
  <1>5. ASSUME NEW t \in Tabs, UserSteps(t) PROVE AskInv'
    <2>1. ASSUME NEW j \in Jobs, Posted(t, j) \/ Report(t, j) PROVE AskInv'
      BY <1>1, <2>1, NewJob DEF AskInv
    <2> QED BY <1>2, <1>5, <2>1
            DEF UserSteps, Connect, Fade, Approve, Deny, Denied, Dismiss, RunOut, Submit, RetryWidget
  <1>6. CASE UNCHANGED csVars
    BY <1>2, <1>6 DEF csVars
  <1> QED BY <1>3, <1>4, <1>5, <1>6 DEF CsNext, JobSteps, StreamSteps, UserSteps

\* A step that leaves the queue alone, and ends no job but with an event, keeps QueueInv.
LEMMA QueueKept ==
  ASSUME QueueInv, queue \in Seq(Event), UNCHANGED queue,
         \A j \in Jobs :
           /\ fanout[j].at # "new" => fanout'[j].at # "new"
           /\ fanout[j].at = "asking" => fanout'[j].at = "asking"
           /\ fanout[j].at \in LiveStates => fanout'[j].at \in LiveStates
  PROVE  QueueInv'
  <1>1. queue' = queue /\ \A n \in 1 .. Len(queue) : JobOf(queue[n]) \in Jobs
    BY EventParts
  <1> SUFFICES ASSUME NEW n \in 1 .. Len(queue')
      PROVE
    /\ fanout'[JobOf(queue'[n])].at # "new"
    /\ queue'[n].kind = "url" =>
         /\ \/ fanout'[JobOf(queue'[n])].at = "asking"
            \/ \E m \in n + 1 .. Len(queue') :
                 queue'[m].kind = "state" /\ JobOf(queue'[m]) = JobOf(queue'[n])
         /\ \/ fanout'[JobOf(queue'[n])].at \in LiveStates
            \/ \E m \in n + 1 .. Len(queue') :
                 Answers(queue'[m]) /\ JobOf(queue'[m]) = JobOf(queue'[n])
    BY DEF QueueInv, LiveStates
  <1> n \in 1 .. Len(queue)
    BY <1>1
  <1> DEFINE j == JobOf(queue[n])
  <1>2. j \in Jobs /\ fanout[j].at # "new"
    BY <1>1 DEF QueueInv
  <1>3. queue[n].kind = "url" =>
          /\ \/ fanout[j].at = "asking"
             \/ \E m \in n + 1 .. Len(queue) : queue[m].kind = "state" /\ JobOf(queue[m]) = j
          /\ \/ fanout[j].at \in LiveStates
             \/ \E m \in n + 1 .. Len(queue) : Answers(queue[m]) /\ JobOf(queue[m]) = j
    BY DEF QueueInv
  <1> HIDE DEF j
  <1>4. /\ fanout'[j].at # "new"
        /\ fanout[j].at = "asking" => fanout'[j].at = "asking"
        /\ fanout[j].at \in LiveStates => fanout'[j].at \in LiveStates
    BY <1>2
  <1>5. queue[n].kind = "url" =>
          /\ \/ fanout'[j].at = "asking"
             \/ \E m \in n + 1 .. Len(queue) : queue[m].kind = "state" /\ JobOf(queue[m]) = j
          /\ \/ fanout'[j].at \in LiveStates
             \/ \E m \in n + 1 .. Len(queue) : Answers(queue[m]) /\ JobOf(queue[m]) = j
    BY <1>3, <1>4, Zenon
  <1> QED BY <1>4, <1>5, Zenon DEF j

\* Publishing an event behind the others keeps QueueInv.
LEMMA QueuePushed ==
  ASSUME QueueInv, queue \in Seq(Event), NEW e \in Event, queue' = Append(queue, e),
         fanout'[JobOf(e)].at # "new",
         e.kind = "url" => fanout'[JobOf(e)].at = "asking",
         \A j \in Jobs :
           /\ fanout[j].at # "new" => fanout'[j].at # "new"
           /\ fanout[j].at = "asking" => fanout'[j].at = "asking" \/ (e.kind = "state" /\ JobOf(e) = j)
           /\ fanout[j].at \in LiveStates => fanout'[j].at \in LiveStates \/ (Answers(e) /\ JobOf(e) = j)
  PROVE  QueueInv'
  <1> DEFINE L == Len(queue)
  <1>1. /\ Len(queue') = L + 1 /\ L \in Nat /\ queue'[L + 1] = e
        /\ \A n \in 1 .. L : queue'[n] = queue[n] /\ JobOf(queue[n]) \in Jobs
    BY AppendQueue, EventParts
  <1> SUFFICES ASSUME NEW n \in 1 .. Len(queue')
      PROVE
    /\ fanout'[JobOf(queue'[n])].at # "new"
    /\ queue'[n].kind = "url" =>
         /\ \/ fanout'[JobOf(queue'[n])].at = "asking"
            \/ \E m \in n + 1 .. Len(queue') :
                 queue'[m].kind = "state" /\ JobOf(queue'[m]) = JobOf(queue'[n])
         /\ \/ fanout'[JobOf(queue'[n])].at \in LiveStates
            \/ \E m \in n + 1 .. Len(queue') :
                 Answers(queue'[m]) /\ JobOf(queue'[m]) = JobOf(queue'[n])
    BY Zenon DEF QueueInv
  <1>2. CASE n = L + 1
    <2>1. queue'[n] = e
      BY <1>1, <1>2
    <2> QED BY <2>1 DEF LiveStates
  <1>3. CASE n \in 1 .. L
    <2> DEFINE j == JobOf(queue[n])
    <2>1. j \in Jobs /\ queue'[n] = queue[n] /\ fanout[j].at # "new"
      BY <1>1, <1>3 DEF QueueInv
    <2>2. Len(queue') \in n + 1 .. Len(queue') /\ queue'[Len(queue')] = e
          /\ \A m \in n + 1 .. L : m \in n + 1 .. Len(queue') /\ queue'[m] = queue[m]
      BY <1>1, <1>3
    <2>3. queue[n].kind = "url" =>
            /\ \/ fanout[j].at = "asking"
               \/ \E m \in n + 1 .. L : queue[m].kind = "state" /\ JobOf(queue[m]) = j
            /\ \/ fanout[j].at \in LiveStates
               \/ \E m \in n + 1 .. L : Answers(queue[m]) /\ JobOf(queue[m]) = j
      BY <1>3 DEF QueueInv
    <2> HIDE DEF j, L
    <2>4. fanout'[j].at # "new"
      BY <2>1
    <2>5. queue[n].kind = "url" =>
            \/ fanout'[j].at = "asking"
            \/ \E m \in n + 1 .. Len(queue') : queue'[m].kind = "state" /\ JobOf(queue'[m]) = j
      BY <2>1, <2>2, <2>3
    <2>6. queue[n].kind = "url" =>
            \/ fanout'[j].at \in LiveStates
            \/ \E m \in n + 1 .. Len(queue') : Answers(queue'[m]) /\ JobOf(queue'[m]) = j
      BY <2>1, <2>2, <2>3
    <2>7. JobOf(queue'[n]) = j
      BY <2>1 DEF j
    <2> QED BY <2>1, <2>4, <2>5, <2>6, <2>7, Zenon
  <1>4. n = L + 1 \/ n \in 1 .. L
    BY <1>1
  <1> QED BY <1>2, <1>3, <1>4

\* Taking the first event keeps QueueInv.
LEMMA QueuePopped ==
  ASSUME QueueInv, queue \in Seq(Event), queue # <<>>, queue' = Tail(queue), UNCHANGED fanout
  PROVE  QueueInv'
  <1>1. /\ Len(queue') = Len(queue) - 1 /\ Len(queue) \in Nat \ {0}
        /\ \A n \in 1 .. Len(queue') : queue'[n] = queue[n + 1]
    BY TailQueue
  <1> SUFFICES ASSUME NEW n \in 1 .. Len(queue')
      PROVE
    /\ fanout[JobOf(queue'[n])].at # "new"
    /\ queue'[n].kind = "url" =>
         /\ \/ fanout[JobOf(queue'[n])].at = "asking"
            \/ \E m \in n + 1 .. Len(queue') :
                 queue'[m].kind = "state" /\ JobOf(queue'[m]) = JobOf(queue'[n])
         /\ \/ fanout[JobOf(queue'[n])].at \in LiveStates
            \/ \E m \in n + 1 .. Len(queue') :
                 Answers(queue'[m]) /\ JobOf(queue'[m]) = JobOf(queue'[n])
    BY DEF QueueInv, LiveStates
  <1>2. n + 1 \in 1 .. Len(queue) /\ queue'[n] = queue[n + 1]
    BY <1>1
  <1>3. \A m \in n + 2 .. Len(queue) : m - 1 \in n + 1 .. Len(queue') /\ queue'[m - 1] = queue[m]
    BY <1>1
  <1> DEFINE j == JobOf(queue[n + 1])
  <1>4. /\ fanout[j].at # "new"
        /\ queue[n + 1].kind = "url" =>
             /\ \/ fanout[j].at = "asking"
                \/ \E m \in n + 1 + 1 .. Len(queue) : queue[m].kind = "state" /\ JobOf(queue[m]) = j
             /\ \/ fanout[j].at \in LiveStates
                \/ \E m \in n + 1 + 1 .. Len(queue) : Answers(queue[m]) /\ JobOf(queue[m]) = j
    BY <1>2 DEF QueueInv
  <1>5. n + 1 + 1 = n + 2
    OBVIOUS
  <1> HIDE DEF j
  <1>6. queue[n + 1].kind = "url" =>
          /\ fanout[j].at = "asking"
              \/ \E m \in n + 1 .. Len(queue') : queue'[m].kind = "state" /\ JobOf(queue'[m]) = j
          /\ fanout[j].at \in LiveStates
              \/ \E m \in n + 1 .. Len(queue') : Answers(queue'[m]) /\ JobOf(queue'[m]) = j
    BY <1>3, <1>4, <1>5
  <1> QED BY <1>2, <1>4, <1>6 DEF j

\* Every step keeps QueueInv.
LEMMA QueueStep == CsTypeOK /\ QueueInv /\ AskInv /\ [CsNext]_csVars => QueueInv'
  <1> SUFFICES ASSUME CsTypeOK, QueueInv, AskInv, [CsNext]_csVars PROVE QueueInv'
    OBVIOUS
  <1>1. fanout \in [Jobs -> Fan] /\ queue \in Seq(Event)
    BY TypeParts
  <1>2. CASE UNCHANGED <<fanout, queue>>
    BY <1>2 DEF QueueInv, LiveStates
  <1>3. ASSUME NEW j \in Jobs, JobSteps(j) PROVE QueueInv'
    <2>1. /\ \A o \in Jobs \ {j} : fanout'[o] = fanout[o]
          /\ fanout'[j].at \in {"running", "done", "asking"}
      BY <1>1, <1>3, JobEffect DEF JobSteps
    <2>2. \A o \in Jobs \ {j} : (fanout'[o].at \in LiveStates) = (fanout[o].at \in LiveStates)
      BY <2>1 DEF LiveStates
    <2>3. CASE Routed(j) \/ PostFails(j)
      <3>1. UNCHANGED queue /\ fanout[j].at \in {"posted", "orphan"}
        BY <2>3 DEF Routed, PostFails, PostOpen
      <3> QED BY <1>1, <2>1, <2>2, <3>1, QueueKept DEF LiveStates
    <2>4. CASE Unrouted(j) \/ Compose(j)
      <3> DEFINE e == [kind |-> "message", job |-> j]
      <3>1. e \in Event /\ JobOf(e) = j /\ Answers(e) /\ e.kind = "message"
        BY EventTypes DEF JobOf, Answers
      <3>2. queue' = Append(queue, e) /\ fanout[j].at # "asking"
        BY <2>4 DEF Unrouted, Compose, Publish1, PostOpen
      <3> HIDE DEF e
      <3> QED BY <1>1, <2>1, <2>2, <3>1, <3>2, QueuePushed
    <2>5. CASE CallEnds(j)
      <3> DEFINE e == [kind |-> "error", job |-> j]
      <3>1. e \in Event /\ JobOf(e) = j /\ Answers(e) /\ e.kind = "error"
        BY EventTypes DEF JobOf, Answers
      <3>2. fanout[j].at = "running" /\ fanout'[j].at = "running"
        BY <1>1, <1>3, <2>5, JobEffect DEF CallEnds
      <3>3. queue' = Append(queue, e) \/ UNCHANGED queue
        BY <2>5 DEF CallEnds, Publish1
      <3>4. fanout'[j].at \in LiveStates
        BY <3>2 DEF LiveStates
      <3> HIDE DEF e
      <3>5. CASE UNCHANGED queue
        BY <1>1, <2>1, <2>2, <3>2, <3>4, <3>5, QueueKept
      <3>6. CASE queue' = Append(queue, e)
        BY <1>1, <2>1, <2>2, <3>1, <3>2, <3>4, <3>6, QueuePushed
      <3> QED BY <3>3, <3>5, <3>6
    <2>6. CASE CallAsks(j)
      <3> DEFINE c == <<j, fanout[j].left>>
                 e == [kind |-> "url", consent |-> c]
      <3>1. c \in Consents
        <4>1. fanout[j].left \in 0 .. Tools /\ fanout[j].left > 0 /\ Tools \in Nat
          BY <1>1, <2>6 DEF Fan, CallAsks
        <4> QED BY <4>1 DEF Consents
      <3>2. e \in Event /\ JobOf(e) = j /\ e.kind = "url"
        BY <3>1, EventTypes DEF JobOf
      <3>3. queue' = Append(queue, e)
        BY <2>6 DEF CallAsks, Publish1
      <3>4. fanout'[j].at = "asking"
        BY <1>1, <1>3, <2>6, JobEffect
      <3>5. fanout'[j].at \in LiveStates
        BY <3>4 DEF LiveStates
      <3> HIDE DEF e
      <3> QED BY <1>1, <2>1, <2>2, <3>2, <3>3, <3>4, <3>5, QueuePushed
    <2>7. CASE Settle(j)
      <3>1. PICK st \in {"DONE", "DENIED", "FAILED"} :
              queue' = Append(queue, [kind |-> "state", job |-> j, state |-> st])
        BY <2>7 DEF Settle, EndStates, Publish1
      <3> DEFINE e == [kind |-> "state", job |-> j, state |-> st]
      <3>2. e \in Event /\ JobOf(e) = j /\ e.kind = "state"
        BY EventTypes DEF JobOf
      <3>3. fanout'[j].at = "running"
        BY <1>1, <1>3, <2>7, JobEffect
      <3>4. fanout'[j].at \in LiveStates
        BY <3>3 DEF LiveStates
      <3> HIDE DEF e
      <3> QED BY <1>1, <2>1, <2>2, <3>1, <3>2, <3>3, <3>4, QueuePushed DEF e
    <2> QED BY <1>3, <2>3, <2>4, <2>5, <2>6, <2>7 DEF JobSteps
  <1>4. ASSUME NEW i \in Streams, StreamSteps(i) PROVE QueueInv'
    <2>1. CASE Reload(i)
      <3>1. UNCHANGED queue
        BY <2>1 DEF Reload
      <3> QED BY <1>1, <2>1, <3>1, ReloadEffect, QueueKept DEF LiveStates
    <2>2. CASE Lose(i) \/ Deliver(i)
      BY <1>1, <2>2, QueuePopped DEF Lose, Deliver, FromQueue
    <2> QED BY <1>2, <1>4, <2>1, <2>2 DEF StreamSteps, Drop, Close
  <1>5. ASSUME NEW t \in Tabs, UserSteps(t) PROVE QueueInv'
    <2>1. ASSUME NEW j \in Jobs, Posted(t, j) \/ Report(t, j), UNCHANGED queue PROVE QueueInv'
      <3>1. /\ fanout[j].at = "new" /\ fanout'[j].at \in {"posted", "running"}
            /\ \A o \in Jobs \ {j} : fanout'[o] = fanout[o]
        BY <1>1, <2>1, NewJob
      <3> QED BY <1>1, <2>1, <3>1, QueueKept DEF LiveStates
    <2> QED BY <1>2, <1>5, <2>1
            DEF UserSteps, Connect, Fade, Approve, Deny, Denied, Dismiss, RunOut, Submit, RetryWidget, Report
  <1>6. CASE UNCHANGED csVars
    BY <1>2, <1>6 DEF csVars
  <1> QED BY <1>3, <1>4, <1>5, <1>6 DEF CsNext, JobSteps, StreamSteps, UserSteps


-----------------------------------------------------------------------------
(* What the page waits for.                                                  *)

\* Nothing leaves the queue, and a job that was posted stays with its tab.
Grown ==
  /\ \A n \in 1 .. Len(queue) : n \in 1 .. Len(queue') /\ queue'[n] = queue[n]
  /\ \A n \in 1 .. Len(queue) : JobOf(queue[n]) \in Jobs /\ fanout[JobOf(queue[n])].at # "new"
  /\ \A j \in Jobs : fanout[j].at # "new" => fanout'[j].tab = fanout[j].tab

\* What a locked tab waits for is still to come.
LEMMA StillExpecting ==
  ASSUME NEW t \in Tabs, Grown,
         \A j \in Jobs : fanout[j].tab = t /\ fanout[j].at \in Started =>
           \/ fanout'[j].at \in Started
           \/ \E n \in 1 .. Len(queue') : Answers(queue'[n]) /\ JobOf(queue'[n]) = j
  PROVE  Expecting(t) => Expecting(t)'
  <1>1. ASSUME NEW j \in Jobs, fanout[j].tab = t, fanout[j].at \in Started PROVE Expecting(t)'
    <2>1. fanout'[j].tab = t
      BY <1>1 DEF Grown, Started
    <2> QED BY <1>1, <2>1 DEF Expecting
  <1>2. ASSUME NEW n \in 1 .. Len(queue), Answers(queue[n]), fanout[JobOf(queue[n])].tab = t
        PROVE  Expecting(t)'
    <2>1. n \in 1 .. Len(queue') /\ Answers(queue'[n]) /\ fanout'[JobOf(queue'[n])].tab = t
      BY <1>2 DEF Grown
    <2> QED BY <2>1 DEF Expecting
  <1> QED BY <1>1, <1>2 DEF Expecting

\* What ends the card that asks is still to come.
LEMMA StillAsking ==
  ASSUME NEW t \in Tabs, Grown,
         \A j \in Jobs : fanout[j].tab = t /\ fanout[j].at = "asking" =>
           \/ fanout'[j].at = "asking"
           \/ \E n \in 1 .. Len(queue') : queue'[n].kind = "state" /\ JobOf(queue'[n]) = j
  PROVE  Asking(t) => Asking(t)'
  <1>1. ASSUME NEW j \in Jobs, fanout[j].tab = t, fanout[j].at = "asking" PROVE Asking(t)'
    <2>1. fanout'[j].tab = t
      BY <1>1 DEF Grown
    <2> QED BY <1>1, <2>1 DEF Asking
  <1>2. ASSUME NEW n \in 1 .. Len(queue), queue[n].kind = "state", fanout[JobOf(queue[n])].tab = t
        PROVE  Asking(t)'
    <2>1. n \in 1 .. Len(queue') /\ queue'[n].kind = "state" /\ fanout'[JobOf(queue'[n])].tab = t
      BY <1>2 DEF Grown
    <2> QED BY <2>1 DEF Asking
  <1> QED BY <1>1, <1>2 DEF Asking

\* A page that nothing happens to, with all that it waits for.
LEMMA PageKept ==
  ASSUME NEW t \in Tabs, TabInv(t), page'[t] = page[t], astray => astray',
         Expecting(t) => Expecting(t)', Asking(t) => Asking(t)'
  PROVE  TabInv(t)'
  BY DEF TabInv

\* Taking an event loses only what that event was to its tab.
LEMMA TakenQueue ==
  ASSUME queue \in Seq(Event), queue # <<>>, queue' = Tail(queue), UNCHANGED fanout,
         NEW t \in Tabs
  PROVE  /\ Expecting(t) => \/ Expecting(t)'
                            \/ Answers(Head(queue)) /\ fanout[JobOf(Head(queue))].tab = t
         /\ Asking(t) => \/ Asking(t)'
                         \/ Head(queue).kind = "state" /\ fanout[JobOf(Head(queue))].tab = t
  <1>1. /\ Len(queue') = Len(queue) - 1 /\ Len(queue) \in Nat \ {0}
        /\ Head(queue) = queue[1]
        /\ \A n \in 1 .. Len(queue') : queue'[n] = queue[n + 1]
    BY TailQueue
  <1>2. ASSUME NEW n \in 1 .. Len(queue), n # 1
        PROVE  n - 1 \in 1 .. Len(queue') /\ queue'[n - 1] = queue[n]
    BY <1>1, <1>2
  <1>3. ASSUME Expecting(t)
        PROVE  \/ Expecting(t)'
               \/ Answers(Head(queue)) /\ fanout[JobOf(Head(queue))].tab = t
    <2>1. CASE \E j \in Jobs : fanout[j].tab = t /\ fanout[j].at \in Started
      BY <2>1 DEF Expecting
    <2>2. ASSUME NEW n \in 1 .. Len(queue), n # 1,
                 Answers(queue[n]), fanout[JobOf(queue[n])].tab = t
          PROVE  Expecting(t)'
      <3>1. n - 1 \in 1 .. Len(queue') /\ queue'[n - 1] = queue[n]
        BY <1>2, <2>2
      <3>2. Answers(queue'[n - 1]) /\ fanout'[JobOf(queue'[n - 1])].tab = t
        BY <2>2, <3>1
      <3> QED BY <3>1, <3>2, Zenon DEF Expecting
    <2>3. \A n \in 1 .. Len(queue) : n = 1 => queue[n] = Head(queue)
      BY <1>1
    <2> QED BY <1>3, <2>1, <2>2, <2>3, Zenon DEF Expecting
  <1>4. ASSUME Asking(t)
        PROVE  \/ Asking(t)'
               \/ Head(queue).kind = "state" /\ fanout[JobOf(Head(queue))].tab = t
    <2>1. CASE \E j \in Jobs : fanout[j].tab = t /\ fanout[j].at = "asking"
      BY <2>1 DEF Asking
    <2>2. ASSUME NEW n \in 1 .. Len(queue), n # 1,
                 queue[n].kind = "state", fanout[JobOf(queue[n])].tab = t
          PROVE  Asking(t)'
      <3>1. n - 1 \in 1 .. Len(queue') /\ queue'[n - 1] = queue[n]
        BY <1>2, <2>2
      <3>2. queue'[n - 1].kind = "state" /\ fanout'[JobOf(queue'[n - 1])].tab = t
        BY <2>2, <3>1
      <3> QED BY <3>1, <3>2, Zenon DEF Asking
    <2>3. \A n \in 1 .. Len(queue) : n = 1 => queue[n] = Head(queue)
      BY <1>1
    <2> QED BY <1>4, <2>1, <2>2, <2>3, Zenon DEF Asking
  <1> QED BY <1>3, <1>4

\* What a card that is taken was still to be told.
LEMMA CardTaken ==
  ASSUME CsTypeOK, QueueInv, queue # <<>>, queue' = Tail(queue), UNCHANGED fanout,
         Head(queue).kind = "url", NEW t \in Tabs, fanout[JobOf(Head(queue))].tab = t
  PROVE  Expecting(t)' /\ Asking(t)'
  <1>1. queue \in Seq(Event)
    BY TypeParts
  <1>2. /\ Len(queue') = Len(queue) - 1 /\ Len(queue) \in Nat \ {0}
        /\ Head(queue) = queue[1] /\ queue[1] \in Event
        /\ \A n \in 1 .. Len(queue') : queue'[n] = queue[n + 1]
    BY <1>1, TailQueue
  <1>3. \A m \in 1 + 1 .. Len(queue) : m - 1 \in 1 .. Len(queue') /\ queue'[m - 1] = queue[m]
    BY <1>2
  <1> DEFINE j == JobOf(queue[1])
  <1>4. j \in Jobs /\ fanout[j].tab = t /\ fanout'[j] = fanout[j]
    BY <1>2, EventParts
  <1>5. 1 \in 1 .. Len(queue)
    BY <1>2
  <1>6. /\ \/ fanout[j].at = "asking"
           \/ \E m \in 1 + 1 .. Len(queue) : queue[m].kind = "state" /\ JobOf(queue[m]) = j
        /\ \/ fanout[j].at \in LiveStates
           \/ \E m \in 1 + 1 .. Len(queue) : Answers(queue[m]) /\ JobOf(queue[m]) = j
    BY <1>2, <1>5 DEF QueueInv
  <1> HIDE DEF j
  <1>7. Asking(t)'
    <2>1. CASE fanout[j].at = "asking"
      BY <1>4, <2>1 DEF Asking
    <2>2. ASSUME NEW m \in 1 + 1 .. Len(queue), queue[m].kind = "state", JobOf(queue[m]) = j
          PROVE  Asking(t)'
      <3>1. m - 1 \in 1 .. Len(queue') /\ queue'[m - 1] = queue[m]
        BY <1>3
      <3>2. queue'[m - 1].kind = "state" /\ fanout'[JobOf(queue'[m - 1])].tab = t
        BY <1>4, <2>2, <3>1
      <3> QED BY <3>1, <3>2, Zenon DEF Asking
    <2> QED BY <1>6, <2>1, <2>2
  <1>8. CASE fanout[j].at \in LiveStates
    BY <1>4, <1>7, <1>8 DEF Expecting, LiveStates, Started
  <1>9. ASSUME NEW m \in 1 + 1 .. Len(queue), Answers(queue[m]), JobOf(queue[m]) = j
        PROVE  Expecting(t)'
    <2>1. m - 1 \in 1 .. Len(queue') /\ Answers(queue'[m - 1]) /\ fanout'[JobOf(queue'[m - 1])].tab = t
      BY <1>3, <1>4, <1>9
    <2> QED BY <2>1 DEF Expecting
  <1> QED BY <1>6, <1>7, <1>8, <1>9

\* A longer queue takes nothing away from what is still to come.
LEMMA GrownKept ==
  ASSUME CsTypeOK, QueueInv,
         queue' = queue \/ \E e \in Event : queue' = Append(queue, e),
         \A j \in Jobs : fanout[j].at # "new" => fanout'[j].tab = fanout[j].tab
  PROVE  Grown
  <1>1. queue \in Seq(Event)
    BY TypeParts
  <1>2. \A n \in 1 .. Len(queue) : JobOf(queue[n]) \in Jobs /\ fanout[JobOf(queue[n])].at # "new"
    BY <1>1, EventParts DEF QueueInv
  <1>3. \A n \in 1 .. Len(queue) : n \in 1 .. Len(queue') /\ queue'[n] = queue[n]
    BY <1>1, AppendQueue
  <1> QED BY <1>2, <1>3 DEF Grown

\* A step of a job tells its tab what it was waiting for.
LEMMA JobTells ==
  ASSUME CsTypeOK, QueueInv, AskInv, NEW j \in Jobs, JobSteps(j)
  PROVE  /\ Grown /\ astray' = astray
         /\ \A o \in Jobs : fanout[o].at = "asking" =>
              \/ fanout'[o].at = "asking"
              \/ \E n \in 1 .. Len(queue') : queue'[n].kind = "state" /\ JobOf(queue'[n]) = o
         /\ \/ /\ UNCHANGED page
               /\ \A o \in Jobs : fanout[o].at \in Started =>
                    \/ fanout'[o].at \in Started
                    \/ \E n \in 1 .. Len(queue') : Answers(queue'[n]) /\ JobOf(queue'[n]) = o
            \/ /\ fanout[j].at = "posted" /\ \A o \in Jobs \ {j} : fanout'[o] = fanout[o]
               /\ page' = [page EXCEPT ![fanout[j].tab].busy = FALSE, ![fanout[j].tab].composer = TRUE]
  <1>1. fanout \in [Jobs -> Fan] /\ queue \in Seq(Event)
    BY TypeParts
  <1>2. /\ fanout'[j].tab = fanout[j].tab
        /\ \A o \in Jobs \ {j} : fanout'[o] = fanout[o]
        /\ Routed(j) \/ CallEnds(j) \/ Settle(j) => fanout'[j].at = "running"
        /\ CallAsks(j) => fanout'[j].at = "asking"
    BY <1>1, JobEffect
  <1>3. \A e \in Event : queue' = Append(queue, e) =>
          \E n \in 1 .. Len(queue') : queue'[n] = e
    <2> SUFFICES ASSUME NEW e \in Event, queue' = Append(queue, e)
                 PROVE  \E n \in 1 .. Len(queue') : queue'[n] = e
      OBVIOUS
    <2>1. queue'[Len(queue')] = e /\ Len(queue') = Len(queue) + 1 /\ Len(queue) \in Nat
      BY <1>1, AppendQueue
    <2>2. Len(queue') \in 1 .. Len(queue')
      BY <2>1
    <2> QED BY <2>1, <2>2
  <1>4. astray' = astray
    BY DEF JobSteps, Routed, Unrouted, PostFails, CallEnds, CallAsks, Settle, EndStates, Compose
  <1> DEFINE Told == queue' = queue \/ \E e \in Event : queue' = Append(queue, e)
             Asked == fanout[j].at = "asking" => \E n \in 1 .. Len(queue') : queue'[n].kind = "state" /\ JobOf(queue'[n]) = j
             Answered == fanout[j].at \in Started =>
               \/ fanout'[j].at \in Started
               \/ \E n \in 1 .. Len(queue') : Answers(queue'[n]) /\ JobOf(queue'[n]) = j
  <1>5. CASE Routed(j)
    <2>1. Told /\ Asked /\ Answered /\ UNCHANGED page
      BY <1>2, <1>5 DEF Routed, PostOpen, Started
    <2> HIDE DEF Told
    <2>2. Grown
      BY <1>2, <2>1, GrownKept DEF Told
    <2> QED BY <1>2, <1>4, <2>1, <2>2
  <1>6. CASE Unrouted(j) \/ Compose(j)
    <2> DEFINE e == [kind |-> "message", job |-> j]
    <2>1. e \in Event /\ JobOf(e) = j /\ Answers(e)
      BY EventTypes DEF JobOf, Answers
    <2>2. queue' = Append(queue, e) /\ fanout[j].at # "asking" /\ UNCHANGED page
      BY <1>6 DEF Unrouted, Compose, Publish1, PostOpen
    <2> HIDE DEF e
    <2>3. \E n \in 1 .. Len(queue') : queue'[n] = e
      BY <1>3, <2>1, <2>2
    <2>4. Told /\ Asked /\ Answered
      BY <2>1, <2>2, <2>3
    <2>5. Grown
      BY <1>2, <2>1, <2>2, GrownKept
    <2> QED BY <1>2, <1>4, <2>2, <2>4, <2>5
  <1>7. CASE PostFails(j)
    <2>1. queue' = queue /\ fanout[j].at \in {"posted", "orphan"}
      BY <1>7 DEF PostFails, PostOpen
    <2>2. Grown
      BY <1>2, <2>1, GrownKept
    <2>3. CASE fanout[j].at = "orphan"
      <3>1. UNCHANGED page
        BY <1>7, <2>3 DEF PostFails
      <3> QED BY <1>2, <1>4, <2>2, <2>3, <3>1 DEF Started
    <2>4. CASE fanout[j].at = "posted"
      <3>1. page' = [page EXCEPT ![fanout[j].tab].busy = FALSE, ![fanout[j].tab].composer = TRUE]
        BY <1>7, <2>4 DEF PostFails
      <3> QED BY <1>2, <1>4, <2>2, <2>4, <3>1
    <2> QED BY <2>1, <2>3, <2>4
  <1>8. CASE CallEnds(j)
    <2>1. Told
      BY <1>8, EventTypes DEF CallEnds, Publish1
    <2>2. fanout[j].at = "running" /\ fanout'[j].at \in Started /\ UNCHANGED page
      BY <1>2, <1>8 DEF CallEnds, Started
    <2>3. Grown
      BY <1>2, <2>1, GrownKept
    <2> QED BY <1>2, <1>4, <2>2, <2>3
  <1>9. CASE CallAsks(j)
    <2>1. <<j, fanout[j].left>> \in Consents
      <3>1. fanout[j].left \in 0 .. Tools /\ fanout[j].left > 0 /\ Tools \in Nat
        BY <1>1, <1>9 DEF Fan, CallAsks
      <3> QED BY <3>1 DEF Consents
    <2>2. Told
      BY <1>9, <2>1, EventTypes DEF CallAsks, Publish1
    <2>3. fanout[j].at = "running" /\ fanout'[j].at \in Started /\ UNCHANGED page
      BY <1>2, <1>9 DEF CallAsks, Started
    <2>4. Grown
      BY <1>2, <2>2, GrownKept
    <2> QED BY <1>2, <1>4, <2>3, <2>4
  <1>10. CASE Settle(j)
    <2>1. PICK st \in {"DONE", "DENIED", "FAILED"} :
            queue' = Append(queue, [kind |-> "state", job |-> j, state |-> st])
      BY <1>10 DEF Settle, EndStates, Publish1
    <2> DEFINE e == [kind |-> "state", job |-> j, state |-> st]
    <2>2. e \in Event /\ JobOf(e) = j /\ e.kind = "state" /\ queue' = Append(queue, e)
      BY <2>1, EventTypes DEF JobOf
    <2> HIDE DEF e
    <2>3. \E n \in 1 .. Len(queue') : queue'[n] = e
      BY <1>3, <2>2
    <2>4. fanout'[j].at \in Started /\ UNCHANGED page
      BY <1>2, <1>10 DEF Settle, EndStates, Started
    <2>5. Asked
      BY <2>2, <2>3
    <2>6. Grown
      BY <1>2, <2>2, GrownKept
    <2> QED BY <1>2, <1>4, <2>4, <2>5, <2>6
  <1> QED BY <1>5, <1>6, <1>7, <1>8, <1>9, <1>10 DEF JobSteps

\* The steps of a job keep ScreenInv.
LEMMA JobScreen ==
  ASSUME CsTypeOK, QueueInv, AskInv, ScreenInv, NEW j \in Jobs, JobSteps(j)
  PROVE  ScreenInv'
  <1> SUFFICES ASSUME NEW t \in Tabs PROVE TabInv(t)'
    BY DEF ScreenInv
  <1>1. TabInv(t) /\ page \in [Tabs -> Page] /\ fanout \in [Jobs -> Fan]
    BY TypeParts DEF ScreenInv
  <1>2. Asking(t) => Asking(t)'
    BY JobTells, StillAsking
  <1>3. Grown /\ astray' = astray
    BY JobTells
  <1>4. CASE /\ UNCHANGED page
             /\ \A o \in Jobs : fanout[o].at \in Started =>
                  \/ fanout'[o].at \in Started
                  \/ \E n \in 1 .. Len(queue') : Answers(queue'[n]) /\ JobOf(queue'[n]) = o
    <2>1. Expecting(t) => Expecting(t)'
      BY <1>3, <1>4, StillExpecting
    <2> QED BY <1>1, <1>2, <1>3, <1>4, <2>1, PageKept
  <1>5. CASE /\ fanout[j].at = "posted" /\ \A o \in Jobs \ {j} : fanout'[o] = fanout[o]
             /\ page' = [page EXCEPT ![fanout[j].tab].busy = FALSE, ![fanout[j].tab].composer = TRUE]
    <2>1. CASE t = fanout[j].tab
      <3>1. /\ page'[t].widget = page[t].widget /\ page'[t].card = page[t].card
            /\ page'[t].visible = page[t].visible
            /\ page'[t].busy = FALSE /\ page'[t].composer = TRUE
        BY <1>1, <1>5, <2>1 DEF Page
      <3> QED BY <1>1, <1>2, <1>3, <3>1 DEF TabInv
    <2>2. CASE t # fanout[j].tab
      <3>1. page'[t] = page[t]
        BY <1>1, <1>5, <2>2
      <3>2. Expecting(t) => Expecting(t)'
        BY <1>3, <1>5, <2>2, StillExpecting
      <3> QED BY <1>1, <1>2, <1>3, <3>1, <3>2, PageKept
    <2> QED BY <2>1, <2>2
  <1> QED BY <1>4, <1>5, JobTells

\* What an event does to the page of the tab that it is for.
LEMMA HandledScreen ==
  ASSUME NEW p \in Page, NEW e \in Event, p.widget # NoConsent => p.visible
  PROVE  LET q == Handled(p, e) IN
         /\ q.widget # NoConsent => q.visible
         /\ e.kind = "state" =>
              /\ q.busy \/ ~q.composer => p.busy \/ ~p.composer
              /\ q.widget # NoConsent => q.card # "AWAITING"
         /\ Answers(e) => /\ ~q.busy /\ q.composer
                          /\ q.widget = p.widget /\ q.card = p.card
  <1> DEFINE q == Handled(p, e)
  <1>1. CASE e.kind = "url"
    <2>1. q = OnUrl(p, e.consent)
      BY <1>1 DEF Handled
    <2> QED BY <1>1, <2>1 DEF OnUrl, Page, Answers
  <1>2. CASE e.kind = "state"
    <2>1. q = OnState(p, e.state)
      BY <1>2 DEF Handled
    <2>2. CASE p.widget = NoConsent
      BY <1>2, <2>1, <2>2 DEF OnState, Answers
    <2>3. CASE p.widget # NoConsent /\ e.state \in {"DONE", "DENIED"}
      <3>1. q = [Dismissed(p) EXCEPT !.composer = TRUE]
        BY <2>1, <2>3 DEF OnState
      <3>2. q.widget = NoConsent /\ q.busy = p.busy /\ q.composer = TRUE
        BY <3>1 DEF Dismissed, Page
      <3> QED BY <1>2, <3>2 DEF Answers
    <2>4. CASE p.widget # NoConsent /\ e.state \notin {"DONE", "DENIED"}
      <3>1. q = [p EXCEPT !.card = "OVER", !.clocks = @ \ {p.widget}]
        BY <2>1, <2>4 DEF OnState
      <3>2. /\ q.widget = p.widget /\ q.busy = p.busy /\ q.composer = p.composer
            /\ q.card = "OVER" /\ q.visible = p.visible
        BY <3>1 DEF Page
      <3> QED BY <1>2, <3>2 DEF Answers
    <2> QED BY <2>2, <2>3, <2>4
  <1>3. CASE e.kind \in {"message", "error"}
    <2>1. q = OnAnswer(p)
      BY <1>3 DEF Handled
    <2>2. /\ q.widget = p.widget /\ q.card = p.card /\ q.visible = p.visible
          /\ q.busy = FALSE /\ q.composer = TRUE
      BY <2>1 DEF OnAnswer, Page
    <2> QED BY <1>3, <2>2
  <1> QED BY <1>1, <1>2, <1>3, EventParts

\* An event that reaches its page keeps ScreenInv.
LEMMA DeliverScreen ==
  ASSUME CsTypeOK, QueueInv, ScreenInv, NEW i \in Streams, Deliver(i)
  PROVE  ScreenInv'
  <1> SUFFICES ASSUME NEW t \in Tabs PROVE TabInv(t)'
    BY DEF ScreenInv
  <1> DEFINE e == Head(queue)
  <1>1. TabInv(t) /\ page \in [Tabs -> Page] /\ queue \in Seq(Event)
    BY TypeParts DEF ScreenInv
  <1>2. queue # <<>> /\ queue' = Tail(queue) /\ UNCHANGED fanout
    BY DEF Deliver, FromQueue
  <1>3. /\ page' = [page EXCEPT ![stream[i].tab] = Handled(@, e)]
        /\ astray' = (astray \/ fanout[JobOf(e)].tab # stream[i].tab)
    BY DEF Deliver
  <1>4. e \in Event
    BY <1>1, <1>2, TailQueue
  <1>5. e.kind = "url" /\ fanout[JobOf(e)].tab = t => Expecting(t)' /\ Asking(t)'
    BY <1>2, CardTaken
  <1>6. /\ Expecting(t) => Expecting(t)' \/ (Answers(e) /\ fanout[JobOf(e)].tab = t)
        /\ Asking(t) => Asking(t)' \/ (e.kind = "state" /\ fanout[JobOf(e)].tab = t)
    BY <1>1, <1>2, TakenQueue
  <1>7. CASE t # stream[i].tab
    <2>1. page'[t] = page[t]
      BY <1>1, <1>3, <1>7
    <2> QED BY <1>1, <1>3, <1>6, <1>7, <2>1 DEF TabInv
  <1>8. CASE t = stream[i].tab
    <2>1. page'[t] = Handled(page[t], e) /\ page[t] \in Page
      BY <1>1, <1>3, <1>8
    <2>2. /\ page'[t].widget # NoConsent => page'[t].visible
          /\ e.kind = "state" =>
               /\ page'[t].busy \/ ~page'[t].composer => page[t].busy \/ ~page[t].composer
               /\ page'[t].widget # NoConsent => page'[t].card # "AWAITING"
          /\ Answers(e) => /\ ~page'[t].busy /\ page'[t].composer
                           /\ page'[t].widget = page[t].widget /\ page'[t].card = page[t].card
      BY <1>1, <1>4, <2>1, HandledScreen DEF TabInv
    <2>3. e.kind = "url" \/ e.kind = "state" \/ Answers(e)
      BY <1>4, EventParts DEF Answers
    <2>4. e.kind = "state" => ~Answers(e)
      BY DEF Answers
    <2>5. Answers(e) => e.kind # "state"
      BY DEF Answers
    <2> SUFFICES ASSUME ~astray'
                 PROVE  /\ page'[t].busy \/ ~page'[t].composer => Expecting(t)'
                        /\ page'[t].widget # NoConsent /\ page'[t].card = "AWAITING" => Asking(t)'
      BY <2>2 DEF TabInv
    <2>6. ~astray /\ fanout[JobOf(e)].tab = t
      BY <1>3, <1>8
    <2> HIDE DEF e
    <2>7. /\ page[t].busy \/ ~page[t].composer => Expecting(t)
          /\ page[t].widget # NoConsent /\ page[t].card = "AWAITING" => Asking(t)
      BY <1>1, <2>6 DEF TabInv
    <2>8. CASE e.kind = "url"
      BY <1>5, <2>6, <2>8
    <2>9. CASE e.kind = "state"
      BY <1>6, <2>2, <2>4, <2>7, <2>9
    <2>10. CASE Answers(e)
      BY <1>6, <2>2, <2>5, <2>7, <2>10
    <2> QED BY <2>3, <2>8, <2>9, <2>10
  <1> QED BY <1>7, <1>8

\* A step that leaves the fan-outs and the queue alone.
LEMMA Waits ==
  ASSUME NEW t \in Tabs, UNCHANGED <<fanout, queue>>
  PROVE  (Expecting(t)' <=> Expecting(t)) /\ (Asking(t)' <=> Asking(t))
  BY DEF Expecting, Asking

\* Streams that open, drop and end keep ScreenInv.
LEMMA StreamScreen ==
  ASSUME CsTypeOK, QueueInv, ScreenInv, NEW i \in Streams, StreamSteps(i)
  PROVE  ScreenInv'
  <1>1. CASE Drop(i) \/ Close(i)
    <2>1. UNCHANGED <<fanout, queue, page, astray>>
      BY <1>1 DEF Drop, Close
    <2> QED BY <2>1, Waits DEF ScreenInv, TabInv
  <1>2. CASE Reload(i)
    <2> SUFFICES ASSUME NEW t \in Tabs PROVE TabInv(t)'
      BY DEF ScreenInv
    <2>1. TabInv(t) /\ page \in [Tabs -> Page] /\ fanout \in [Jobs -> Fan]
      BY TypeParts DEF ScreenInv
    <2>2. UNCHANGED <<queue, astray>> /\ page' = [page EXCEPT ![stream[i].tab] = FreshPage]
      BY <1>2 DEF Reload
    <2>3. CASE t = stream[i].tab
      <3>1. page'[t] = FreshPage
        BY <2>1, <2>2, <2>3
      <3> QED BY <3>1 DEF TabInv, FreshPage
    <2>4. CASE t # stream[i].tab
      <3>1. \A j \in Jobs : /\ fanout'[j].tab = fanout[j].tab
                            /\ \/ fanout'[j].at = fanout[j].at
                               \/ fanout[j].at = "posted" /\ fanout[j].tab # t
        BY <1>2, <2>1, <2>4, ReloadEffect
      <3>2. Grown
        BY <2>2, <3>1, GrownKept
      <3>3. Expecting(t) => Expecting(t)'
        BY <3>1, <3>2, StillExpecting
      <3>4. Asking(t) => Asking(t)'
        BY <3>1, <3>2, StillAsking
      <3>5. page'[t] = page[t]
        BY <2>1, <2>2, <2>4
      <3> QED BY <2>1, <2>2, <3>3, <3>4, <3>5, PageKept
    <2> QED BY <2>3, <2>4
  <1>3. CASE Lose(i)
    BY <1>3 DEF Lose, ScreenInv, TabInv
  <1>4. CASE Deliver(i)
    BY <1>4, DeliverScreen
  <1> QED BY <1>1, <1>2, <1>3, <1>4 DEF StreamSteps

\* A new job makes its tab wait, and takes nothing from any.
LEMMA NewJobWaits ==
  ASSUME CsTypeOK, QueueInv, NEW t \in Tabs, NEW j \in Jobs,
         Posted(t, j) \/ Report(t, j), UNCHANGED queue
  PROVE  /\ \A o \in Tabs : (Expecting(o) => Expecting(o)') /\ (Asking(o) => Asking(o)')
         /\ Expecting(t)'
  <1>1. fanout \in [Jobs -> Fan]
    BY TypeParts
  <1>2. /\ fanout[j].at = "new" /\ fanout'[j].tab = t /\ fanout'[j].at \in {"posted", "running"}
        /\ \A o \in Jobs \ {j} : fanout'[o] = fanout[o]
    BY <1>1, NewJob
  <1>3. fanout'[j].at \in Started /\ fanout[j].at \notin Started
    BY <1>2 DEF Started
  <1>4. Grown
    BY <1>2, GrownKept
  <1>5. \A o \in Tabs : Expecting(o) => Expecting(o)'
    BY <1>2, <1>3, <1>4, StillExpecting
  <1>6. \A o \in Tabs : Asking(o) => Asking(o)'
    BY <1>2, <1>4, StillAsking
  <1>7. Expecting(t)'
    BY <1>2, <1>3 DEF Expecting
  <1> QED BY <1>5, <1>6, <1>7

\* The steps of the user and of the page keep ScreenInv.
LEMMA UserScreen ==
  ASSUME CsTypeOK, QueueInv, ScreenInv, NEW u \in Tabs, UserSteps(u)
  PROVE  ScreenInv'
  <1> SUFFICES ASSUME NEW t \in Tabs PROVE TabInv(t)'
    BY DEF ScreenInv
  <1>1. TabInv(t) /\ page \in [Tabs -> Page] /\ page[t] \in Page
    BY TypeParts DEF ScreenInv
  <1>2. CASE UNCHANGED <<fanout, queue, page, astray>>
    BY <1>1, <1>2, Waits DEF TabInv
  <1>3. ASSUME NEW q, page' = [page EXCEPT ![u] = q], t # u, UNCHANGED astray,
               Expecting(t) => Expecting(t)', Asking(t) => Asking(t)'
        PROVE  TabInv(t)'
    BY <1>1, <1>3, PageKept
  <1>4. CASE \/ Fade(u) \/ Approve(u) \/ Deny(u) \/ Denied(u) \/ Dismiss(u)
             \/ \E c \in Consents : RunOut(u, c)
    <2>1. UNCHANGED <<fanout, queue, astray>>
      BY <1>4 DEF Fade, Approve, Deny, Denied, Dismiss, RunOut
    <2>2. Expecting(t)' <=> Expecting(t)
      BY <2>1, Waits
    <2>3. Asking(t)' <=> Asking(t)
      BY <2>1, Waits
    <2>4. CASE t # u
      <3>1. page'[t] = page[t]
        BY <1>1, <1>4, <2>4 DEF Fade, Approve, Deny, Denied, Dismiss, RunOut
      <3> QED BY <1>1, <2>1, <2>2, <2>3, <3>1, PageKept
    <2>5. CASE t = u
      <3>1. /\ page'[t].widget # NoConsent => page'[t].visible
            /\ page'[t].busy \/ ~page'[t].composer => page[t].busy \/ ~page[t].composer
            /\ page'[t].widget # NoConsent /\ page'[t].card = "AWAITING" =>
                 page[t].widget # NoConsent /\ page[t].card = "AWAITING"
        <4>1. CASE Fade(u)
          <5>1. page'[t] = FadeOver(page[t])
            BY <1>1, <2>5, <4>1 DEF Fade
          <5> QED BY <1>1, <5>1 DEF FadeOver, Page, TabInv
        <4>2. CASE Approve(u)
          <5>1. /\ page'[t].widget = page[t].widget /\ page'[t].visible = page[t].visible
                /\ page'[t].busy = page[t].busy /\ page'[t].composer = page[t].composer
                /\ page'[t].card = "VERIFYING"
            BY <1>1, <2>5, <4>2 DEF Approve, Page
          <5> QED BY <1>1, <5>1 DEF TabInv
        <4>3. CASE Deny(u)
          <5>1. /\ page'[t].widget = page[t].widget /\ page'[t].visible = page[t].visible
                /\ page'[t].busy = page[t].busy /\ page'[t].composer = page[t].composer
                /\ page'[t].card = page[t].card
            BY <1>1, <2>5, <4>3 DEF Deny, Page
          <5> QED BY <1>1, <5>1 DEF TabInv
        <4>4. CASE Denied(u)
          <5>1. CASE page[t].widget = NoConsent
            <6>1. page'[t] = [page[t] EXCEPT !.denying = FALSE]
              BY <1>1, <2>5, <4>4, <5>1 DEF Denied
            <6> QED BY <1>1, <5>1, <6>1 DEF Page
          <5>2. CASE page[t].widget # NoConsent
            <6>1. page'[t] = [Dismissed(page[t]) EXCEPT !.denying = FALSE, !.composer = TRUE]
              BY <1>1, <2>5, <4>4, <5>2 DEF Denied
            <6>2. page'[t].widget = NoConsent /\ page'[t].busy = page[t].busy /\ page'[t].composer = TRUE
              BY <1>1, <6>1 DEF Dismissed, Page
            <6> QED BY <6>2
          <5> QED BY <5>1, <5>2
        <4>5. CASE Dismiss(u)
          <5>1. page'[t] = [Dismissed(page[t]) EXCEPT !.composer = TRUE]
            BY <1>1, <2>5, <4>5 DEF Dismiss
          <5>2. page'[t].widget = NoConsent /\ page'[t].busy = page[t].busy /\ page'[t].composer = TRUE
            BY <1>1, <5>1 DEF Dismissed, Page
          <5> QED BY <5>2
        <4>6. CASE \E c \in Consents : RunOut(u, c)
          <5>1. /\ page'[t].widget = page[t].widget /\ page'[t].visible = page[t].visible
                /\ page'[t].busy = page[t].busy /\ page'[t].composer = page[t].composer
                /\ page'[t].card = "OVER"
            BY <1>1, <2>5, <4>6 DEF RunOut, Page
          <5> QED BY <1>1, <5>1 DEF TabInv
        <4> QED BY <1>4, <4>1, <4>2, <4>3, <4>4, <4>5, <4>6
      <3> QED BY <1>1, <2>1, <2>2, <2>3, <3>1 DEF TabInv
    <2> QED BY <2>4, <2>5
  <1>5. ASSUME NEW j \in Jobs, Submit(u, j) \/ Report(u, j) \/ RetryWidget(u, j)
        PROVE  TabInv(t)'
    <2>1. UNCHANGED <<queue, astray>>
      BY <1>5 DEF Submit, Report, RetryWidget
    <2>2. CASE Posted(u, j) \/ Report(u, j)
      <3>1. (Expecting(t) => Expecting(t)') /\ (Asking(t) => Asking(t)') /\ Expecting(u)'
        BY <2>1, <2>2, NewJobWaits
      <3>2. CASE t # u
        <4>1. page'[t] = page[t]
          BY <1>1, <1>5, <3>2 DEF Submit, Report, RetryWidget
        <4> QED BY <1>1, <2>1, <3>1, <4>1, PageKept
      <3>3. CASE t = u
        <4>1. /\ page'[t].widget # NoConsent =>
                   /\ page'[t].widget = page[t].widget /\ page'[t].card = page[t].card
                   /\ page'[t].visible = page[t].visible
          <5>1. CASE UNCHANGED page
            BY <5>1
          <5>2. CASE page' = [page EXCEPT ![u] = Sending(@)]
            <6>1. page'[t] = Sending(page[t])
              BY <1>1, <3>3, <5>2
            <6> QED BY <1>1, <6>1 DEF Sending, Page
          <5>3. CASE page' = [page EXCEPT ![u] = Sending(Dismissed(@))]
            <6>1. page'[t] = Sending(Dismissed(page[t]))
              BY <1>1, <3>3, <5>3
            <6>2. page'[t].widget = NoConsent
              BY <1>1, <6>1 DEF Sending, Dismissed, Page
            <6> QED BY <6>2
          <5>4. CASE page' = [page EXCEPT ![u] = Dismissed(@)]
            <6>1. page'[t] = Dismissed(page[t])
              BY <1>1, <3>3, <5>4
            <6>2. page'[t].widget = NoConsent
              BY <1>1, <6>1 DEF Dismissed, Page
            <6> QED BY <6>2
          <5> QED BY <1>5, <5>1, <5>2, <5>3, <5>4 DEF Submit, Report, RetryWidget
        <4> QED BY <1>1, <2>1, <3>1, <3>3, <4>1 DEF TabInv
      <3> QED BY <3>2, <3>3
    <2>3. CASE UNCHANGED fanout /\ page' = [page EXCEPT ![u] = Dismissed(@)]
      <3>1. (Expecting(t)' <=> Expecting(t)) /\ (Asking(t)' <=> Asking(t))
        BY <2>1, <2>3, Waits
      <3>2. CASE t # u
        <4>1. page'[t] = page[t]
          BY <1>1, <2>3, <3>2
        <4> QED BY <1>1, <2>1, <3>1, <4>1, PageKept
      <3>3. CASE t = u
        <4>1. page'[t] = Dismissed(page[t])
          BY <1>1, <2>3, <3>3
        <4>2. /\ page'[t].widget = NoConsent /\ page'[t].busy = page[t].busy
              /\ page'[t].composer = page[t].composer
          BY <1>1, <4>1 DEF Dismissed, Page
        <4> QED BY <1>1, <2>1, <3>1, <4>2 DEF TabInv
      <3> QED BY <3>2, <3>3
    <2> QED BY <1>5, <2>2, <2>3 DEF Submit, RetryWidget
  <1>6. CASE Connect(u)
    BY <1>2, <1>6 DEF Connect
  <1> QED BY <1>4, <1>5, <1>6 DEF UserSteps

\* Every step keeps ScreenInv.
LEMMA ScreenStep == CsTypeOK /\ AskInv /\ QueueInv /\ ScreenInv /\ [CsNext]_csVars => ScreenInv'
  <1> SUFFICES ASSUME CsTypeOK, AskInv, QueueInv, ScreenInv, [CsNext]_csVars PROVE ScreenInv'
    OBVIOUS
  <1>1. CASE UNCHANGED csVars
    BY <1>1, Waits DEF csVars, ScreenInv, TabInv
  <1> QED BY <1>1, JobScreen, StreamScreen, UserScreen DEF CsNext, JobSteps, StreamSteps, UserSteps

-----------------------------------------------------------------------------
(* The theorems.                                                             *)

\* Types, and all that follows, are kept by every step of the browser, the
\* fan-outs and the streams.
THEOREM CsInductive == CsSpec => []CsInv
  <1>1. CsInit => CsInv
    BY CsInitInv
  <1>2. CsInv /\ [CsNext]_csVars => CsInv'
    BY CsTypeStep, AskStep, QueueStep, ScreenStep DEF CsInv
  <1> QED BY <1>1, <1>2, PTL DEF CsSpec

\* The card the page waits for is visible; when everything is answered and no
\* event went astray, no tab is locked or asks for a consent that is over
\* (client/app.js).
THEOREM ScreenStaysUsable == CsSpec => []ScreenUsable
  <1>1. CsInv => ScreenUsable
    <2> SUFFICES ASSUME CsInv, NEW t \in Tabs
                 PROVE  /\ page[t].widget # NoConsent => page[t].visible
                        /\ Quiet /\ ~astray =>
                             /\ page[t].composer /\ ~page[t].busy
                             /\ page[t].widget # NoConsent => page[t].card # "AWAITING"
      BY DEF ScreenUsable
    <2>1. TabInv(t)
      BY DEF CsInv, ScreenInv
    <2>2. Quiet => ~Expecting(t) /\ ~Asking(t)
      BY DEF Quiet, Expecting, Asking, Started
    <2> QED BY <2>1, <2>2 DEF TabInv
  <1> QED BY <1>1, CsInductive, PTL

=============================================================================
