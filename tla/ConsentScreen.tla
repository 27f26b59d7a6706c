--------------------------- MODULE ConsentScreen ---------------------------
(***************************************************************************)
(* What a user sees of a session: the queue of events the fan-outs publish *)
(* to (orchestrator/events/sse.py), the streams that hand them to browser  *)
(* tabs (sse_router.py), and the page with its one consent card            *)
(* (client/app.js).  A stream that ends is to cancel what the session      *)
(* awaits (orchestrator/main.py), but its task is cancelled by then.       *)
(*                                                                         *)
(* A job is one fan-out: of a chat, or of a decision in the reports view.  *)
(* It asks for its consents one after the other; two jobs run side by      *)
(* side.  Events without effect on the page's control are left out, the    *)
(* session_ready of a new stream among them; what the identity server      *)
(* decided is known when the agent's wait returns.                         *)
(***************************************************************************)
EXTENDS Integers, Sequences, FiniteSets

CONSTANTS
  Tabs,        \* tabs of the browser, which share the cookie
  Jobs,
  Tools,       \* bound of the tool calls of a job
  MaxStreams,  \* bound of the streams opened in all
  NoConsent

ASSUME ConsentScreenAssumption ==
  /\ NoConsent \notin Jobs \X (1 .. Tools)
  /\ {Tools, MaxStreams} \subseteq Nat \ {0}

Consents == Jobs \X (1 .. Tools)
Streams == 1 .. MaxStreams

VARIABLES
  fanout,     \* per job: where it is, the calls left, the tab it came from
  opened,     \* awaited consents whose page at the identity server was opened
  stopTold,   \* awaited consents whose agent was told to stop
  shownBy,    \* of an awaited consent, the stream that took its card, or 0
  declined,   \* awaited consents that the page said will not run
  queue,      \* session.sse_queue
  stream,     \* GET /events: whose it is, and how far
  page,       \* the variables of client/app.js, per tab
  astray      \* history: an event was taken for no page, or another tab's

awaited == <<opened, stopTold, shownBy, declined>>
csVars == <<fanout, awaited, queue, stream, page, astray>>

Event == [kind : {"message", "error"}, job : Jobs]
  \cup [kind : {"url"}, consent : Consents]
  \cup [kind : {"state"}, job : Jobs, state : {"DONE", "DENIED", "FAILED"}]  \* EXPIRED or ERROR

Cards == {"AWAITING", "VERIFYING", "OVER"}  \* OVER: expired, or an error

FreshPage ==
  [widget |-> NoConsent, card |-> "AWAITING", visible |-> FALSE, fading |-> FALSE, clocks |-> {},
   busy |-> FALSE, composer |-> TRUE, denying |-> FALSE, said |-> FALSE]

Page ==
  [widget : Consents \cup {NoConsent},   \* cibaState
   card : Cards,                         \* its widgetState
   visible : BOOLEAN, fading : BOOLEAN,  \* the card, and dismissWidget's timer
   clocks : SUBSET Consents,             \* countdowns that run
   busy : BOOLEAN,                       \* requestInFlight
   composer : BOOLEAN,                   \* the composer is enabled
   denying : BOOLEAN,                    \* onDenyClick waits for its answer
   said : BOOLEAN]                       \* pendingUserMessage

CsTypeOK ==
  /\ fanout \in [Jobs -> [at : {"new", "posted", "orphan", "running", "asking", "done"},
                          left : 0 .. Tools, tab : Tabs]]
  /\ opened \cup stopTold \cup declined \subseteq Consents
  /\ shownBy \in [Consents -> 0 .. MaxStreams]
  /\ queue \in Seq(Event)
  /\ stream \in [Streams -> [at : {"none", "open", "gone", "closed"}, tab : Tabs]]
  /\ page \in [Tabs -> Page]
  /\ astray \in BOOLEAN

\* Every tab has loaded the page; none is connected yet.
CsInit ==
  /\ \E t \in Tabs :
       /\ fanout = [j \in Jobs |-> [at |-> "new", left |-> 0, tab |-> t]]
       /\ stream = [i \in Streams |-> [at |-> "none", tab |-> t]]
  /\ opened = {} /\ stopTold = {} /\ declined = {}
  /\ shownBy = [c \in Consents |-> 0]
  /\ queue = <<>> /\ astray = FALSE
  /\ page = [t \in Tabs |-> FreshPage]

\* session.pending_ciba: by auth_req_id
Pending == {c \in Consents : fanout[c[1]].at = "asking" /\ fanout[c[1]].left = c[2]}

Publish1(e) == queue' = Append(queue, e)

-----------------------------------------------------------------------------
(* The fan-outs.                                                             *)

Step(j, where, left) == fanout' = [fanout EXCEPT ![j].at = where, ![j].left = left]

PostOpen(j) == fanout[j].at \in {"posted", "orphan"}

\* POST /api/chat: routed to tools, or answered at once, or refused.
Routed(j) ==
  /\ PostOpen(j)
  /\ \E n \in 1 .. Tools : Step(j, "running", n)
  /\ UNCHANGED <<awaited, queue, stream, page, astray>>

Unrouted(j) ==
  /\ PostOpen(j)
  /\ Step(j, "done", 0)
  /\ Publish1([kind |-> "message", job |-> j])
  /\ UNCHANGED <<awaited, stream, page, astray>>

\* sendMessage on a response that is not ok: the page that sent it is free
\* again, unless it was loaded anew.
PostFails(j) ==
  /\ PostOpen(j)
  /\ Step(j, "done", 0)
  /\ page' = IF fanout[j].at = "orphan" THEN page
             ELSE [page EXCEPT ![fanout[j].tab].busy = FALSE, ![fanout[j].tab].composer = TRUE]
  /\ UNCHANGED <<awaited, queue, stream, astray>>

\* _run_serial_fan_out: the next tool answers at once, or fails, ...
CallEnds(j) ==
  /\ fanout[j].at = "running" /\ fanout[j].left > 0
  /\ Step(j, "running", fanout[j].left - 1)
  /\ \/ UNCHANGED queue
     \/ Publish1([kind |-> "error", job |-> j])
  /\ UNCHANGED <<awaited, stream, page, astray>>

\* ... or asks for consent: the card is published, the consent pending.
CallAsks(j) ==
  /\ fanout[j].at = "running" /\ fanout[j].left > 0
  /\ Step(j, "asking", fanout[j].left)
  /\ Publish1([kind |-> "url", consent |-> <<j, fanout[j].left>>])
  /\ UNCHANGED <<awaited, stream, page, astray>>

\* _state_from_error_id, and DONE: only a page that was opened can be decided on.
EndStates(c) == {"FAILED"} \cup IF c \in opened THEN {"DONE", "DENIED"} ELSE {}

\* await_completion returns, and the consent is no longer pending: approved or
\* refused on the page that the user opened, or expired, or cancelled, or failed.
Settle(j) ==
  LET c == <<j, fanout[j].left>> IN
  /\ fanout[j].at = "asking"
  /\ \E s \in EndStates(c) : Publish1([kind |-> "state", job |-> j, state |-> s])
  /\ Step(j, "running", fanout[j].left - 1)
  /\ opened' = opened \ {c} /\ stopTold' = stopTold \ {c} /\ declined' = declined \ {c}
  /\ shownBy' = [shownBy EXCEPT ![c] = 0]
  /\ UNCHANGED <<stream, page, astray>>

\* The answer is composed and published, whatever the calls came to.
Compose(j) ==
  /\ fanout[j].at = "running" /\ fanout[j].left = 0
  /\ Step(j, "done", 0)
  /\ Publish1([kind |-> "message", job |-> j])
  /\ UNCHANGED <<awaited, stream, page, astray>>

-----------------------------------------------------------------------------
(* Streams.                                                                  *)

\* GET /events/{session_id}, by connectSse or by the browser's own retry.
Connect(t) ==
  \E i \in Streams :
    /\ stream[i].at = "none" /\ \A h \in 1 .. i - 1 : stream[h].at # "none"
    /\ \A h \in Streams : ~(stream[h].at = "open" /\ stream[h].tab = t)
    /\ stream' = [stream EXCEPT ![i].at = "open", ![i].tab = t]
    /\ UNCHANGED <<fanout, awaited, queue, page, astray>>

\* The connection drops; the server has not noticed.
Drop(i) ==
  /\ stream[i].at = "open"
  /\ stream' = [stream EXCEPT ![i].at = "gone"]
  /\ UNCHANGED <<fanout, awaited, queue, page, astray>>

\* The user loads a connected page anew: nothing of the old one is left.
Reload(i) ==
  LET t == stream[i].tab IN
  /\ stream[i].at = "open"
  /\ page' = [page EXCEPT ![t] = FreshPage]
  /\ stream' = [stream EXCEPT ![i].at = "gone"]
  /\ fanout' = [j \in Jobs |->
       IF fanout[j].at = "posted" /\ fanout[j].tab = t THEN [fanout[j] EXCEPT !.at = "orphan"] ELSE fanout[j]]
  /\ UNCHANGED <<awaited, queue, astray>>

\* What _cancel_pending_ciba_for_session finds when a stream ends: all that the
\* session awaits, also what another tab shows.
Abandoned == Pending

\* External (starlette, anyio): of the calls S that a loop makes one after the
\* other in a task that has been cancelled, those that are sent.  The first await
\* raises CancelledError once more, which no except Exception catches.
SentWhenCancelled(S) == {}

\* The server notices, and cancels the task that waits in the stream's generator;
\* the hook in its finally block sets out to tell the agents.
Close(i) ==
  /\ stream[i].at = "gone"
  /\ stream' = [stream EXCEPT ![i].at = "closed"]
  /\ stopTold' = stopTold \cup SentWhenCancelled(Abandoned)
  /\ UNCHANGED <<fanout, opened, shownBy, declined, queue, page, astray>>

\* The stream i takes the event e from the queue.
FromQueue(i, e) ==
  /\ stream[i].at \in {"open", "gone"} /\ queue # <<>>
  /\ e = Head(queue) /\ queue' = Tail(queue)
  /\ shownBy' = IF e.kind = "url" /\ e.consent \in Pending THEN [shownBy EXCEPT ![e.consent] = i] ELSE shownBy
  /\ UNCHANGED <<fanout, opened, stopTold, declined, stream>>

\* An event that a stream takes whose browser is gone is lost.
Lose(i) ==
  /\ stream[i].at = "gone" /\ queue # <<>>
  /\ FromQueue(i, Head(queue))
  /\ astray' = TRUE
  /\ UNCHANGED page

-----------------------------------------------------------------------------
(* The page's event handlers.  A page p is a record; each returns the next.  *)

\* dismissWidget: forgotten at once, hidden when the animation is over.
Dismissed(p) ==
  [p EXCEPT !.widget = NoConsent, !.fading = TRUE, !.clocks = @ \ {p.widget}]

\* onCibaUrlEvent, renderWidget: the card of a newer consent takes the place.
\* Only the newer one's countdown can be stopped from then on.
OnUrl(p, c) ==
  [p EXCEPT !.widget = c, !.card = "AWAITING", !.visible = TRUE, !.composer = FALSE, !.clocks = @ \cup {c}]

\* onCibaStateChangeEvent: of whichever job, it is applied to the card shown.
OnState(p, s) ==
  IF p.widget = NoConsent THEN p
  ELSE IF s \in {"DONE", "DENIED"} THEN [Dismissed(p) EXCEPT !.composer = TRUE]
  ELSE [p EXCEPT !.card = "OVER", !.clocks = @ \ {p.widget}]

\* onChatMessageEvent, onSseErrorEvent: of whichever job.
OnAnswer(p) == [p EXCEPT !.busy = FALSE, !.composer = TRUE]

\* handleSseEvent
Handled(p, e) ==
  CASE e.kind = "url" -> OnUrl(p, e.consent)
    [] e.kind = "state" -> OnState(p, e.state)
    [] OTHER -> OnAnswer(p)

JobOf(e) == IF e.kind = "url" THEN e.consent[1] ELSE e.job

\* The stream hands an event to its tab.
Deliver(i) ==
  LET t == stream[i].tab  e == Head(queue) IN
  /\ stream[i].at = "open" /\ queue # <<>>
  /\ FromQueue(i, e)
  /\ page' = [page EXCEPT ![t] = Handled(@, e)]
  /\ astray' = (astray \/ fanout[JobOf(e)].tab # t)

\* Mutant of FadeOver: the animation's end hides whatever is shown by then.
FadeOverBlind(p) == [p EXCEPT !.fading = FALSE, !.visible = FALSE]

\* The timer of dismissWidget: a card that was rendered meanwhile stays.
FadeOver(p) == [p EXCEPT !.fading = FALSE, !.visible = @ /\ p.widget # NoConsent]

Fade(t) ==
  /\ page[t].fading
  /\ page' = [page EXCEPT ![t] = FadeOver(@)]
  /\ UNCHANGED <<fanout, awaited, queue, stream, astray>>

\* The countdown of a consent, also of one whose card was replaced, runs out:
\* an unanswered card expires, whichever it is of.
RunOut(t, c) ==
  /\ c \in page[t].clocks /\ page[t].widget # NoConsent
  /\ page[t].card = "AWAITING"
  /\ page' = [page EXCEPT ![t].card = "OVER", ![t].clocks = @ \ {page[t].widget}]
  /\ UNCHANGED <<fanout, awaited, queue, stream, astray>>

-----------------------------------------------------------------------------
(* What the user does.                                                       *)

Sending(p) == [p EXCEPT !.busy = TRUE, !.composer = FALSE, !.said = TRUE]

Posted(t, j) ==
  /\ fanout[j].at = "new"
  /\ fanout' = [fanout EXCEPT ![j] = [at |-> "posted", left |-> 0, tab |-> t]]

\* onChatSubmit, sendMessage: while a request is in flight nothing is sent.
Submit(t, j) ==
  /\ page[t].composer /\ ~page[t].busy
  /\ Posted(t, j)
  /\ page' = [page EXCEPT ![t] = Sending(@)]
  /\ UNCHANGED <<awaited, queue, stream, astray>>

\* _submitReject, and the reports router: a fan-out of one call, of which the
\* composer knows nothing.
Report(t, j) ==
  /\ fanout[j].at = "new"
  /\ fanout' = [fanout EXCEPT ![j] = [at |-> "running", left |-> 1, tab |-> t]]
  /\ UNCHANGED <<awaited, queue, stream, page, astray>>

\* onApproveClick: opens the identity server's page.  The buttons of the
\* reports view call it too, whatever the card shows: the function that was
\* written for them has the same name and is replaced.
Approve(t) ==
  /\ page[t].widget # NoConsent
  /\ opened' = opened \cup ({page[t].widget} \cap Pending)
  /\ page' = [page EXCEPT ![t].card = "VERIFYING", ![t].clocks = @ \ {page[t].widget}]
  /\ UNCHANGED <<fanout, stopTold, shownBy, declined, queue, stream, astray>>

\* cancelCiba: the card has the id of the request, never that of the consent.
CancelId(c) == c[1]

\* POST /api/ciba/cancel finds a consent by auth_req_id, or does nothing.
CancelRequest(id) == stopTold' = stopTold \cup {c \in Pending : c = id}

\* onDenyClick, onCancelClick
Deny(t) ==
  /\ page[t].widget # NoConsent /\ page[t].card \in {"AWAITING", "VERIFYING"}
  /\ ~page[t].denying
  /\ CancelRequest(CancelId(page[t].widget))
  /\ page' = [page EXCEPT ![t].denying = TRUE]
  /\ UNCHANGED <<fanout, opened, shownBy, declined, queue, stream, astray>>

\* The answer, which nobody reads, or the failure of the call: the card shown
\* by then is gone, and its agent "will not run for this request".
Denied(t) ==
  LET c == page[t].widget IN
  /\ page[t].denying
  /\ page' = [page EXCEPT ![t] =
       IF c = NoConsent THEN [@ EXCEPT !.denying = FALSE]
       ELSE [Dismissed(@) EXCEPT !.denying = FALSE, !.composer = TRUE]]
  /\ declined' = declined \cup ({c} \cap Pending)
  /\ UNCHANGED <<fanout, opened, stopTold, shownBy, queue, stream, astray>>

Over(t) == page[t].widget # NoConsent /\ page[t].card = "OVER"

\* onWidgetDismiss
Dismiss(t) ==
  /\ Over(t)
  /\ page' = [page EXCEPT ![t] = [Dismissed(@) EXCEPT !.composer = TRUE]]
  /\ UNCHANGED <<fanout, awaited, queue, stream, astray>>

\* onWidgetRetry: sends the last message again, if there is one and none is in
\* flight.
RetryWidget(t, j) ==
  /\ Over(t)
  /\ IF page[t].said /\ ~page[t].busy
     THEN Posted(t, j) /\ page' = [page EXCEPT ![t] = Sending(Dismissed(@))]
     ELSE page' = [page EXCEPT ![t] = Dismissed(@)] /\ UNCHANGED fanout
  /\ UNCHANGED <<awaited, queue, stream, astray>>

CsNext ==
  \/ \E j \in Jobs : \/ Routed(j) \/ Unrouted(j) \/ PostFails(j)
                     \/ CallEnds(j) \/ CallAsks(j) \/ Settle(j) \/ Compose(j)
  \/ \E i \in Streams : Drop(i) \/ Reload(i) \/ Close(i) \/ Lose(i) \/ Deliver(i)
  \/ \E t \in Tabs : \/ Connect(t) \/ Fade(t)
                     \/ Approve(t) \/ Deny(t) \/ Denied(t) \/ Dismiss(t)
  \/ \E t \in Tabs, c \in Consents : RunOut(t, c)
  \/ \E t \in Tabs, j \in Jobs : Submit(t, j) \/ Report(t, j) \/ RetryWidget(t, j)

CsSpec == CsInit /\ [][CsNext]_csVars

-----------------------------------------------------------------------------
(* Properties.                                                               *)

Quiet == queue = <<>> /\ \A j \in Jobs : fanout[j].at \in {"new", "done"}

\* However events, clicks, countdowns and animations of two fan-outs interleave:
\* the card that the page waits for is visible, and once everything is answered
\* and no event went astray, no tab is locked, or asks for a consent that is over.
ScreenUsable ==
  \A t \in Tabs :
    /\ page[t].widget # NoConsent => page[t].visible
    /\ Quiet /\ ~astray =>
         /\ page[t].composer /\ ~page[t].busy
         /\ page[t].widget # NoConsent => page[t].card # "AWAITING"

\* "On SSE disconnect, cancel any in-flight CIBA flows for that session", and
\* "async hooks (e.g. A2A cancel fan-out) can complete": once a stream has ended,
\* the agent of every consent that it took, and that is still awaited, was told
\* to stop.
UnwatchedCancelled ==
  \A c \in Pending : shownBy[c] # 0 /\ stream[shownBy[c]].at = "closed" => c \in stopTold

\* "Declined - the agent will not run for this request": a consent that the
\* user declined while it was awaited comes to no token and no call.
DeclinedDoesNotRun ==
  [][\A c \in declined : queue' # Append(queue, [kind |-> "state", job |-> c[1], state |-> "DONE"])]_csVars

=============================================================================
