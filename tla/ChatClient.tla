----------------------------- MODULE ChatClient -----------------------------
(***************************************************************************)
(* The customer's page (frontend/app.js) and the endpoints it talks to     *)
(* (app/main, app/auth): sending a message, opening a ticket of the        *)
(* sidebar, starting over, reloading, and answering the stage 2 questions. *)
(*                                                                         *)
(* The page runs one continuation at a time, and gives up the thread where *)
(* it awaits `fetch`.  So a request is three actions: the page posts it,   *)
(* the server serves it, the page goes on with what came back.  What the   *)
(* user does comes in between, unless the user is patient.                 *)
(***************************************************************************)
EXTENDS Integers, Sequences, FiniteSets

CONSTANTS
  Tickets,   \* ticket ids the server can give
  Calls,     \* requests of the page that can be under way at the same time
  Nowhere,   \* the string "NONE", which stands for no ticket in an answer
  ListSize,  \* how many tickets the sidebar is loaded with
  MaxSends, MaxClicks, MaxEvents,  \* bounds
  Null

ASSUME NamesAssumption  == {Nowhere, Null} \cap Tickets = {} /\ Nowhere # Null
ASSUME CallsAssumption  == IsFiniteSet(Calls)
ASSUME BoundsAssumption == {ListSize, MaxSends, MaxClicks, MaxEvents} \subseteq Nat

VARIABLES
  patient,  \* TRUE: the user waits until the page has finished
  page,     \* current ticket, header, typing indicators, disabled send button
  area,     \* what the chat area shows
  listed,   \* the tickets of the sidebar
  listing,  \* loadTicketList, which runs once when the page has loaded
  token,    \* session_token of the local storage
  calls,    \* the requests under way, with the locals of who awaits them
  status,   \* server: status of each ticket, "absent" without a row
  opened,   \* server: the tickets in the order of created_at
  landed,   \* per message, the ticket of each handle_chat that took it up
  spent     \* how much of the bounds is used

server == <<status, opened, landed>>
vars   == <<patient, page, area, listed, listing, token, calls, server, spent>>

-----------------------------------------------------------------------------
(* The page and what it shows.                                             *)

Statuses == {"open", "pending_confirmation", "awaiting_timeline",
             "escalated", "resolved", "auto_closed"}
Messages == 1 .. MaxSends
Ids      == Tickets \cup {Nowhere}
Tokens   == {"none", "valid", "expired"}

\* A message over the length limit, a token that runs out, a step of a job, a
\* lost request or a call of the server that raises.
Events == {"long", "expiry", "job", "fault"}

\* What the header says of the ticket it shows; Null is the header of a new one.
Headers == [of : Ids, shows : Statuses \cup {"error"}]

ASSUME HeadersAssumption == Null \notin Headers

Pages == [current : Ids \cup {Null},
          header  : Headers \cup {Null},
          typing  : Nat,
          busy    : BOOLEAN]

FreshPage == [current |-> Null, header |-> Null, typing |-> 0, busy |-> FALSE]

\* `msg` is the message an item answers, 0 for a ticket's history.  A "waiting"
\* item is a stage 2 prompt whose buttons are disabled.
Items == [kind : {"question", "answer", "error", "history",
                  "prompt", "timeline", "waiting"},
          of   : Ids \cup {Null},
          msg  : Messages \cup {0}]

Item(kind, of, msg) == [kind |-> kind, of |-> of, msg |-> msg]

CallStates == [what : {"chat", "load", "resolution", "timeline"},
               pc   : {"idle", "token", "posted", "refused", "retoken",
                       "reposted", "answered", "failed", "orphan"},
               msg  : Messages \cup {0},
               tid  : Ids \cup {Null},
               tok  : Tokens,
               says : Statuses \cup {"yes", "no", "error", Null}]

IdleCall == [what |-> "chat", pc |-> "idle", msg |-> 0, tid |-> Null,
             tok |-> "none", says |-> Null]

\* "refused" is the sidebar that could not be loaded.
ListStates == [pc   : {"idle", "token", "asked", "answered", "refused"},
               rows : SUBSET Tickets]

IdleList == [pc |-> "idle", rows |-> {}]

FreshList == [IdleList EXCEPT !.pc = IF token = "none" THEN "token" ELSE "asked"]

TypeOK ==
  /\ patient \in BOOLEAN
  /\ page    \in Pages
  /\ area    \subseteq Items
  /\ listed  \subseteq Ids
  /\ listing \in ListStates
  /\ token   \in Tokens
  /\ calls   \in [Calls -> CallStates]
  /\ status  \in [Tickets -> Statuses \cup {"absent"}]
  /\ opened  \in Seq(Tickets)
  /\ {opened[n] : n \in DOMAIN opened} = {k \in Tickets : status[k] # "absent"}
  /\ \A m, n \in DOMAIN opened : opened[m] = opened[n] => m = n
  /\ landed  \in [Messages -> Seq(Tickets)]
  /\ spent   \in [sends : 0 .. MaxSends, clicks : 0 .. MaxClicks,
                  events : SUBSET Events]

\* A page that has just been opened, by a user with or without tickets.
Init ==
  /\ patient \in BOOLEAN
  /\ page    = FreshPage
  /\ area    = {}
  /\ listed  = {}
  /\ token   \in {"none", "expired"}
  /\ listing = FreshList
  /\ calls   = [c \in Calls |-> IdleCall]
  /\ status  = [k \in Tickets |-> "absent"]
  /\ opened  = <<>>
  /\ landed  = [m \in Messages |-> <<>>]
  /\ spent   = [sends |-> 0, clicks |-> 0, events |-> {}]

Exists(k)  == status[k] # "absent"
AtPage(c)  == calls[c].pc \notin {"idle", "orphan"}
PageIdle   == listing.pc \in {"idle", "refused"} /\ \A c \in Calls : ~AtPage(c)
MayAct     == patient => PageIdle

Use(bound, max) ==
  /\ spent[bound] < max
  /\ spent' = [spent EXCEPT ![bound] = @ + 1]

\* Each kind of event happens once, and at most MaxEvents of them.
Happens(kind) ==
  /\ kind \notin spent.events /\ Cardinality(spent.events) < MaxEvents
  /\ spent' = [spent EXCEPT !.events = @ \cup {kind}]

Fault  == Happens("fault")
Faults == "fault" \in spent.events

Become(c, pc) == calls' = [calls EXCEPT ![c].pc = pc]

\* Mutant: the header shows the ticket, the next message does not go to it.
HeadedOnly(k, s) == [page EXCEPT !.header = [of |-> k, shows |-> s]]

\* updateTicketHeader, after removeTyping.
Headed(k, s) == [page EXCEPT !.current = k, !.header = [of |-> k, shows |-> s]]

\* Mutant: the indicator is taken away without looking for it.
FewerUnchecked(n) == n - 1

\* removeTyping takes one indicator away, if there is one.
Fewer(n) == IF n > 0 THEN n - 1 ELSE 0

\* Mutant: the indicator stays when a request fails.
TypingOn(p) == p

TypingOff(p) == [p EXCEPT !.typing = Fewer(@)]
Enabled(p)   == [p EXCEPT !.busy = FALSE]

\* Mutant: the sidebar is only brought up to date.
UpdatedSidebar(k) == listed

\* upsertSidebarTicket.
UpsertedSidebar(k) == listed \cup {k}

-----------------------------------------------------------------------------
(* sendMessage and apiCall.                                                *)

\* The ticket of the request is the current one at this moment.
Send(c) ==
  /\ calls[c].pc = "idle" /\ MayAct /\ Use("sends", MaxSends)
  /\ LET m == spent.sends + 1 IN
       /\ area' = area \cup {Item("question", page.current, m)}
       /\ calls' = [calls EXCEPT ![c] =
            [IdleCall EXCEPT !.pc  = IF token = "none" THEN "token" ELSE "posted",
                             !.msg = m, !.tid = page.current, !.tok = token]]
  /\ page' = [page EXCEPT !.typing = @ + 1, !.busy = TRUE]
  /\ UNCHANGED <<patient, listed, listing, token, server>>

\* ensureSessionToken returns, with a new token or without; the request takes
\* along whichever token is stored by then.
TokenReturns(c) ==
  /\ calls[c].pc \in {"token", "retoken"}
  /\ \/ token' = "valid" /\ UNCHANGED spent
     \/ token' = token /\ Fault
  /\ calls' = [calls EXCEPT
                 ![c].pc  = IF @ = "token" THEN "posted" ELSE "reposted",
                 ![c].tok = token']
  /\ UNCHANGED <<patient, page, area, listed, listing, server>>

\* get_current_user: no token is accepted, an expired one is not.
Refuse(c) ==
  /\ calls[c].what = "chat" /\ calls[c].tok = "expired"
  /\ \/ calls[c].pc = "posted"   /\ Become(c, "refused")
     \/ calls[c].pc = "reposted" /\ Become(c, "failed")
     \/ calls[c].pc = "orphan"   /\ Become(c, "idle")
  /\ UNCHANGED <<patient, page, area, listed, listing, token, server, spent>>

\* Mutant: whatever fails is sent once more.
RetryAny(c) ==
  /\ calls[c].what = "chat" /\ calls[c].pc \in {"refused", "failed"}
  /\ token' = "none"
  /\ Become(c, "retoken")
  /\ UNCHANGED <<patient, page, area, listed, listing, server, spent>>

\* A 401: the token is dropped and the request is sent once more.
Retry(c) ==
  /\ calls[c].pc = "refused"
  /\ token' = "none"
  /\ Become(c, "retoken")
  /\ UNCHANGED <<patient, page, area, listed, listing, server, spent>>

\* The server takes a chat request up.
Serving(c) ==
  /\ calls[c].what = "chat" /\ calls[c].tok # "expired"
  /\ calls[c].pc \in {"posted", "reposted", "orphan"}

\* What comes back, unless the page has gone.
Return(c, pc, k, s) ==
  calls' = [calls EXCEPT ![c] =
              IF @.pc = "orphan" THEN IdleCall
              ELSE [@ EXCEPT !.pc = pc, !.tid = k, !.says = s]]

\* The length check comes before everything else and knows no ticket.
AnswerTooLong(c) ==
  /\ Serving(c) /\ Happens("long")
  /\ Return(c, "answered",
            IF calls[c].tid = Null THEN Nowhere ELSE calls[c].tid, "error")
  /\ UNCHANGED <<patient, page, area, listed, listing, token, server>>

\* "NONE" is no UUID, and looking it up raises.
LookupRaises(c) ==
  /\ Serving(c) /\ calls[c].tid = Nowhere
  /\ Return(c, "failed", Nowhere, Null)
  /\ UNCHANGED <<patient, page, area, listed, listing, token, server, spent>>

\* A turn keeps the status or escalates; a confirming message resolves a ticket
\* that has been talked about before.
TurnResults(k) ==
  IF Exists(k) THEN {status[k], "escalated", "resolved"} ELSE {"open", "escalated"}

\* _get_or_create_ticket, and the status the turn leaves the ticket with.
HandleChat(c) ==
  /\ Serving(c) /\ calls[c].tid # Nowhere
  /\ \E k \in Tickets :
       /\ IF calls[c].tid = Null THEN ~Exists(k) ELSE k = calls[c].tid
       /\ \E s \in TurnResults(k) :
            /\ status' = [status EXCEPT ![k] = s]
            /\ \/ Return(c, "answered", k, s) /\ UNCHANGED spent
               \/ Return(c, "failed", calls[c].tid, Null) /\ Fault
       /\ opened' = IF Exists(k) THEN opened ELSE Append(opened, k)
       /\ landed' = [landed EXCEPT ![calls[c].msg] = Append(@, k)]
  /\ UNCHANGED <<patient, page, area, listed, listing, token>>

\* The request does not reach handle_chat (the network, the rate limit), or its
\* answer does not reach the page.
Lost(c) ==
  /\ calls[c].pc \in {"posted", "reposted", "answered"} /\ Fault
  /\ Become(c, "failed")
  /\ UNCHANGED <<patient, page, area, listed, listing, token, server>>

\* What the page appends for an answer: in place of the card the question of
\* stage 2, if the ticket waits for its answer.
Shown(call) ==
  Item(IF call.says = "pending_confirmation" THEN "prompt" ELSE "answer",
       call.tid, call.msg)

ChatAnswered(c) ==
  /\ calls[c].what = "chat" /\ calls[c].pc = "answered"
  /\ page'   = Enabled(TypingOff(Headed(calls[c].tid, calls[c].says)))
  /\ area'   = area \cup {Shown(calls[c])}
  /\ listed' = UpsertedSidebar(calls[c].tid)
  /\ calls'  = [calls EXCEPT ![c] = IdleCall]
  /\ UNCHANGED <<patient, listing, token, server, spent>>

\* Mutant: the failure is only logged.
ChatFailedQuietly(c) ==
  /\ calls[c].what = "chat" /\ calls[c].pc = "failed"
  /\ page'  = Enabled(TypingOff(page))
  /\ calls' = [calls EXCEPT ![c] = IdleCall]
  /\ UNCHANGED <<patient, area, listed, listing, token, server, spent>>

ChatFailed(c) ==
  /\ calls[c].what = "chat" /\ calls[c].pc = "failed"
  /\ page'  = Enabled(TypingOff(page))
  /\ area'  = area \cup {Item("error", Null, calls[c].msg)}
  /\ calls' = [calls EXCEPT ![c] = IdleCall]
  /\ UNCHANGED <<patient, listed, listing, token, server, spent>>

-----------------------------------------------------------------------------
(* The sidebar, starting over, and reloading.                              *)

OpenTicket(c, k) ==
  /\ k \in listed /\ calls[c].pc = "idle" /\ MayAct /\ Use("clicks", MaxClicks)
  /\ page'  = [page EXCEPT !.current = k, !.typing = 1]
  /\ area'  = {}
  /\ calls' = [calls EXCEPT ![c] =
                 [IdleCall EXCEPT !.what = "load", !.pc = "posted", !.tid = k]]
  /\ UNCHANGED <<patient, listed, listing, token, server>>

\* get_ticket.
ServeTicket(c) ==
  LET k == calls[c].tid IN
  /\ calls[c].what = "load" /\ calls[c].pc = "posted"
  /\ IF k = Nowhere THEN Become(c, "failed")
     ELSE calls' = [calls EXCEPT ![c].pc = "answered", ![c].says = status[k]]
  /\ UNCHANGED <<patient, page, area, listed, listing, token, server, spent>>

TicketLoaded(c) ==
  /\ calls[c].what = "load" /\ calls[c].pc = "answered"
  /\ page'  = TypingOff(Headed(calls[c].tid, calls[c].says))
  /\ area'  = area \cup {Item("history", calls[c].tid, 0)}
  /\ calls' = [calls EXCEPT ![c] = IdleCall]
  /\ UNCHANGED <<patient, listed, listing, token, server, spent>>

LoadFailed(c) ==
  /\ calls[c].what = "load" /\ calls[c].pc = "failed"
  /\ page'  = TypingOff(page)
  /\ area'  = area \cup {Item("error", Null, 0)}
  /\ calls' = [calls EXCEPT ![c] = IdleCall]
  /\ UNCHANGED <<patient, listed, listing, token, server, spent>>

\* Mutant: the old conversation stays in the chat area.
NewConversationBelow ==
  /\ MayAct /\ Use("clicks", MaxClicks)
  /\ page' = [page EXCEPT !.current = Null, !.header = Null]
  /\ UNCHANGED <<patient, area, listed, listing, token, calls, server>>

\* resetToNewTicket.
NewConversation ==
  /\ MayAct /\ Use("clicks", MaxClicks)
  /\ page' = [page EXCEPT !.current = Null, !.header = Null, !.typing = 0]
  /\ area' = {}
  /\ UNCHANGED <<patient, listed, listing, token, calls, server>>

\* Requests that are on their way reach the server all the same.
Reload ==
  /\ MayAct /\ Use("clicks", MaxClicks)
  /\ page'    = FreshPage
  /\ area'    = {}
  /\ listed'  = {}
  /\ listing' = FreshList
  /\ calls'   = [c \in Calls |->
       IF calls[c].pc \in {"posted", "reposted", "orphan"} /\ calls[c].what # "load"
       THEN [calls[c] EXCEPT !.pc = "orphan"] ELSE IdleCall]
  /\ UNCHANGED <<patient, token, server>>

\* init and loadTicketList: apiGet gets a token but does not replace an
\* expired one, and the list it returns replaces whatever is shown.
ListTokenReturns ==
  /\ listing.pc = "token"
  /\ listing' = [listing EXCEPT !.pc = "asked"]
  /\ \/ token' = "valid" /\ UNCHANGED spent
     \/ token' = token /\ Fault
  /\ UNCHANGED <<patient, page, area, listed, calls, server>>

NewestTickets ==
  {opened[n] : n \in {i \in DOMAIN opened : Len(opened) - i < ListSize}}

\* user_tickets returns no more than that; an older ticket is not in the list.
ServeList ==
  /\ listing.pc = "asked" /\ token = "valid"
  /\ listing' = [pc |-> "answered", rows |-> NewestTickets]
  /\ UNCHANGED <<patient, page, area, listed, token, calls, server, spent>>

ListReturns ==
  /\ listing.pc = "answered"
  /\ listed'  = listing.rows
  /\ listing' = IdleList
  /\ UNCHANGED <<patient, page, area, token, calls, server, spent>>

ListRefused ==
  /\ listing.pc = "asked" /\ token # "valid"
  /\ listed'  = {}
  /\ listing' = [IdleList EXCEPT !.pc = "refused"]
  /\ UNCHANGED <<patient, page, area, token, calls, server, spent>>

-----------------------------------------------------------------------------
(* The questions of stage 2.                                               *)

\* A click disables the buttons for good.
Click(c, i, what, says) ==
  /\ i \in area /\ calls[c].pc = "idle" /\ MayAct
  /\ area'  = (area \ {i}) \cup {[i EXCEPT !.kind = "waiting"]}
  /\ calls' = [calls EXCEPT ![c] =
       [IdleCall EXCEPT !.what = what, !.pc = "posted", !.tid = i.of,
                        !.msg = i.msg, !.says = says]]
  /\ UNCHANGED <<patient, page, listed, listing, token, server, spent>>

AnswerResolution(c) ==
  \E i \in area, says \in {"yes", "no"} :
    i.kind = "prompt" /\ Click(c, i, "resolution", says)

AnswerTimeline(c) ==
  \E i \in area : i.kind = "timeline" /\ Click(c, i, "timeline", "yes")

\* What an answer makes of the ticket.
Stage2Result(call) ==
  IF call.what = "timeline" THEN "resolved"
  ELSE IF call.says = "yes" THEN "awaiting_timeline" ELSE "escalated"

\* stage2_resolution and stage2_timeline.
ServeStage2(c) ==
  /\ calls[c].what \in {"resolution", "timeline"}
  /\ calls[c].pc \in {"posted", "orphan"}
  /\ status' = [status EXCEPT ![calls[c].tid] = Stage2Result(calls[c])]
  /\ Return(c, "answered", calls[c].tid, calls[c].says)
  /\ UNCHANGED <<patient, page, area, listed, listing, token, opened, landed, spent>>

\* A call of the server raises before the status is written.  The text of a 500
\* does not parse, but handleStage2Timeline does not look at the answer.
Stage2Raises(c) ==
  /\ calls[c].what \in {"resolution", "timeline"} /\ calls[c].pc = "posted"
  /\ Fault
  /\ Become(c, IF calls[c].what = "timeline" THEN "answered" ELSE "failed")
  /\ UNCHANGED <<patient, page, area, listed, listing, token, server>>

\* The prompt is replaced where it stands, if it is still shown.
Replace(c, kind) ==
  LET i == Item("waiting", calls[c].tid, calls[c].msg)
  IN  area' = IF i \in area THEN (area \ {i}) \cup {[i EXCEPT !.kind = kind]}
              ELSE area

TimelineAsked(c) ==
  /\ calls[c].what = "resolution" /\ calls[c].pc = "answered"
  /\ calls[c].says = "yes"
  /\ Replace(c, "timeline")
  /\ calls' = [calls EXCEPT ![c] = IdleCall]
  /\ UNCHANGED <<patient, page, listed, listing, token, server, spent>>

\* Mutant: the header is left as it is.
Stage2HeaderKept(call) == page

\* "We're on it", or "Your ticket is now closed".
Stage2Headed(call) ==
  Headed(call.tid, IF call.what = "timeline" THEN "resolved" ELSE "escalated")

Stage2Done(c) ==
  /\ calls[c].pc = "answered"
  /\ \/ calls[c].what = "resolution" /\ calls[c].says = "no"
     \/ calls[c].what = "timeline"
  /\ Replace(c, "answer")
  /\ page'   = Stage2Headed(calls[c])
  /\ listed' = UpsertedSidebar(calls[c].tid)
  /\ calls'  = [calls EXCEPT ![c] = IdleCall]
  /\ UNCHANGED <<patient, listing, token, server, spent>>

Stage2Failed(c) ==
  /\ calls[c].what \in {"resolution", "timeline"} /\ calls[c].pc = "failed"
  /\ Replace(c, "error")
  /\ calls' = [calls EXCEPT ![c] = IdleCall]
  /\ UNCHANGED <<patient, page, listed, listing, token, server, spent>>

-----------------------------------------------------------------------------
(* What happens without the page.                                          *)

TokenExpires ==
  /\ token = "valid" /\ Happens("expiry")
  /\ token' = "expired"
  /\ UNCHANGED <<patient, page, area, listed, listing, calls, server>>

\* The follow-up job and the auto-close job.
JobMoves(k) ==
  /\ Happens("job")
  /\ \/ /\ status[k] = "open"
        /\ status' = [status EXCEPT ![k] = "pending_confirmation"]
     \/ /\ status[k] \in {"open", "pending_confirmation"}
        /\ status' = [status EXCEPT ![k] = "auto_closed"]
  /\ UNCHANGED <<patient, page, area, listed, listing, token, calls, opened, landed>>

\* The page goes on with a request, or the server serves it.
Progress(c) ==
  \/ TokenReturns(c) \/ Refuse(c) \/ Retry(c)
  \/ LookupRaises(c) \/ HandleChat(c) \/ ChatAnswered(c) \/ ChatFailed(c)
  \/ ServeTicket(c) \/ TicketLoaded(c) \/ LoadFailed(c)
  \/ ServeStage2(c) \/ TimelineAsked(c) \/ Stage2Done(c) \/ Stage2Failed(c)

User(c) ==
  \/ Send(c) \/ (\E k \in listed : OpenTicket(c, k))
  \/ AnswerResolution(c) \/ AnswerTimeline(c)

Listing == ListTokenReturns \/ ServeList \/ ListReturns \/ ListRefused

Next ==
  \/ \E c \in Calls : User(c) \/ Progress(c)
  \/ \E c \in Calls : AnswerTooLong(c) \/ Lost(c) \/ Stage2Raises(c)
  \/ NewConversation \/ Reload \/ Listing \/ TokenExpires
  \/ \E k \in Tickets : JobMoves(k)

Spec == Init /\ [][Next]_vars

-----------------------------------------------------------------------------
(* Properties.                                                             *)

\* However often the token is refused and the request repeated (app.js:63-69),
\* a message is taken up by at most one chat turn.
HandledAtMostOnce == \A m \in Messages : Len(landed[m]) <= 1

\* Nobody is kept waiting by the page itself: without a chat request or a load
\* under way there is no typing indicator and the send button is enabled, in
\* whichever order answers came, areas were cleared and indicators removed.
TypingOnlyWhileBusy ==
  (\A c \in Calls : calls[c].what \in {"chat", "load"} => ~AtPage(c))
    => page.typing = 0 /\ ~page.busy

\* A patient user reads one conversation at a time: everything shown is of the
\* ticket that the next message goes to, and so is the header unless a ticket
\* could not be loaded.
ShownIsCurrent ==
  patient /\ PageIdle =>
    /\ \A i \in area : i.of \in {page.current, Null}
    /\ (\A i \in area : i.kind # "error") =>
         page.current = IF page.header = Null THEN Null ELSE page.header.of

Questions == {i \in area : i.kind = "question"}

\* As long as no answer was lost, all messages of one conversation of a patient
\* user are turns of one ticket, the one that was opened if there was one.
OneTicketPerConversation ==
  (patient /\ \A q \in Questions : landed[q.msg] # <<>> =>
     \E i \in area : i.msg = q.msg /\ i.kind \notin {"question", "error"}) =>
  \A p, q \in Questions :
    landed[p.msg] # <<>> /\ landed[q.msg] # <<>> =>
      /\ landed[p.msg] = landed[q.msg]
      /\ p.of # Null => landed[p.msg] = <<p.of>>

\* What a job can make of a status meanwhile.
Since(s) ==
  {s} \cup (IF s = "open" THEN {"pending_confirmation"} ELSE {})
      \cup (IF s \in {"open", "pending_confirmation"} THEN {"auto_closed"} ELSE {})

\* The header of a patient user's page shows the status of the current ticket,
\* or one that only a job has changed since, as long as nothing fails; while the
\* timing is asked about, it still shows that the customer is asked.
HeaderTellsStatus ==
  LET k == page.current IN
  (patient /\ PageIdle /\ ~Faults /\ k \in Tickets) =>
    \/ page.header.shows = "error"
    \/ status[k] \in Since(page.header.shows)
    \/ status[k] = "awaiting_timeline" /\ \E i \in area : i.kind = "timeline"

\* Once the list was loaded, a patient user finds the newest tickets in the
\* sidebar, as many as the server lists, those opened since by this page's own
\* messages among them, as long as nothing fails: neither list nor page hides a
\* ticket that the other one is to show.
SidebarIsComplete ==
  (patient /\ PageIdle /\ listing.pc = "idle" /\ ~Faults) =>
    NewestTickets \subseteq listed

\* FINDING.  "Follow-ups pass the ticket_id from the previous response, so they
\* hit the explicit lookup above" (chat_handler.py:84-86): a request that names
\* a ticket names one that exists.
FollowupsHitLookup ==
  \A c \in Calls :
    /\ calls[c].what = "chat"
    /\ calls[c].pc \in {"token", "posted", "refused", "retoken", "reposted"}
    /\ calls[c].tid # Null
    => calls[c].tid \in Tickets /\ Exists(calls[c].tid)

\* No message is left without a reply: a question in the chat area has an answer,
\* a prompt or an error with it, unless its request is still under way.
QuestionsAreSettled ==
  \A q \in Questions :
    \/ \E i \in area : i.msg = q.msg /\ i # q
    \/ \E c \in Calls : calls[c].what = "chat" /\ calls[c].msg = q.msg /\ AtPage(c)
=============================================================================
