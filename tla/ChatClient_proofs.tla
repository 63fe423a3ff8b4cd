------------------------- MODULE ChatClient_proofs -------------------------
(***************************************************************************)
(* Theorems about ChatClient for any number of tickets, of requests under  *)
(* way, of messages and of clicks.                                         *)
(***************************************************************************)
EXTENDS ChatClient, FiniteSetTheorems, TLAPS

USE NamesAssumption, BoundsAssumption

-----------------------------------------------------------------------------
(* Type correctness.  The header shows the ticket and the status of an     *)
(* answer, so answers must have them; and a ticket that the page can open  *)
(* must have a row, so every ticket the page knows of must.                *)

Known(k) == k \in Tickets => Exists(k)

\* A call whose answer has what its continuation takes from it.
GoodCall(call) ==
  /\ call \in CallStates /\ Known(call.tid)
  /\ call.what = "chat" /\ call.pc = "answered" =>
       call.tid \in Ids /\ call.says \in Statuses \cup {"error"}
  /\ call.what = "load" =>
       call.tid \in Ids /\ (call.pc = "answered" => call.says \in Statuses)
  /\ call.what \in {"resolution", "timeline"} => call.tid \in Ids

GoodItem(i) ==
  i \in Items /\ Known(i.of) /\ (i.kind \in {"prompt", "timeline"} => i.of \in Ids)

GoodPage(p) == p \in Pages /\ Known(p.current)

PageInv ==
  /\ patient \in BOOLEAN /\ token \in Tokens
  /\ GoodPage(page)
  /\ \A i \in area : GoodItem(i)
  /\ listed \subseteq Ids /\ \A k \in listed : Known(k)
  /\ listing \in ListStates /\ \A k \in listing.rows : Known(k)

\* The tickets that exist, each once.
OpenedInv ==
  /\ opened \in Seq(Tickets)
  /\ \A n \in DOMAIN opened : Exists(opened[n])
  /\ \A k \in Tickets : Exists(k) => \E n \in DOMAIN opened : opened[n] = k
  /\ \A m, n \in DOMAIN opened : opened[m] = opened[n] => m = n

ServerInv ==
  /\ OpenedInv
  /\ status \in [Tickets -> Statuses \cup {"absent"}]
  /\ landed \in [Messages -> Seq(Tickets)]
  /\ spent  \in [sends : 0 .. MaxSends, clicks : 0 .. MaxClicks,
                 events : SUBSET Events]

CallsInv == DOMAIN calls = Calls /\ calls = [c \in Calls |-> calls[c]]
            /\ \A c \in Calls : GoodCall(calls[c])

TypeInv == PageInv /\ ServerInv /\ CallsInv

LEMMA TypeInvImplies == TypeInv => TypeOK
<1> SUFFICES ASSUME TypeInv PROVE TypeOK
  OBVIOUS
<1>1. /\ opened \in Seq(Tickets)
      /\ \A m, n \in DOMAIN opened : opened[m] = opened[n] => m = n
  BY DEF TypeInv, ServerInv, OpenedInv
<1>2. {opened[n] : n \in DOMAIN opened} = {k \in Tickets : status[k] # "absent"}
  <2>1. \A n \in DOMAIN opened : opened[n] \in Tickets /\ status[opened[n]] # "absent"
    BY DEF TypeInv, ServerInv, OpenedInv, Exists
  <2>2. \A k \in Tickets : status[k] # "absent" => \E n \in DOMAIN opened : opened[n] = k
    BY DEF TypeInv, ServerInv, OpenedInv, Exists
  <2> QED
    BY <2>1, <2>2
<1> QED
  BY <1>1, <1>2 DEF TypeInv, PageInv, ServerInv, CallsInv, TypeOK, GoodPage, GoodItem,
                    GoodCall

LEMMA TypeInit == Init => TypeInv
<1> SUFFICES ASSUME Init PROVE TypeInv
  OBVIOUS
<1>1. IdleCall \in CallStates /\ GoodCall(IdleCall)
  BY DEF IdleCall, CallStates, GoodCall, Known, Tokens
<1>2. GoodPage(FreshPage)
  BY DEF FreshPage, GoodPage, Pages, Headers, Known
<1>3. FreshList \in ListStates /\ FreshList.rows = {}
  BY DEF Init, FreshList, IdleList, ListStates
<1>4. PageInv
  BY <1>2, <1>3 DEF Init, PageInv, Tokens
<1>5. ServerInv
  BY DEF Init, ServerInv, OpenedInv, Exists, Messages
<1>6. CallsInv
  BY <1>1 DEF Init, CallsInv
<1> QED
  BY <1>4, <1>5, <1>6 DEF TypeInv

\* Tickets only come.
Grows == /\ status' \in [Tickets -> Statuses \cup {"absent"}]
         /\ \A k \in Tickets : Exists(k) => Exists(k)'

LEMMA KnownPersists ==
  ASSUME Grows
  PROVE  /\ \A k : Known(k) => Known(k)'
         /\ \A call : GoodCall(call) => GoodCall(call)'
         /\ \A i : GoodItem(i) => GoodItem(i)'
         /\ \A p : GoodPage(p) => GoodPage(p)'
BY DEF Grows, Known, GoodCall, GoodItem, GoodPage

\* A step that changes one call and nothing of the page but what is named.
LEMMA CallsStep ==
  ASSUME TypeInv, Grows, NEW c \in Calls, NEW call, GoodCall(call)',
         calls' = [calls EXCEPT ![c] = call]
  PROVE  CallsInv'
BY KnownPersists DEF TypeInv, CallsInv

LEMMA CallsKept ==
  ASSUME TypeInv, Grows, UNCHANGED calls
  PROVE  CallsInv'
BY KnownPersists DEF TypeInv, CallsInv

LEMMA PageKept ==
  ASSUME TypeInv, Grows, UNCHANGED <<patient, page, area, listed, listing>>,
         token' \in Tokens
  PROVE  PageInv'
BY KnownPersists DEF TypeInv, PageInv

LEMMA StatusKept ==
  ASSUME TypeInv, UNCHANGED status
  PROVE  Grows
BY DEF TypeInv, ServerInv, Grows, Exists

\* A job or an answer of stage 2 writes a ticket that exists.
LEMMA OpenedKept ==
  ASSUME TypeInv, NEW k, NEW s \in Statuses, k \in Tickets => Exists(k),
         status' = [status EXCEPT ![k] = s], UNCHANGED opened
  PROVE  OpenedInv' /\ Grows
<1>1. status \in [Tickets -> Statuses \cup {"absent"}] /\ OpenedInv
  BY DEF TypeInv, ServerInv
<1>2. s # "absent"
  BY DEF Statuses
<1>3. \A j \in Tickets : Exists(j)' <=> Exists(j)
  BY <1>1, <1>2 DEF Exists
<1>4. \A n \in DOMAIN opened : opened[n] \in Tickets
  BY <1>1 DEF OpenedInv
<1>5. OpenedInv'
  <2>1. \A n \in DOMAIN opened : Exists(opened[n])'
    <3> SUFFICES ASSUME NEW n \in DOMAIN opened PROVE Exists(opened[n])'
      OBVIOUS
    <3>1. PICK j \in Tickets : j = opened[n]
      BY <1>4
    <3>2. Exists(j)'
      BY <1>1, <1>3, <3>1 DEF OpenedInv
    <3> QED
      BY <3>1, <3>2 DEF Exists
  <2> QED
    BY <1>1, <1>3, <2>1 DEF OpenedInv
<1> QED
  BY <1>1, <1>3, <1>5 DEF Grows

LEMMA ServerKept ==
  ASSUME TypeInv, UNCHANGED server,
         spent' = spent \/ spent' \in [sends : 0 .. MaxSends, clicks : 0 .. MaxClicks,
                                       events : SUBSET Events]
  PROVE  ServerInv' /\ Grows
BY StatusKept DEF TypeInv, ServerInv, OpenedInv, Exists, server

\* The bounds.
LEMMA SpentTypes ==
  ASSUME TypeInv
  PROVE  LET Spents == [sends : 0 .. MaxSends, clicks : 0 .. MaxClicks,
                        events : SUBSET Events] IN
         /\ Use("sends", MaxSends) => spent' \in Spents /\ spent.sends + 1 \in Messages
         /\ Use("clicks", MaxClicks) => spent' \in Spents
         /\ \A kind \in Events : Happens(kind) => spent' \in Spents
         /\ Fault => spent' \in Spents
<1> DEFINE Spents == [sends : 0 .. MaxSends, clicks : 0 .. MaxClicks,
                      events : SUBSET Events]
<1>1. spent \in Spents
  BY DEF TypeInv, ServerInv
<1>2. Use("sends", MaxSends) => spent' \in Spents /\ spent.sends + 1 \in Messages
  BY <1>1 DEF Use, Messages
<1>3. Use("clicks", MaxClicks) => spent' \in Spents
  BY <1>1 DEF Use
<1>4. \A kind \in Events : Happens(kind) => spent' \in Spents
  BY <1>1 DEF Happens
<1>5. "fault" \in Events
  BY DEF Events
<1> QED
  BY <1>2, <1>3, <1>4, <1>5 DEF Fault

\* The ways in which a call goes on.
LEMMA CallFields ==
  ASSUME TypeInv, NEW c \in Calls
  PROVE  /\ GoodCall(calls[c]) /\ calls[c] \in CallStates
         /\ calls[c].tid \in Ids \cup {Null} /\ Known(calls[c].tid)
         /\ calls[c].msg \in Messages \cup {0}
BY DEF TypeInv, CallsInv, GoodCall, CallStates

LEMMA IdleIsGood == GoodCall(IdleCall)
BY DEF IdleCall, CallStates, GoodCall, Known, Tokens

\* A call goes on without an answer, or with a token.
LEMMA GoodPc ==
  ASSUME NEW call, GoodCall(call),
         NEW pc \in {"idle", "token", "posted", "refused", "retoken", "reposted",
                     "failed", "orphan"}
  PROVE  /\ GoodCall([call EXCEPT !.pc = pc])
         /\ \A tok \in Tokens : GoodCall([call EXCEPT !.pc = pc, !.tok = tok])
<1>1. call \in CallStates
  BY DEF GoodCall
<1>2. [call EXCEPT !.pc = pc] \in CallStates
      /\ \A tok \in Tokens : [call EXCEPT !.pc = pc, !.tok = tok] \in CallStates
  BY <1>1 DEF CallStates
<1> QED
  BY <1>1, <1>2 DEF GoodCall, CallStates

LEMMA TypeBecome ==
  ASSUME TypeInv, Grows, NEW c \in Calls,
         NEW pc \in {"idle", "token", "posted", "refused", "retoken", "reposted",
                     "failed", "orphan"},
         Become(c, pc)
  PROVE  CallsInv'
<1>1. GoodCall([calls[c] EXCEPT !.pc = pc])
  BY CallFields, GoodPc
<1>2. calls' = [calls EXCEPT ![c] = [calls[c] EXCEPT !.pc = pc]]
  BY DEF Become
<1> QED
  BY <1>1, <1>2, CallsStep, KnownPersists

\* An answer, or the failure to give one.
LEMMA TypeReturn ==
  ASSUME TypeInv, Grows, NEW c \in Calls, NEW pc \in {"answered", "failed"},
         NEW k \in Ids \cup {Null}, NEW says, Known(k)',
         says \in Statuses \cup {"yes", "no", "error", Null},
         pc = "answered" \/ calls[c].what # "chat" => k \in Ids,
         pc = "answered" /\ calls[c].what = "chat" => says \in Statuses \cup {"error"},
         calls[c].what # "load",
         Return(c, pc, k, says)
  PROVE  CallsInv'
<1>1. GoodCall(calls[c]) /\ calls[c] \in CallStates
  BY CallFields
<1>2. PICK answer : answer = [calls[c] EXCEPT !.pc = pc, !.tid = k, !.says = says]
  OBVIOUS
<1>3. answer \in CallStates /\ answer.what = calls[c].what /\ answer.tid = k
      /\ answer.pc = pc /\ answer.says = says
  BY <1>1, <1>2 DEF CallStates
<1>4. GoodCall(answer)'
  BY <1>3 DEF GoodCall, CallStates
<1>5. GoodCall(IdleCall)'
  BY IdleIsGood, KnownPersists
<1>6. PICK new : new = IF calls[c].pc = "orphan" THEN IdleCall ELSE answer
  OBVIOUS
<1>7. calls' = [calls EXCEPT ![c] = new]
  BY <1>2, <1>6 DEF Return
<1>8. GoodCall(new)'
  BY <1>4, <1>5, <1>6
<1> QED
  BY <1>7, <1>8, CallsStep

\* A call that has ended.
LEMMA TypeEnd ==
  ASSUME TypeInv, Grows, NEW c \in Calls, calls' = [calls EXCEPT ![c] = IdleCall]
  PROVE  CallsInv'
BY IdleIsGood, KnownPersists, CallsStep

LEMMA HeadedIsGood ==
  ASSUME TypeInv, NEW k \in Ids, NEW s \in Statuses \cup {"error"}, Known(k)
  PROVE  /\ GoodPage(Headed(k, s)) /\ GoodPage(TypingOff(Headed(k, s)))
         /\ GoodPage(Enabled(TypingOff(Headed(k, s))))
         /\ GoodPage(TypingOff(page)) /\ GoodPage(Enabled(TypingOff(page)))
<1>1. page \in Pages /\ Known(page.current)
  BY DEF TypeInv, PageInv, GoodPage
<1> DEFINE head == [of |-> k, shows |-> s]
<1>2. head \in Headers \cup {Null}
  BY DEF Headers
<1>3. Headed(k, s) = [page EXCEPT !.current = k, !.header = head]
  BY DEF Headed
<1> HIDE DEF head
<1>4. Headed(k, s) \in Pages /\ Headed(k, s).current = k
  BY <1>1, <1>2, <1>3 DEF Pages
<1>5. \A p \in Pages : /\ TypingOff(p) \in Pages /\ TypingOff(p).current = p.current
                       /\ Enabled(p) \in Pages /\ Enabled(p).current = p.current
  <2> TAKE p \in Pages
  <2>1. Fewer(p.typing) \in Nat
    BY DEF Pages, Fewer
  <2> QED
    BY <2>1 DEF TypingOff, Enabled, Pages
<1> QED
  BY <1>1, <1>4, <1>5 DEF GoodPage

\* The steps that only move a call.
LEMMA TypeMoves ==
  ASSUME TypeInv, NEW c \in Calls,
         TokenReturns(c) \/ Refuse(c) \/ Retry(c) \/ AnswerTooLong(c)
         \/ LookupRaises(c) \/ Lost(c) \/ ServeTicket(c) \/ Stage2Raises(c)
  PROVE  TypeInv'
<1>1. GoodCall(calls[c]) /\ calls[c] \in CallStates /\ token \in Tokens
  BY CallFields DEF TypeInv, PageInv
<1>2. /\ UNCHANGED <<patient, page, area, listed, listing, server>>
      /\ UNCHANGED spent \/ Fault \/ Happens("long")
      /\ token' \in Tokens
  BY <1>1 DEF TokenReturns, Refuse, Retry, AnswerTooLong, LookupRaises, Lost,
              ServeTicket, Stage2Raises, server, Tokens, Fault
<1>3. ServerInv' /\ Grows
  BY <1>2, ServerKept, SpentTypes DEF Events
<1>4. PageInv'
  BY <1>2, <1>3, PageKept
<1>5. CASE TokenReturns(c)
  <2>1. PICK pc \in {"posted", "reposted"}, tok \in Tokens :
          calls' = [calls EXCEPT ![c] = [calls[c] EXCEPT !.pc = pc, !.tok = tok]]
    <3>1. calls' = [calls EXCEPT ![c].pc  = IF @ = "token" THEN "posted" ELSE "reposted",
                                 ![c].tok = token']
      BY <1>5 DEF TokenReturns
    <3>2. PICK pc : pc = IF calls[c].pc = "token" THEN "posted" ELSE "reposted"
      OBVIOUS
    <3>3. PICK tok : tok = token'
      OBVIOUS
    <3>4. calls' = [calls EXCEPT ![c] = [calls[c] EXCEPT !.pc = pc, !.tok = tok]]
      BY <3>1, <3>2, <3>3 DEF TypeInv, CallsInv
    <3> QED
      BY <1>2, <3>2, <3>3, <3>4
  <2>2. GoodCall([calls[c] EXCEPT !.pc = pc, !.tok = tok])
    BY <1>1, GoodPc
  <2>3. CallsInv'
    BY <1>3, <2>1, <2>2, CallsStep, KnownPersists
  <2> QED
    BY <1>3, <1>4, <2>3 DEF TypeInv
<1>6. CASE Refuse(c) \/ Retry(c) \/ Lost(c)
  <2>1. \E pc \in {"refused", "failed", "idle", "retoken"} : Become(c, pc)
    BY <1>6 DEF Refuse, Retry, Lost
  <2>2. CallsInv'
    BY <1>3, <2>1, TypeBecome
  <2> QED
    BY <1>3, <1>4, <2>2 DEF TypeInv
<1>7. CASE AnswerTooLong(c)
  <2>1. PICK k \in Ids : Return(c, "answered", k, "error") /\ Known(k)
    <3>1. PICK k : k = IF calls[c].tid = Null THEN Nowhere ELSE calls[c].tid
      OBVIOUS
    <3>2. k \in Ids /\ Known(k)
      BY <3>1, CallFields DEF Ids, Known
    <3> QED
      BY <1>7, <3>1, <3>2 DEF AnswerTooLong
  <2>2. Known(k)' /\ calls[c].what = "chat"
    BY <1>3, <1>7, <2>1, KnownPersists DEF AnswerTooLong, Serving
  <2>3. CallsInv'
    BY <1>3, <2>1, <2>2, TypeReturn
  <2> QED
    BY <1>3, <1>4, <2>3 DEF TypeInv
<1>8. CASE LookupRaises(c)
  <2>1. Return(c, "failed", Nowhere, Null) /\ calls[c].what = "chat"
    BY <1>8 DEF LookupRaises, Serving
  <2>2. Nowhere \in Ids /\ Known(Nowhere)'
    BY DEF Ids, Known
  <2>3. CallsInv'
    BY <1>3, <2>1, <2>2, TypeReturn
  <2> QED
    BY <1>3, <1>4, <2>3 DEF TypeInv
<1>9. CASE ServeTicket(c)
  <2>1. CASE calls[c].tid = Nowhere
    <3>1. Become(c, "failed")
      BY <1>9, <2>1 DEF ServeTicket
    <3>2. CallsInv'
      BY <1>3, <3>1, TypeBecome
    <3> QED
      BY <1>3, <1>4, <3>2 DEF TypeInv
  <2>2. CASE calls[c].tid # Nowhere
    <3>1. calls[c].what = "load" /\ calls[c].tid \in Tickets
      BY <1>1, <1>9, <2>2 DEF ServeTicket, GoodCall, Ids
    <3>2. PICK says \in Statuses : says = status[calls[c].tid]
      BY <1>1, <3>1 DEF GoodCall, Known, Exists, TypeInv, ServerInv
    <3>3. PICK call : call = [calls[c] EXCEPT !.pc = "answered", !.says = says]
      OBVIOUS
    <3>4. calls' = [calls EXCEPT ![c] = call]
      BY <1>9, <2>2, <3>2, <3>3 DEF ServeTicket, TypeInv, CallsInv
    <3>5. GoodCall(call)
      BY <1>1, <3>1, <3>2, <3>3 DEF GoodCall, CallStates, Ids
    <3>6. CallsInv'
      BY <1>3, <3>4, <3>5, KnownPersists, CallsStep
    <3> QED
      BY <1>3, <1>4, <3>6 DEF TypeInv
  <2> QED
    BY <2>1, <2>2
<1>10. CASE Stage2Raises(c)
  <2>1. PICK pc \in {"answered", "failed"} : Become(c, pc)
    BY <1>10 DEF Stage2Raises
  <2>2. calls[c].what \in {"resolution", "timeline"}
    BY <1>10 DEF Stage2Raises
  <2>3. PICK call : call = [calls[c] EXCEPT !.pc = pc]
    OBVIOUS
  <2>4. calls' = [calls EXCEPT ![c] = call]
    BY <2>1, <2>3 DEF Become
  <2>5. GoodCall(call)
    BY <1>1, <2>2, <2>3 DEF GoodCall, CallStates
  <2>6. CallsInv'
    BY <1>3, <2>4, <2>5, KnownPersists, CallsStep
  <2> QED
    BY <1>3, <1>4, <2>6 DEF TypeInv
<1> QED
  BY <1>5, <1>6, <1>7, <1>8, <1>9, <1>10

\* The steps that write the ticket.
LEMMA TypeServes ==
  ASSUME TypeInv, NEW c \in Calls, HandleChat(c) \/ ServeStage2(c)
  PROVE  TypeInv'
<1>1. GoodCall(calls[c]) /\ calls[c] \in CallStates /\ calls[c].msg \in Messages \cup {0}
  BY CallFields
<1>2. ServerInv /\ token \in Tokens
  BY DEF TypeInv, PageInv
<1>3. CASE HandleChat(c)
  <2>1. PICK k \in Tickets, s \in Statuses :
          /\ IF calls[c].tid = Null THEN ~Exists(k) ELSE k = calls[c].tid
          /\ status' = [status EXCEPT ![k] = s]
          /\ \/ Return(c, "answered", k, s) /\ UNCHANGED spent
             \/ Return(c, "failed", calls[c].tid, Null) /\ Fault
          /\ opened' = IF Exists(k) THEN opened ELSE Append(opened, k)
          /\ landed' = [landed EXCEPT ![calls[c].msg] = Append(@, k)]
    <3>1. \A k \in Tickets : TurnResults(k) \subseteq Statuses
      BY <1>2 DEF TurnResults, Exists, Statuses, ServerInv
    <3> QED
      BY <1>3, <3>1 DEF HandleChat
  <2>3. Grows
    BY <1>2, <2>1 DEF ServerInv, Grows, Exists, Statuses
  <2>4. UNCHANGED <<patient, page, area, listed, listing, token>>
    BY <1>3 DEF HandleChat
  <2>5. PageInv'
    BY <1>2, <2>3, <2>4, PageKept
  <2>6. ServerInv'
    <3>1. landed' \in [Messages -> Seq(Tickets)]
      <4>1. \A m \in Messages : Append(landed[m], k) \in Seq(Tickets)
        BY <1>2 DEF ServerInv
      <4>2. landed \in [Messages -> Seq(Tickets)]
        BY <1>2 DEF ServerInv
      <4> QED
        BY <2>1, <4>1, <4>2
    <3>2. spent' = spent \/ Fault
      BY <2>1
    <3>3. OpenedInv'
      <4>1. CASE Exists(k)
        BY <2>1, <4>1, OpenedKept
      <4>2. CASE ~Exists(k)
        <5>1. opened' = Append(opened, k) /\ opened \in Seq(Tickets) /\ OpenedInv
          BY <1>2, <2>1, <4>2 DEF ServerInv, OpenedInv
        <5>2. /\ opened' \in Seq(Tickets) /\ opened'[Len(opened) + 1] = k
              /\ DOMAIN opened' = 1 .. Len(opened) + 1 /\ DOMAIN opened = 1 .. Len(opened)
              /\ Len(opened) \in Nat
              /\ \A n \in DOMAIN opened : opened'[n] = opened[n] /\ opened[n] \in Tickets
          BY <5>1
        <5>3. \A j \in Tickets : status'[j] # "absent" <=> j = k \/ Exists(j)
          BY <1>2, <2>1 DEF ServerInv, Exists, Statuses
        <5>4. \A n \in DOMAIN opened' : n = Len(opened) + 1 \/ n \in DOMAIN opened
          BY <5>2
        <5>5. \A n \in DOMAIN opened : opened[n] # k
          BY <4>2, <5>1 DEF OpenedInv
        <5>6. \A n \in DOMAIN opened' : status'[opened'[n]] # "absent"
          BY <5>1, <5>2, <5>3, <5>4 DEF OpenedInv
        <5>7. \A j \in Tickets : status'[j] # "absent" => \E n \in DOMAIN opened' : opened'[n] = j
          <6> SUFFICES ASSUME NEW j \in Tickets, j = k \/ Exists(j)
                       PROVE  \E n \in DOMAIN opened' : opened'[n] = j
            BY <5>3
          <6>1. Len(opened) + 1 \in DOMAIN opened'
            BY <5>2
          <6>2. CASE j # k
            <7>1. PICK n \in DOMAIN opened : opened[n] = j
              BY <5>1, <6>2 DEF OpenedInv
            <7> QED
              BY <5>2, <7>1
          <6> QED
            BY <5>2, <6>1, <6>2
        <5>8. \A m, n \in DOMAIN opened' : opened'[m] = opened'[n] => m = n
          BY <5>1, <5>2, <5>4, <5>5 DEF OpenedInv
        <5> QED
          BY <5>2, <5>6, <5>7, <5>8 DEF OpenedInv, Exists
      <4> QED
        BY <4>1, <4>2
    <3> QED
      BY <1>2, <2>3, <3>1, <3>2, <3>3, SpentTypes DEF ServerInv, Grows
  <2>7. calls[c].what = "chat"
    BY <1>3 DEF HandleChat, Serving
  <2>8. CallsInv'
    <3>1. Exists(k)' /\ Known(k)'
      BY <1>2, <2>1 DEF ServerInv, Exists, Statuses, Known
    <3>2. CASE Return(c, "answered", k, s)
      <4>1. k \in Ids
        BY DEF Ids
      <4> QED
        BY <2>3, <2>7, <3>1, <3>2, <4>1, TypeReturn
    <3>3. CASE Return(c, "failed", calls[c].tid, Null)
      <4>1. PICK tid \in Ids \cup {Null} : tid = calls[c].tid
        BY CallFields
      <4>2. Known(tid)'
        BY <1>1, <2>3, <4>1, KnownPersists DEF GoodCall
      <4> QED
        BY <2>3, <2>7, <3>3, <4>1, <4>2, TypeReturn
    <3> QED
      BY <2>1, <3>2, <3>3
  <2> QED
    BY <2>5, <2>6, <2>8 DEF TypeInv
<1>4. CASE ServeStage2(c)
  <2>1. PICK s \in Statuses : status' = [status EXCEPT ![calls[c].tid] = s]
    <3>1. Stage2Result(calls[c]) \in Statuses
      BY DEF Stage2Result, Statuses
    <3> QED
      BY <1>4, <3>1 DEF ServeStage2
  <2>3. UNCHANGED <<patient, page, area, listed, listing, token, opened, landed, spent>>
    BY <1>4 DEF ServeStage2
  <2>2. OpenedInv' /\ Grows
    <3>1. PICK k : k = calls[c].tid
      OBVIOUS
    <3>2. k \in Tickets => Exists(k)
      BY <1>1, <3>1 DEF GoodCall, Known
    <3> QED
      BY <2>1, <2>3, <3>1, <3>2, OpenedKept
  <2>4. PageInv'
    BY <1>2, <2>2, <2>3, PageKept
  <2>5. ServerInv'
    BY <1>2, <2>2, <2>3 DEF ServerInv, Grows
  <2>6. calls[c].what \in {"resolution", "timeline"}
        /\ Return(c, "answered", calls[c].tid, calls[c].says)
    BY <1>4 DEF ServeStage2
  <2>7. PICK tid \in Ids : tid = calls[c].tid
    BY <1>1, <2>6 DEF GoodCall
  <2>8. PICK says \in Statuses \cup {"yes", "no", "error", Null} : says = calls[c].says
    BY <1>1 DEF CallStates
  <2>9. Known(tid)'
    BY <1>1, <2>2, <2>7, KnownPersists DEF GoodCall
  <2>10. CallsInv'
    BY <2>2, <2>6, <2>7, <2>8, <2>9, TypeReturn
  <2> QED
    BY <2>4, <2>5, <2>10 DEF TypeInv
<1> QED
  BY <1>3, <1>4

\* The steps of the user.
LEMMA TypeUser ==
  ASSUME TypeInv, NEW c \in Calls,
         Send(c) \/ (\E k \in listed : OpenTicket(c, k))
         \/ AnswerResolution(c) \/ AnswerTimeline(c)
  PROVE  TypeInv'
<1>1. /\ page \in Pages /\ Known(page.current) /\ token \in Tokens
      /\ \A i \in area : GoodItem(i)
      /\ listed \subseteq Ids /\ \A k \in listed : Known(k)
  BY DEF TypeInv, PageInv, GoodPage
<1>2. Grows
  BY StatusKept DEF Send, OpenTicket, AnswerResolution, AnswerTimeline, Click, server
<1>3. CASE Send(c)
  <2>1. spent.sends + 1 \in Messages /\ ServerInv'
    BY <1>3, SpentTypes, ServerKept DEF Send
  <2>2. PICK m \in Messages : m = spent.sends + 1
    BY <2>1
  <2>3. PICK pc \in {"token", "posted"} :
          calls' = [calls EXCEPT ![c] = [IdleCall EXCEPT !.pc = pc, !.msg = m,
                                           !.tid = page.current, !.tok = token]]
    BY <1>3, <2>2 DEF Send
  <2>4. PICK call : call = [IdleCall EXCEPT !.pc = pc, !.msg = m,
                                            !.tid = page.current, !.tok = token]
    OBVIOUS
  <2>5. page.current \in Ids \cup {Null}
    BY <1>1 DEF Pages
  <2>6. GoodCall(call)
    BY <1>1, <2>4, <2>5 DEF IdleCall, GoodCall, CallStates
  <2>7. CallsInv'
    BY <1>2, <2>3, <2>4, <2>6, KnownPersists, CallsStep
  <2>8. PICK item : item = Item("question", page.current, m)
    OBVIOUS
  <2>9. GoodItem(item)
    BY <1>1, <2>5, <2>8 DEF GoodItem, Item, Items
  <2>10. PICK p : p = [page EXCEPT !.typing = @ + 1, !.busy = TRUE]
    OBVIOUS
  <2>11. GoodPage(p)
    <3>1. PICK n \in Nat : n = page.typing + 1
      BY <1>1 DEF Pages
    <3>2. p = [page EXCEPT !.typing = n, !.busy = TRUE]
      BY <2>10, <3>1
    <3> QED
      BY <1>1, <3>2 DEF GoodPage, Pages
  <2>12. page' = p /\ area' = area \cup {item}
         /\ UNCHANGED <<patient, listed, listing, token>>
    BY <1>3, <2>2, <2>8, <2>10 DEF Send
  <2>13. PageInv'
    BY <1>2, <2>9, <2>11, <2>12, KnownPersists DEF TypeInv, PageInv
  <2> QED
    BY <2>1, <2>7, <2>13 DEF TypeInv
<1>4. ASSUME NEW k \in listed, OpenTicket(c, k) PROVE TypeInv'
  <2>1. ServerInv'
    BY <1>4, SpentTypes, ServerKept DEF OpenTicket
  <2>2. k \in Ids /\ Known(k)
    BY <1>1
  <2>3. PICK call : call = [IdleCall EXCEPT !.what = "load", !.pc = "posted", !.tid = k]
    OBVIOUS
  <2>4. GoodCall(call)
    BY <2>2, <2>3 DEF IdleCall, GoodCall, CallStates, Tokens
  <2>5. CallsInv'
    BY <1>2, <1>4, <2>3, <2>4, KnownPersists, CallsStep DEF OpenTicket
  <2>6. PICK p : p = [page EXCEPT !.current = k, !.typing = 1]
    OBVIOUS
  <2>7. GoodPage(p)
    BY <1>1, <2>2, <2>6 DEF GoodPage, Pages
  <2>8. page' = p /\ area' = {} /\ UNCHANGED <<patient, listed, listing, token>>
    BY <1>4, <2>6 DEF OpenTicket
  <2>9. PageInv'
    BY <1>2, <2>7, <2>8, KnownPersists DEF TypeInv, PageInv
  <2> QED
    BY <2>1, <2>5, <2>9 DEF TypeInv
<1>5. CASE AnswerResolution(c) \/ AnswerTimeline(c)
  <2>1. PICK i \in area, what \in {"resolution", "timeline"}, says \in {"yes", "no"} :
          i.kind \in {"prompt", "timeline"} /\ Click(c, i, what, says)
    BY <1>5 DEF AnswerResolution, AnswerTimeline
  <2>2. i \in Items /\ i.of \in Ids /\ Known(i.of) /\ i.msg \in Messages \cup {0}
    BY <1>1, <2>1 DEF GoodItem, Items
  <2>3. ServerInv'
    BY <2>1, ServerKept DEF Click
  <2>4. PICK call : call = [IdleCall EXCEPT !.what = what, !.pc = "posted",
                              !.tid = i.of, !.msg = i.msg, !.says = says]
    OBVIOUS
  <2>5. GoodCall(call)
    BY <2>2, <2>4 DEF IdleCall, GoodCall, CallStates, Tokens
  <2>6. CallsInv'
    BY <1>2, <2>1, <2>4, <2>5, KnownPersists, CallsStep DEF Click
  <2>7. PICK item : item = [i EXCEPT !.kind = "waiting"]
    OBVIOUS
  <2>8. GoodItem(item)
    BY <2>2, <2>7 DEF GoodItem, Items
  <2>9. area' = (area \ {i}) \cup {item}
        /\ UNCHANGED <<patient, page, listed, listing, token>>
    BY <2>1, <2>7 DEF Click
  <2>10. PageInv'
    BY <1>2, <2>8, <2>9, KnownPersists DEF TypeInv, PageInv
  <2> QED
    BY <2>3, <2>6, <2>10 DEF TypeInv
<1> QED
  BY <1>3, <1>4, <1>5

\* The steps that show an answer.
LEMMA TypeShows ==
  ASSUME TypeInv, NEW c \in Calls,
         ChatAnswered(c) \/ ChatFailed(c) \/ TicketLoaded(c) \/ LoadFailed(c)
         \/ TimelineAsked(c) \/ Stage2Done(c) \/ Stage2Failed(c)
  PROVE  TypeInv'
<1>1. /\ page \in Pages /\ GoodPage(page) /\ token \in Tokens
      /\ \A i \in area : GoodItem(i)
      /\ listed \subseteq Ids /\ \A k \in listed : Known(k)
      /\ GoodCall(calls[c]) /\ calls[c] \in CallStates /\ Known(calls[c].tid)
      /\ calls[c].tid \in Ids \cup {Null} /\ calls[c].msg \in Messages \cup {0}
  BY CallFields DEF TypeInv, PageInv, GoodPage
<1>2. /\ UNCHANGED <<patient, listing, token, server, spent>>
      /\ calls' = [calls EXCEPT ![c] = IdleCall]
  BY DEF ChatAnswered, ChatFailed, TicketLoaded, LoadFailed, TimelineAsked,
         Stage2Done, Stage2Failed
<1>3. ServerInv' /\ Grows
  BY <1>2, ServerKept
<1>4. CallsInv'
  BY <1>2, <1>3, TypeEnd
<1>5. ASSUME NEW p, GoodPage(p), page' = p, NEW l, listed' = l, l \subseteq Ids,
             \A k \in l : Known(k), NEW a, area' = a, \A i \in a : GoodItem(i)
      PROVE  TypeInv'
  <2>1. PageInv'
    BY <1>2, <1>3, <1>5, KnownPersists DEF TypeInv, PageInv
  <2> QED
    BY <1>3, <1>4, <2>1 DEF TypeInv
<1>6. CASE ChatAnswered(c)
  <2>1. calls[c].tid \in Ids /\ calls[c].says \in Statuses \cup {"error"}
    BY <1>1, <1>6 DEF ChatAnswered, GoodCall
  <2>2. GoodPage(Enabled(TypingOff(Headed(calls[c].tid, calls[c].says))))
    BY <1>1, <2>1, HeadedIsGood
  <2>3. PICK item : item = Shown(calls[c])
    OBVIOUS
  <2>4. GoodItem(item)
    BY <1>1, <2>1, <2>3 DEF Shown, Item, GoodItem, Items
  <2>5. \A k \in UpsertedSidebar(calls[c].tid) : k \in Ids /\ Known(k)
    BY <1>1, <2>1 DEF UpsertedSidebar
  <2>6. area' = area \cup {item} /\ listed' = UpsertedSidebar(calls[c].tid)
        /\ page' = Enabled(TypingOff(Headed(calls[c].tid, calls[c].says)))
    BY <1>6, <2>3 DEF ChatAnswered
  <2> QED
    BY <1>1, <1>5, <2>2, <2>4, <2>5, <2>6
<1>7. CASE ChatFailed(c)
  <2>1. GoodPage(Enabled(TypingOff(page)))
    BY HeadedIsGood DEF Ids, Known
  <2>2. PICK item : item = Item("error", Null, calls[c].msg)
    OBVIOUS
  <2>3. GoodItem(item)
    BY <1>1, <2>2 DEF Item, GoodItem, Items, Known
  <2>4. area' = area \cup {item} /\ listed' = listed /\ page' = Enabled(TypingOff(page))
    BY <1>7, <2>2 DEF ChatFailed
  <2> QED
    BY <1>1, <1>5, <2>1, <2>3, <2>4
<1>8. CASE TicketLoaded(c)
  <2>1. calls[c].tid \in Ids /\ calls[c].says \in Statuses
    BY <1>1, <1>8 DEF TicketLoaded, GoodCall
  <2>2. GoodPage(TypingOff(Headed(calls[c].tid, calls[c].says)))
    BY <1>1, <2>1, HeadedIsGood
  <2>3. PICK item : item = Item("history", calls[c].tid, 0)
    OBVIOUS
  <2>4. GoodItem(item)
    BY <1>1, <2>1, <2>3 DEF Item, GoodItem, Items
  <2>5. area' = area \cup {item} /\ listed' = listed
        /\ page' = TypingOff(Headed(calls[c].tid, calls[c].says))
    BY <1>8, <2>3 DEF TicketLoaded
  <2> QED
    BY <1>1, <1>5, <2>2, <2>4, <2>5
<1>9. CASE LoadFailed(c)
  <2>1. GoodPage(TypingOff(page))
    BY HeadedIsGood DEF Ids, Known
  <2>2. PICK item : item = Item("error", Null, 0)
    OBVIOUS
  <2>3. GoodItem(item)
    BY <1>1, <2>2 DEF Item, GoodItem, Items, Known
  <2>4. area' = area \cup {item} /\ listed' = listed /\ page' = TypingOff(page)
    BY <1>9, <2>2 DEF LoadFailed
  <2> QED
    BY <1>1, <1>5, <2>1, <2>3, <2>4
<1>10. CASE TimelineAsked(c) \/ Stage2Done(c) \/ Stage2Failed(c)
  <2>1. calls[c].tid \in Ids
    BY <1>1, <1>10 DEF TimelineAsked, Stage2Done, Stage2Failed, GoodCall
  <2>2. PICK kind \in {"timeline", "answer", "error"} : Replace(c, kind)
    BY <1>10 DEF TimelineAsked, Stage2Done, Stage2Failed
  <2>3. \A i \in area' : GoodItem(i)
    <3>1. PICK item : item = Item("waiting", calls[c].tid, calls[c].msg)
      OBVIOUS
    <3>2. PICK new : new = [item EXCEPT !.kind = kind]
      OBVIOUS
    <3>3. GoodItem(new)
      BY <1>1, <2>1, <3>1, <3>2 DEF Item, GoodItem, Items
    <3>4. area' = IF item \in area THEN (area \ {item}) \cup {new} ELSE area
      BY <2>2, <3>1, <3>2 DEF Replace
    <3> QED
      BY <1>1, <3>3, <3>4
  <2>4. GoodPage(page') /\ listed' \subseteq Ids /\ \A k \in listed' : Known(k)
    <3>1. CASE TimelineAsked(c) \/ Stage2Failed(c)
      BY <1>1, <3>1 DEF TimelineAsked, Stage2Failed
    <3>2. CASE Stage2Done(c)
      <4>1. PICK s \in Statuses :
              s = IF calls[c].what = "timeline" THEN "resolved" ELSE "escalated"
        BY DEF Statuses
      <4>2. GoodPage(Headed(calls[c].tid, s))
        BY <1>1, <2>1, HeadedIsGood
      <4>3. page' = Headed(calls[c].tid, s) /\ listed' = listed \cup {calls[c].tid}
        BY <3>2, <4>1 DEF Stage2Done, Stage2Headed, UpsertedSidebar
      <4> QED
        BY <1>1, <2>1, <4>2, <4>3
    <3> QED
      BY <1>10, <3>1, <3>2
  <2> QED
    BY <1>5, <2>3, <2>4
<1> QED
  BY <1>6, <1>7, <1>8, <1>9, <1>10

\* Starting over, the sidebar, and what happens without the page.
LEMMA TypeRest ==
  ASSUME TypeInv,
         NewConversation \/ Reload \/ Listing \/ TokenExpires
         \/ (\E k \in Tickets : JobMoves(k)) \/ UNCHANGED vars
  PROVE  TypeInv'
<1>1. PageInv /\ ServerInv /\ CallsInv /\ page \in Pages
  BY DEF TypeInv, PageInv, GoodPage
<1>2. GoodPage(FreshPage)
  BY DEF FreshPage, GoodPage, Pages, Headers, Known
<1>3. FreshList \in ListStates /\ FreshList.rows = {}
  BY DEF FreshList, IdleList, ListStates
<1>4. CASE NewConversation
  <2>1. ServerInv' /\ Grows
    BY <1>4, SpentTypes, ServerKept DEF NewConversation
  <2>2. PICK p : p = [page EXCEPT !.current = Null, !.header = Null, !.typing = 0]
    OBVIOUS
  <2>3. GoodPage(p)
    BY <1>1, <2>2 DEF GoodPage, Pages, Known
  <2>4. page' = p /\ area' = {} /\ UNCHANGED <<patient, listed, listing, token, calls>>
    BY <1>4, <2>2 DEF NewConversation
  <2>5. PageInv'
    BY <1>1, <2>1, <2>3, <2>4, KnownPersists DEF PageInv
  <2> QED
    BY <2>1, <2>4, <2>5, CallsKept DEF TypeInv
<1>5. CASE Reload
  <2>1. ServerInv' /\ Grows
    BY <1>5, SpentTypes, ServerKept DEF Reload
  <2>2. PICK list : list = FreshList
    OBVIOUS
  <2>3. PICK p : p = FreshPage
    OBVIOUS
  <2>4. /\ page' = p /\ area' = {} /\ listed' = {} /\ listing' = list
        /\ UNCHANGED <<patient, token>>
    BY <1>5, <2>2, <2>3 DEF Reload
  <2>5. PageInv'
    BY <1>1, <1>2, <1>3, <2>1, <2>2, <2>3, <2>4, KnownPersists DEF PageInv
  <2>6. PICK f : f = [c \in Calls |->
          IF calls[c].pc \in {"posted", "reposted", "orphan"} /\ calls[c].what # "load"
          THEN [calls[c] EXCEPT !.pc = "orphan"] ELSE IdleCall]
    OBVIOUS
  <2>7. calls' = f
    BY <1>5, <2>6 DEF Reload
  <2>8. \A c \in Calls : GoodCall(f[c])
    BY <1>1, <2>6, GoodPc, IdleIsGood DEF CallsInv
  <2>9. CallsInv'
    BY <2>1, <2>6, <2>7, <2>8, KnownPersists DEF CallsInv
  <2> QED
    BY <2>1, <2>5, <2>9 DEF TypeInv
<1>6. CASE Listing
  <2>1. /\ UNCHANGED <<patient, page, area, calls, server>>
        /\ UNCHANGED spent \/ Fault
        /\ token' \in Tokens
    BY <1>1, <1>6 DEF Listing, ListTokenReturns, ServeList, ListReturns, ListRefused,
                      PageInv, Tokens, server
  <2>2. ServerInv' /\ Grows
    BY <2>1, SpentTypes, ServerKept
  <2>3. PICK l, rows : l = listing' /\ rows = listed'
    OBVIOUS
  <2>4. l \in ListStates /\ (\A k \in l.rows : Known(k))
        /\ rows \subseteq Ids /\ \A k \in rows : Known(k)
    <3>1. CASE ListTokenReturns
      BY <1>1, <2>3, <3>1 DEF ListTokenReturns, PageInv, ListStates
    <3>2. CASE ServeList
      <4>1. NewestTickets \subseteq Tickets /\ \A k \in NewestTickets : Exists(k)
        BY <1>1 DEF NewestTickets, ServerInv, OpenedInv
      <4> QED
        BY <1>1, <2>3, <3>2, <4>1 DEF ServeList, PageInv, ListStates, Known
    <3>3. CASE ListReturns
      BY <1>1, <2>3, <3>3 DEF ListReturns, PageInv, ListStates, IdleList, Ids
    <3>4. CASE ListRefused
      BY <1>1, <2>3, <3>4 DEF ListRefused, PageInv, ListStates, IdleList
    <3> QED
      BY <1>6, <3>1, <3>2, <3>3, <3>4 DEF Listing
  <2>5. PageInv'
    BY <1>1, <2>1, <2>2, <2>3, <2>4, KnownPersists DEF PageInv
  <2> QED
    BY <2>1, <2>2, <2>5, CallsKept DEF TypeInv
<1>7. CASE TokenExpires \/ UNCHANGED vars
  <2>1. /\ UNCHANGED <<patient, page, area, listed, listing, calls, server>>
        /\ UNCHANGED spent \/ Happens("expiry")
        /\ token' \in Tokens
    BY <1>1, <1>7 DEF TokenExpires, PageInv, Tokens, vars, server
  <2>2. ServerInv' /\ Grows
    BY <2>1, SpentTypes, ServerKept DEF Events
  <2> QED
    BY <2>1, <2>2, PageKept, CallsKept DEF TypeInv
<1>8. ASSUME NEW k \in Tickets, JobMoves(k) PROVE TypeInv'
  <2>1. PICK s \in {"pending_confirmation", "auto_closed"} :
          status' = [status EXCEPT ![k] = s]
    BY <1>8 DEF JobMoves
  <2>2. UNCHANGED <<patient, page, area, listed, listing, token, calls, opened, landed>>
        /\ Happens("job")
    BY <1>8 DEF JobMoves
  <2>3. OpenedInv' /\ Grows
    <3>1. Exists(k) /\ s \in Statuses
      BY <1>8, <2>1 DEF JobMoves, Exists, Statuses
    <3> QED
      BY <2>1, <2>2, <3>1, OpenedKept
  <2>4. ServerInv'
    BY <1>1, <2>2, <2>3, SpentTypes DEF ServerInv, Grows, Events
  <2>5. PageInv'
    BY <1>1, <2>2, <2>3, PageKept DEF PageInv
  <2> QED
    BY <2>2, <2>3, <2>4, <2>5, CallsKept DEF TypeInv
<1> QED
  BY <1>4, <1>5, <1>6, <1>7, <1>8

LEMMA TypeNext == TypeInv /\ [Next]_vars => TypeInv'
<1> SUFFICES ASSUME TypeInv, [Next]_vars PROVE TypeInv'
  OBVIOUS
<1>1. ASSUME NEW c \in Calls, User(c) PROVE TypeInv'
  BY <1>1, TypeUser DEF User
<1>2. ASSUME NEW c \in Calls, Progress(c) PROVE TypeInv'
  BY <1>2, TypeMoves, TypeServes, TypeShows DEF Progress
<1>3. ASSUME NEW c \in Calls, AnswerTooLong(c) \/ Lost(c) \/ Stage2Raises(c)
      PROVE  TypeInv'
  BY <1>3, TypeMoves
<1> QED
  BY <1>1, <1>2, <1>3, TypeRest DEF Next

LEMMA TypeInvariant == Spec => []TypeInv
<1> QED
  BY TypeInit, TypeNext, PTL DEF Spec

\* Whatever answers come in, in whichever order and to whichever page, every
\* variable keeps its type: the page never shows a header without a status.
THEOREM TypeCorrectness == Spec => []TypeOK
<1> QED
  BY TypeInvariant, TypeInvImplies, PTL

-----------------------------------------------------------------------------
(* A message is handled at most once.  Every request that may still reach  *)
(* handle_chat carries a message of its own that has not been handled yet. *)

Waits(call) ==
  /\ call.what = "chat"
  /\ call.pc \in {"token", "posted", "refused", "retoken", "reposted", "orphan"}

WaitingInv ==
  /\ \A c \in Calls : Waits(calls[c]) =>
       /\ calls[c].msg \in Messages /\ calls[c].msg <= spent.sends
       /\ landed[calls[c].msg] = <<>>
  /\ \A c, d \in Calls :
       Waits(calls[c]) /\ Waits(calls[d]) /\ c # d => calls[c].msg # calls[d].msg
  /\ \A m \in Messages : m > spent.sends => landed[m] = <<>>

OnceInv == TypeInv /\ WaitingInv /\ HandledAtMostOnce

LEMMA OnceInit == Init => OnceInv
<1> SUFFICES ASSUME Init PROVE OnceInv
  OBVIOUS
<1>1. \A c \in Calls : ~Waits(calls[c])
  BY DEF Init, IdleCall, Waits
<1>2. \A m \in Messages : landed[m] = <<>>
  BY DEF Init
<1> QED
  BY <1>1, <1>2, TypeInit DEF OnceInv, WaitingInv, HandledAtMostOnce

\* A step that sends nothing and handles nothing.
LEMMA OnceKept ==
  ASSUME OnceInv, UNCHANGED landed, spent'.sends = spent.sends,
         \A c \in Calls : Waits(calls'[c]) =>
           Waits(calls[c]) /\ calls'[c].msg = calls[c].msg
  PROVE  WaitingInv' /\ HandledAtMostOnce'
BY DEF OnceInv, WaitingInv, HandledAtMostOnce

\* Events leave the count of messages as it is.
LEMMA SendsKept ==
  ASSUME TypeInv
  PROVE  /\ \A kind : Happens(kind) => spent'.sends = spent.sends
         /\ Fault => spent'.sends = spent.sends
         /\ Use("clicks", MaxClicks) => spent'.sends = spent.sends
         /\ UNCHANGED spent => spent'.sends = spent.sends
BY DEF TypeInv, ServerInv, Happens, Fault, Use

\* A call that goes on as it is, or ends.
LEMMA OnceCall ==
  ASSUME OnceInv, UNCHANGED landed, spent'.sends = spent.sends,
         NEW c \in Calls, NEW call, calls' = [calls EXCEPT ![c] = call],
         Waits(call) => Waits(calls[c]) /\ call.msg = calls[c].msg
  PROVE  WaitingInv' /\ HandledAtMostOnce'
<1>1. DOMAIN calls = Calls
  BY DEF OnceInv, TypeInv, CallsInv
<1>2. \A d \in Calls : calls'[d] = IF d = c THEN call ELSE calls[d]
  BY <1>1
<1> QED
  BY <1>2, OnceKept

LEMMA OnceBecome ==
  ASSUME OnceInv, UNCHANGED landed, spent'.sends = spent.sends,
         NEW c \in Calls, NEW pc, Become(c, pc),
         pc = "retoken" => calls[c].pc = "refused",
         pc = "refused" => Waits(calls[c]),
         pc \in {"retoken", "refused", "failed", "idle", "answered"}
  PROVE  WaitingInv' /\ HandledAtMostOnce'
<1>1. calls[c] \in CallStates
  BY CallFields DEF OnceInv
<1>2. PICK call : call = [calls[c] EXCEPT !.pc = pc]
  OBVIOUS
<1>3. calls' = [calls EXCEPT ![c] = call]
  BY <1>2 DEF Become
<1>4. Waits(call) => Waits(calls[c]) /\ call.msg = calls[c].msg
  BY <1>1, <1>2 DEF CallStates, Waits
<1> QED
  BY <1>3, <1>4, OnceCall

LEMMA OnceReturn ==
  ASSUME OnceInv, UNCHANGED landed, spent'.sends = spent.sends,
         NEW c \in Calls, NEW pc \in {"answered", "failed"}, NEW k, NEW says,
         Return(c, pc, k, says)
  PROVE  WaitingInv' /\ HandledAtMostOnce'
<1>1. calls[c] \in CallStates
  BY CallFields DEF OnceInv
<1>2. PICK call : call = IF calls[c].pc = "orphan" THEN IdleCall
                         ELSE [calls[c] EXCEPT !.pc = pc, !.tid = k, !.says = says]
  OBVIOUS
<1>3. calls' = [calls EXCEPT ![c] = call]
  BY <1>2 DEF Return
<1>4. ~Waits(call)
  BY <1>1, <1>2 DEF CallStates, Waits, IdleCall
<1> QED
  BY <1>3, <1>4, OnceCall

\* The page posts a message that nobody has seen.
LEMMA OnceSend ==
  ASSUME OnceInv, NEW c \in Calls, Send(c)
  PROVE  WaitingInv' /\ HandledAtMostOnce'
<1>1. /\ calls[c].pc = "idle" /\ DOMAIN calls = Calls
      /\ spent \in [sends : 0 .. MaxSends, clicks : 0 .. MaxClicks,
                    events : SUBSET Events]
  BY DEF OnceInv, TypeInv, CallsInv, ServerInv, Send
<1>2. PICK m \in Messages : m = spent.sends + 1 /\ spent'.sends = m
  BY <1>1, SpentTypes DEF Send, Use, OnceInv
<1>3. PICK call : /\ calls' = [calls EXCEPT ![c] = call]
                  /\ call.msg = m
  <2>1. PICK call :
          call = [IdleCall EXCEPT !.pc  = IF token = "none" THEN "token" ELSE "posted",
                             !.msg = m, !.tid = page.current, !.tok = token]
    OBVIOUS
  <2>2. call.msg = m
    BY <2>1 DEF IdleCall
  <2>3. calls' = [calls EXCEPT ![c] = call]
    BY <1>2, <2>1 DEF Send
  <2> QED
    BY <2>2, <2>3
<1>4. \A d \in Calls : calls'[d] = IF d = c THEN call ELSE calls[d]
  BY <1>1, <1>3
<1>5. landed' = landed /\ landed[m] = <<>>
  BY <1>1, <1>2 DEF Send, server, OnceInv, WaitingInv, Messages
<1>6. \A d \in Calls : Waits(calls'[d]) =>
        /\ calls'[d].msg \in Messages /\ calls'[d].msg <= m
        /\ landed[calls'[d].msg] = <<>>
  BY <1>1, <1>2, <1>3, <1>4, <1>5 DEF OnceInv, WaitingInv, Messages
<1>7. \A d \in Calls : d # c /\ Waits(calls'[d]) => calls'[d].msg < m
  BY <1>1, <1>2, <1>4 DEF OnceInv, WaitingInv, Messages
<1>8. \A d, e \in Calls :
        Waits(calls'[d]) /\ Waits(calls'[e]) /\ d # e => calls'[d].msg # calls'[e].msg
  <2> SUFFICES ASSUME NEW d \in Calls, NEW e \in Calls,
                      Waits(calls'[d]), Waits(calls'[e]), d # e
               PROVE  calls'[d].msg # calls'[e].msg
    OBVIOUS
  <2>1. CASE d = c
    BY <1>3, <1>4, <1>6, <1>7, <2>1 DEF Messages
  <2>2. CASE e = c
    BY <1>3, <1>4, <1>6, <1>7, <2>2 DEF Messages
  <2>3. CASE d # c /\ e # c
    BY <1>4, <2>3 DEF OnceInv, WaitingInv
  <2> QED
    BY <2>1, <2>2, <2>3
<1>9. \A n \in Messages : n > m => landed[n] = <<>>
  BY <1>1, <1>2 DEF OnceInv, WaitingInv, Messages
<1> QED
  BY <1>2, <1>5, <1>6, <1>8, <1>9 DEF OnceInv, WaitingInv, HandledAtMostOnce

\* The server takes the message of a request up, which no other request has.
LEMMA OnceHandle ==
  ASSUME OnceInv, NEW c \in Calls, HandleChat(c)
  PROVE  WaitingInv' /\ HandledAtMostOnce'
<1>1. /\ calls[c] \in CallStates /\ DOMAIN calls = Calls
      /\ landed \in [Messages -> Seq(Tickets)]
      /\ Waits(calls[c])
  BY CallFields DEF OnceInv, TypeInv, CallsInv, ServerInv, HandleChat, Serving, Waits
<1>2. spent'.sends = spent.sends
  BY SendsKept DEF HandleChat, OnceInv
<1>3. PICK m \in Messages : m = calls[c].msg /\ landed[m] = <<>> /\ m <= spent.sends
  BY <1>1 DEF OnceInv, WaitingInv
<1>4. PICK k \in Tickets : landed' = [landed EXCEPT ![m] = Append(@, k)]
  BY <1>3 DEF HandleChat
<1>5. landed' = [landed EXCEPT ![m] = <<k>>]
  BY <1>1, <1>3, <1>4
<1>6. PICK call : calls' = [calls EXCEPT ![c] = call] /\ ~Waits(call)
  <2>1. PICK pc, tid, says : pc \in {"answered", "failed"} /\ Return(c, pc, tid, says)
    BY DEF HandleChat
  <2>2. PICK call : call = IF calls[c].pc = "orphan" THEN IdleCall
                           ELSE [calls[c] EXCEPT !.pc = pc, !.tid = tid, !.says = says]
    OBVIOUS
  <2>3. calls' = [calls EXCEPT ![c] = call]
    BY <2>1, <2>2 DEF Return
  <2>4. ~Waits(call)
    BY <1>1, <2>1, <2>2 DEF CallStates, Waits, IdleCall
  <2> QED
    BY <2>3, <2>4
<1>7. \A d \in Calls : Waits(calls'[d]) =>
        d # c /\ calls'[d] = calls[d] /\ Waits(calls[d]) /\ calls[d].msg # m
  BY <1>1, <1>3, <1>6 DEF OnceInv, WaitingInv
<1>8. \A n \in Messages : n # m => landed'[n] = landed[n]
  BY <1>1, <1>5
<1>9. landed'[m] = <<k>>
  BY <1>1, <1>5
<1>10. WaitingInv'
  <2>1. \A d \in Calls : Waits(calls'[d]) =>
          /\ calls'[d].msg \in Messages /\ calls'[d].msg <= spent'.sends
          /\ landed'[calls'[d].msg] = <<>>
    BY <1>2, <1>7, <1>8 DEF OnceInv, WaitingInv
  <2>2. \A d, e \in Calls :
          Waits(calls'[d]) /\ Waits(calls'[e]) /\ d # e
            => calls'[d].msg # calls'[e].msg
    BY <1>7 DEF OnceInv, WaitingInv
  <2>3. \A n \in Messages : n > spent'.sends => landed'[n] = <<>>
    <3>1. spent.sends \in Int
      BY DEF OnceInv, TypeInv, ServerInv
    <3>2. \A n \in Messages : n > spent.sends => n # m
      BY <1>3, <3>1 DEF Messages
    <3> QED
      BY <1>2, <1>8, <3>2 DEF OnceInv, WaitingInv
  <2> QED
    BY <2>1, <2>2, <2>3 DEF WaitingInv
<1>11. \A n \in Messages : Len(landed'[n]) <= 1
  <2> SUFFICES ASSUME NEW n \in Messages PROVE Len(landed'[n]) <= 1
    OBVIOUS
  <2>1. CASE n = m
    <3>1. landed'[n] = <<k>>
      BY <1>9, <2>1
    <3> QED
      BY <3>1
  <2>2. CASE n # m
    BY <1>8, <2>2 DEF HandledAtMostOnce, OnceInv
  <2> QED
    BY <2>1, <2>2
<1> QED
  BY <1>10, <1>11 DEF HandledAtMostOnce

LEMMA OnceNext == OnceInv /\ [Next]_vars => OnceInv'
<1> SUFFICES ASSUME OnceInv, [Next]_vars PROVE WaitingInv' /\ HandledAtMostOnce'
  BY TypeNext DEF OnceInv
<1>1. TypeInv /\ CallsInv /\ DOMAIN calls = Calls
      /\ \A c \in Calls : calls[c] \in CallStates
  BY CallFields DEF OnceInv, TypeInv, CallsInv
<1>2. ASSUME NEW c \in Calls, TokenReturns(c) PROVE WaitingInv' /\ HandledAtMostOnce'
  <2>1. PICK call :
          call = [calls[c] EXCEPT !.pc  = IF @ = "token" THEN "posted" ELSE "reposted",
                                  !.tok = token']
    OBVIOUS
  <2>2. calls' = [calls EXCEPT ![c] = call]
    BY <1>1, <1>2, <2>1 DEF TokenReturns
  <2>3. Waits(call) => Waits(calls[c]) /\ call.msg = calls[c].msg
    BY <1>1, <1>2, <2>1 DEF TokenReturns, Waits, CallStates
  <2>4. UNCHANGED landed /\ spent'.sends = spent.sends
    BY <1>1, <1>2, SendsKept DEF TokenReturns, server
  <2> QED
    BY <2>2, <2>3, <2>4, OnceCall
<1>3. ASSUME NEW c \in Calls, Retry(c) PROVE WaitingInv' /\ HandledAtMostOnce'
  <2>1. Become(c, "retoken") /\ calls[c].pc = "refused" /\ UNCHANGED landed
        /\ spent'.sends = spent.sends
    BY <1>1, <1>3, SendsKept DEF Retry, server
  <2> QED
    BY <2>1, OnceBecome
<1>4. ASSUME NEW c \in Calls, Refuse(c) PROVE WaitingInv' /\ HandledAtMostOnce'
  <2>1. UNCHANGED landed /\ spent'.sends = spent.sends
    BY <1>1, <1>4, SendsKept DEF Refuse, server
  <2>2. PICK pc \in {"refused", "failed", "idle"} :
          Become(c, pc) /\ (pc = "refused" => Waits(calls[c]))
    BY <1>4 DEF Refuse, Waits
  <2> QED
    BY <2>1, <2>2, OnceBecome
<1>5. ASSUME NEW c \in Calls, AnswerTooLong(c) \/ LookupRaises(c)
      PROVE  WaitingInv' /\ HandledAtMostOnce'
  <2>1. UNCHANGED landed /\ spent'.sends = spent.sends
    BY <1>1, <1>5, SendsKept DEF AnswerTooLong, LookupRaises, server
  <2>2. \E pc \in {"answered", "failed"} : \E k, says : Return(c, pc, k, says)
    BY <1>5 DEF AnswerTooLong, LookupRaises
  <2> QED
    BY <2>1, <2>2, OnceReturn
<1>6. ASSUME NEW c \in Calls, Lost(c) \/ Stage2Raises(c)
      PROVE  WaitingInv' /\ HandledAtMostOnce'
  <2>1. UNCHANGED landed /\ spent'.sends = spent.sends
    BY <1>1, <1>6, SendsKept DEF Lost, Stage2Raises, server
  <2>2. \E pc \in {"failed", "answered"} : Become(c, pc)
    BY <1>6 DEF Lost, Stage2Raises
  <2> QED
    BY <2>1, <2>2, OnceBecome
<1>7. ASSUME NEW c \in Calls, ServeTicket(c) PROVE WaitingInv' /\ HandledAtMostOnce'
  <2>1. UNCHANGED landed /\ spent'.sends = spent.sends /\ calls[c].what = "load"
    BY <1>7, SendsKept DEF ServeTicket, server
  <2>2. PICK call : calls' = [calls EXCEPT ![c] = call] /\ call.what = "load"
    <3>1. PICK failed : failed = [calls[c] EXCEPT !.pc = "failed"]
      OBVIOUS
    <3>2. PICK answered : answered = [calls[c] EXCEPT !.pc = "answered",
                                        !.says = status[calls[c].tid]]
      OBVIOUS
    <3>3. failed.what = "load" /\ answered.what = "load"
      BY <1>1, <2>1, <3>1, <3>2 DEF CallStates
    <3>4. calls' = [calls EXCEPT ![c] = failed] \/ calls' = [calls EXCEPT ![c] = answered]
      BY <1>1, <1>7, <3>1, <3>2 DEF ServeTicket, Become
    <3> QED
      BY <3>3, <3>4
  <2>3. ~Waits(call)
    BY <2>2 DEF Waits
  <2> QED
    BY <2>1, <2>2, <2>3, OnceCall
<1>8. ASSUME NEW c \in Calls, ServeStage2(c) PROVE WaitingInv' /\ HandledAtMostOnce'
  <2>1. UNCHANGED landed /\ spent'.sends = spent.sends
        /\ Return(c, "answered", calls[c].tid, calls[c].says)
    BY <1>8 DEF ServeStage2
  <2> QED
    BY <2>1, OnceReturn
<1>9. ASSUME NEW c \in Calls,
             ChatAnswered(c) \/ ChatFailed(c) \/ TicketLoaded(c) \/ LoadFailed(c)
             \/ TimelineAsked(c) \/ Stage2Done(c) \/ Stage2Failed(c)
      PROVE  WaitingInv' /\ HandledAtMostOnce'
  <2>1. UNCHANGED landed /\ spent'.sends = spent.sends
        /\ calls' = [calls EXCEPT ![c] = IdleCall]
    BY <1>9 DEF ChatAnswered, ChatFailed, TicketLoaded, LoadFailed, TimelineAsked,
                Stage2Done, Stage2Failed, server
  <2>2. ~Waits(IdleCall)
    BY DEF Waits, IdleCall
  <2> QED
    BY <2>1, <2>2, OnceCall
<1>10. ASSUME NEW c \in Calls, NEW k \in listed, OpenTicket(c, k)
       PROVE  WaitingInv' /\ HandledAtMostOnce'
  <2>1. UNCHANGED landed /\ spent'.sends = spent.sends
    BY <1>1, <1>10, SendsKept DEF OpenTicket, server
  <2>2. PICK call : call = [IdleCall EXCEPT !.what = "load", !.pc = "posted", !.tid = k]
    OBVIOUS
  <2>3. calls' = [calls EXCEPT ![c] = call] /\ ~Waits(call)
    BY <1>10, <2>2 DEF OpenTicket, IdleCall, Waits
  <2> QED
    BY <2>1, <2>3, OnceCall
<1>11. ASSUME NEW c \in Calls, AnswerResolution(c) \/ AnswerTimeline(c)
       PROVE  WaitingInv' /\ HandledAtMostOnce'
  <2>1. PICK i \in area, what \in {"resolution", "timeline"}, says \in {"yes", "no"} :
          Click(c, i, what, says)
    BY <1>11 DEF AnswerResolution, AnswerTimeline
  <2>2. PICK call : call = [IdleCall EXCEPT !.what = what, !.pc = "posted",
                              !.tid = i.of, !.msg = i.msg, !.says = says]
    OBVIOUS
  <2>3. calls' = [calls EXCEPT ![c] = call] /\ ~Waits(call)
    BY <2>1, <2>2 DEF Click, IdleCall, Waits
  <2>4. UNCHANGED landed /\ spent'.sends = spent.sends
    BY <2>1 DEF Click, server
  <2> QED
    BY <2>3, <2>4, OnceCall
<1>12. CASE Reload
  <2>1. UNCHANGED landed /\ spent'.sends = spent.sends
    BY <1>1, <1>12, SendsKept DEF Reload, server
  <2>2. \A c \in Calls : Waits(calls'[c]) =>
          Waits(calls[c]) /\ calls'[c].msg = calls[c].msg
    <3> SUFFICES ASSUME NEW c \in Calls, Waits(calls'[c])
                 PROVE  Waits(calls[c]) /\ calls'[c].msg = calls[c].msg
      OBVIOUS
    <3>1. CASE calls[c].pc \in {"posted", "reposted", "orphan"}
               /\ calls[c].what # "load"
      BY <1>1, <1>12, <3>1 DEF Reload, Waits, CallStates
    <3>2. CASE ~(calls[c].pc \in {"posted", "reposted", "orphan"}
                 /\ calls[c].what # "load")
      BY <1>12, <3>2 DEF Reload, Waits, IdleCall
    <3> QED
      BY <3>1, <3>2
  <2> QED
    BY <2>1, <2>2, OnceKept
<1>13. CASE NewConversation \/ Listing \/ TokenExpires
            \/ (\E k \in Tickets : JobMoves(k)) \/ UNCHANGED vars
  <2>1. UNCHANGED <<calls, landed>> /\ spent'.sends = spent.sends
    BY <1>1, <1>13, SendsKept
       DEF NewConversation, Listing, ListTokenReturns, ServeList, ListReturns,
           ListRefused, TokenExpires, JobMoves, vars, server
  <2> QED
    BY <2>1, OnceKept
<1>14. ASSUME NEW c \in Calls, User(c) \/ Progress(c)
       PROVE  WaitingInv' /\ HandledAtMostOnce'
  BY <1>2, <1>3, <1>4, <1>5, <1>7, <1>8, <1>9, <1>10, <1>11, <1>14, OnceSend,
     OnceHandle DEF User, Progress
<1> QED
  BY <1>5, <1>6, <1>12, <1>13, <1>14 DEF Next

\* However often the token of a request is refused and the request repeated, in
\* whichever order requests are posted, lost, orphaned by a reload and served, no
\* message is taken up by two chat turns.
THEOREM MessagesAreHandledOnce == Spec => []HandledAtMostOnce
<1>1. OnceInv => HandledAtMostOnce
  BY DEF OnceInv
<1> QED
  BY <1>1, OnceInit, OnceNext, PTL DEF Spec

-----------------------------------------------------------------------------
(* No message is left without a reply.  The property is inductive: a reply *)
(* may change its kind where it stands, but never into a question, and a   *)
(* chat request leaves the page by putting its reply into the chat area.   *)

AwaitedAtPage(call, m) ==
  call.what = "chat" /\ call.msg = m /\ call.pc \notin {"idle", "orphan"}

Replied(a, m) == \E i \in a : i.msg = m /\ i.kind # "question"

\* What a step must do with questions, replies and requests.
LEMMA SettledKept ==
  ASSUME QuestionsAreSettled,
         \A q \in area' : q.kind = "question" => q \in area,
         \A i \in area : i \in area' \/ Replied(area', i.msg) \/ area' = {},
         \A c \in Calls : \A m : AwaitedAtPage(calls[c], m) =>
           AwaitedAtPage(calls'[c], m) \/ Replied(area', m)
  PROVE  QuestionsAreSettled'
<1> SUFFICES ASSUME NEW q \in area', q.kind = "question"
             PROVE  \/ \E i \in area' : i.msg = q.msg /\ i # q
                    \/ \E c \in Calls : AwaitedAtPage(calls'[c], q.msg)
  BY DEF QuestionsAreSettled, Questions, AtPage, AwaitedAtPage
<1>1. Replied(area', q.msg) => \E i \in area' : i.msg = q.msg /\ i # q
  BY DEF Replied
<1>2. \/ \E i \in area : i.msg = q.msg /\ i # q
      \/ \E c \in Calls : AwaitedAtPage(calls[c], q.msg)
  BY DEF QuestionsAreSettled, Questions, AtPage, AwaitedAtPage
<1>3. CASE \E c \in Calls : AwaitedAtPage(calls[c], q.msg)
  BY <1>1, <1>3
<1>4. ASSUME NEW i \in area, i.msg = q.msg, i # q
      PROVE  \E j \in area' : j.msg = q.msg /\ j # q
  BY <1>1, <1>4
<1> QED
  BY <1>2, <1>3, <1>4

\* A step that leaves the chat area alone.
LEMMA SettledCall ==
  ASSUME TypeInv, QuestionsAreSettled, UNCHANGED area, NEW c \in Calls, NEW call,
         calls' = [calls EXCEPT ![c] = call],
         \A m : AwaitedAtPage(calls[c], m) => AwaitedAtPage(call, m)
  PROVE  QuestionsAreSettled'
<1>1. \A d \in Calls : calls'[d] = IF d = c THEN call ELSE calls[d]
  BY DEF TypeInv, CallsInv
<1> QED
  BY <1>1, SettledKept

LEMMA SettledBecome ==
  ASSUME TypeInv, QuestionsAreSettled, UNCHANGED area, NEW c \in Calls, NEW pc,
         Become(c, pc), pc = "idle" => calls[c].pc = "orphan", pc # "orphan"
  PROVE  QuestionsAreSettled'
<1>1. calls[c] \in CallStates
  BY CallFields
<1>2. PICK call : call = [calls[c] EXCEPT !.pc = pc]
  OBVIOUS
<1>3. \A m : AwaitedAtPage(calls[c], m) => AwaitedAtPage(call, m)
  BY <1>1, <1>2 DEF CallStates, AwaitedAtPage
<1> QED
  BY <1>2, <1>3, SettledCall DEF Become

LEMMA SettledReturn ==
  ASSUME TypeInv, QuestionsAreSettled, UNCHANGED area, NEW c \in Calls,
         NEW pc \in {"answered", "failed"}, NEW k, NEW says, Return(c, pc, k, says)
  PROVE  QuestionsAreSettled'
<1>1. calls[c] \in CallStates
  BY CallFields
<1>2. PICK call : call = IF calls[c].pc = "orphan" THEN IdleCall
                         ELSE [calls[c] EXCEPT !.pc = pc, !.tid = k, !.says = says]
  OBVIOUS
<1>3. \A m : AwaitedAtPage(calls[c], m) => AwaitedAtPage(call, m)
  BY <1>1, <1>2 DEF CallStates, AwaitedAtPage
<1> QED
  BY <1>2, <1>3, SettledCall DEF Return

\* An item is put in the place of another one.
LEMMA SettledReplace ==
  ASSUME TypeInv, QuestionsAreSettled, NEW c \in Calls, NEW call,
         calls' = [calls EXCEPT ![c] = call],
         \A m : ~AwaitedAtPage(calls[c], m),
         NEW old \in Items, NEW kind, kind # "question",
         NEW new, new = [old EXCEPT !.kind = kind],
         area' = area \/ area' = (area \ {old}) \cup {new}
  PROVE  QuestionsAreSettled'
<1>1. \A d \in Calls : calls'[d] = IF d = c THEN call ELSE calls[d]
  BY DEF TypeInv, CallsInv
<1>2. new.kind = kind /\ new.msg = old.msg
  BY DEF Items
<1>3. \A d \in Calls : \A m : AwaitedAtPage(calls[d], m) => AwaitedAtPage(calls'[d], m)
  BY <1>1
<1>4. \A i \in area : i \in area' \/ Replied(area', i.msg)
  BY <1>2 DEF Replied
<1>5. \A q \in area' : q.kind = "question" => q \in area
  BY <1>2
<1> QED
  BY <1>3, <1>4, <1>5, SettledKept

LEMMA SettledNext == TypeInv /\ QuestionsAreSettled /\ [Next]_vars => QuestionsAreSettled'
<1> SUFFICES ASSUME TypeInv, QuestionsAreSettled, [Next]_vars
             PROVE  QuestionsAreSettled'
  OBVIOUS
<1>1. DOMAIN calls = Calls /\ \A c \in Calls : calls[c] \in CallStates
  BY CallFields DEF TypeInv, CallsInv
<1>2. ASSUME NEW c \in Calls, Send(c) PROVE QuestionsAreSettled'
  <2>1. PICK m : m = spent.sends + 1
    OBVIOUS
  <2>2. PICK item : item = Item("question", page.current, m)
    OBVIOUS
  <2>3. PICK call :
          call = [IdleCall EXCEPT !.pc  = IF token = "none" THEN "token" ELSE "posted",
                             !.msg = m, !.tid = page.current, !.tok = token]
    OBVIOUS
  <2>4. area' = area \cup {item} /\ calls' = [calls EXCEPT ![c] = call]
        /\ calls[c].pc = "idle"
    BY <1>2, <2>1, <2>2, <2>3 DEF Send
  <2>5. item.msg = m /\ AwaitedAtPage(call, m)
    BY <2>2, <2>3 DEF Item, AwaitedAtPage, IdleCall
  <2>6. \A d \in Calls : calls'[d] = IF d = c THEN call ELSE calls[d]
    BY <1>1, <2>4
  <2>7. \A d \in Calls : \A n : AwaitedAtPage(calls[d], n) => AwaitedAtPage(calls'[d], n)
    BY <2>4, <2>6 DEF AwaitedAtPage
  <2> SUFFICES ASSUME NEW q \in area', q.kind = "question"
               PROVE  \/ \E i \in area' : i.msg = q.msg /\ i # q
                      \/ \E d \in Calls : AwaitedAtPage(calls'[d], q.msg)
    BY DEF QuestionsAreSettled, Questions, AtPage, AwaitedAtPage
  <2>8. CASE q = item
    BY <2>5, <2>6, <2>8
  <2>9. CASE q \in area
    <3>1. \/ \E i \in area : i.msg = q.msg /\ i # q
          \/ \E d \in Calls : AwaitedAtPage(calls[d], q.msg)
      BY <2>9 DEF QuestionsAreSettled, Questions, AtPage, AwaitedAtPage
    <3> QED
      BY <2>4, <2>7, <3>1
  <2> QED
    BY <2>4, <2>8, <2>9
<1>3. ASSUME NEW c \in Calls, TokenReturns(c) PROVE QuestionsAreSettled'
  <2>1. PICK call :
          call = [calls[c] EXCEPT !.pc  = IF @ = "token" THEN "posted" ELSE "reposted",
                                  !.tok = token']
    OBVIOUS
  <2>2. calls' = [calls EXCEPT ![c] = call] /\ UNCHANGED area
    BY <1>1, <1>3, <2>1 DEF TokenReturns
  <2>3. \A m : AwaitedAtPage(calls[c], m) => AwaitedAtPage(call, m)
    BY <1>1, <2>1 DEF AwaitedAtPage, CallStates
  <2> QED
    BY <2>2, <2>3, SettledCall
<1>4. ASSUME NEW c \in Calls, Refuse(c) \/ Retry(c) \/ Lost(c) \/ Stage2Raises(c)
      PROVE  QuestionsAreSettled'
  <2>1. UNCHANGED area
    BY <1>4 DEF Refuse, Retry, Lost, Stage2Raises
  <2>2. PICK pc \in {"refused", "failed", "idle", "retoken", "answered"} :
          Become(c, pc) /\ (pc = "idle" => calls[c].pc = "orphan")
    BY <1>4 DEF Refuse, Retry, Lost, Stage2Raises
  <2> QED
    BY <2>1, <2>2, SettledBecome
<1>5. ASSUME NEW c \in Calls,
             AnswerTooLong(c) \/ LookupRaises(c) \/ HandleChat(c) \/ ServeStage2(c)
      PROVE  QuestionsAreSettled'
  <2>1. UNCHANGED area
    BY <1>5 DEF AnswerTooLong, LookupRaises, HandleChat, ServeStage2
  <2>2. PICK pc, k, says : pc \in {"answered", "failed"} /\ Return(c, pc, k, says)
    BY <1>5 DEF AnswerTooLong, LookupRaises, HandleChat, ServeStage2
  <2> QED
    BY <2>1, <2>2, SettledReturn
<1>6. ASSUME NEW c \in Calls, ServeTicket(c) PROVE QuestionsAreSettled'
  <2>1. UNCHANGED area /\ calls[c].what = "load"
    BY <1>6 DEF ServeTicket
  <2>2. PICK call : calls' = [calls EXCEPT ![c] = call]
    BY <1>6 DEF ServeTicket, Become
  <2>3. \A m : ~AwaitedAtPage(calls[c], m)
    BY <2>1 DEF AwaitedAtPage
  <2> QED
    BY <2>1, <2>2, <2>3, SettledCall
<1>7. ASSUME NEW c \in Calls, ChatAnswered(c) \/ ChatFailed(c)
      PROVE  QuestionsAreSettled'
  <2>1. PICK item : area' = area \cup {item} /\ item.msg = calls[c].msg
                    /\ item.kind # "question"
    <3>1. CASE ChatAnswered(c)
      <4>1. PICK item : item = Shown(calls[c])
        OBVIOUS
      <4>2. item.msg = calls[c].msg /\ item.kind # "question"
        BY <4>1 DEF Shown, Item
      <4> QED
        BY <3>1, <4>1, <4>2 DEF ChatAnswered
    <3>2. CASE ChatFailed(c)
      <4>1. PICK item : item = Item("error", Null, calls[c].msg)
        OBVIOUS
      <4>2. item.msg = calls[c].msg /\ item.kind # "question"
        BY <4>1 DEF Item
      <4> QED
        BY <3>2, <4>1, <4>2 DEF ChatFailed
    <3> QED
      BY <1>7, <3>1, <3>2
  <2>2. calls' = [calls EXCEPT ![c] = IdleCall]
    BY <1>7 DEF ChatAnswered, ChatFailed
  <2>3. \A d \in Calls : calls'[d] = IF d = c THEN IdleCall ELSE calls[d]
    BY <1>1, <2>2
  <2>4. \A d \in Calls : \A m : AwaitedAtPage(calls[d], m) =>
          AwaitedAtPage(calls'[d], m) \/ Replied(area', m)
    BY <2>1, <2>3 DEF AwaitedAtPage, Replied
  <2> QED
    BY <2>1, <2>4, SettledKept
<1>8. ASSUME NEW c \in Calls, TicketLoaded(c) \/ LoadFailed(c)
      PROVE  QuestionsAreSettled'
  <2>1. PICK item : area' = area \cup {item} /\ item.kind # "question"
    <3>1. PICK kind, of :
            /\ kind \in {"history", "error"}
            /\ area' = area \cup {Item(kind, of, 0)}
      BY <1>8 DEF TicketLoaded, LoadFailed
    <3>2. PICK item : item = Item(kind, of, 0)
      OBVIOUS
    <3>3. item.kind # "question"
      BY <3>1, <3>2 DEF Item
    <3> QED
      BY <3>1, <3>2, <3>3
  <2>2. calls' = [calls EXCEPT ![c] = IdleCall] /\ calls[c].what = "load"
    BY <1>8 DEF TicketLoaded, LoadFailed
  <2>3. \A d \in Calls : calls'[d] = IF d = c THEN IdleCall ELSE calls[d]
    BY <1>1, <2>2
  <2>4. \A d \in Calls : \A m : AwaitedAtPage(calls[d], m) => AwaitedAtPage(calls'[d], m)
    BY <2>2, <2>3 DEF AwaitedAtPage
  <2> QED
    BY <2>1, <2>4, SettledKept
<1>9. ASSUME NEW c \in Calls, TimelineAsked(c) \/ Stage2Done(c) \/ Stage2Failed(c)
      PROVE  QuestionsAreSettled'
  <2>1. calls' = [calls EXCEPT ![c] = IdleCall]
        /\ calls[c].what \in {"resolution", "timeline"}
    BY <1>9 DEF TimelineAsked, Stage2Done, Stage2Failed
  <2>2. PICK kind \in {"timeline", "answer", "error"} : Replace(c, kind)
    BY <1>9 DEF TimelineAsked, Stage2Done, Stage2Failed
  <2>3. PICK old : old = Item("waiting", calls[c].tid, calls[c].msg)
    OBVIOUS
  <2>4. old \in Items
    BY <2>3, CallFields DEF Item, Items
  <2>5. PICK new : new = [old EXCEPT !.kind = kind]
    OBVIOUS
  <2>6. area' = area \/ area' = (area \ {old}) \cup {new}
    BY <2>2, <2>3, <2>5 DEF Replace
  <2>7. \A m : ~AwaitedAtPage(calls[c], m)
    BY <2>1 DEF AwaitedAtPage
  <2> QED
    BY <2>1, <2>4, <2>5, <2>6, <2>7, SettledReplace
<1>10. ASSUME NEW c \in Calls, AnswerResolution(c) \/ AnswerTimeline(c)
       PROVE  QuestionsAreSettled'
  <2>1. PICK i \in area, what \in {"resolution", "timeline"}, says \in {"yes", "no"} :
          Click(c, i, what, says)
    BY <1>10 DEF AnswerResolution, AnswerTimeline
  <2>2. i \in Items
    BY DEF TypeInv, PageInv, GoodItem
  <2>3. PICK call : calls' = [calls EXCEPT ![c] = call]
    BY <2>1 DEF Click
  <2>4. PICK new : new = [i EXCEPT !.kind = "waiting"]
    OBVIOUS
  <2>5. area' = (area \ {i}) \cup {new} /\ calls[c].pc = "idle"
    BY <2>1, <2>4 DEF Click
  <2>6. \A m : ~AwaitedAtPage(calls[c], m)
    BY <2>5 DEF AwaitedAtPage
  <2> QED
    BY <2>2, <2>3, <2>4, <2>5, <2>6, SettledReplace
<1>11. CASE NewConversation \/ Reload \/ \E c \in Calls, k \in listed : OpenTicket(c, k)
  <2>1. area' = {}
    BY <1>11 DEF NewConversation, Reload, OpenTicket
  <2> QED
    BY <2>1 DEF QuestionsAreSettled, Questions
<1>12. CASE Listing \/ TokenExpires \/ (\E k \in Tickets : JobMoves(k))
            \/ UNCHANGED vars
  <2>1. UNCHANGED <<area, calls>>
    BY <1>12 DEF Listing, ListTokenReturns, ServeList, ListReturns, ListRefused,
                 TokenExpires, JobMoves, vars
  <2> QED
    BY <2>1, SettledKept
<1>13. ASSUME NEW c \in Calls, User(c) \/ Progress(c) PROVE QuestionsAreSettled'
  BY <1>2, <1>3, <1>4, <1>5, <1>6, <1>7, <1>8, <1>9, <1>10, <1>11, <1>13
     DEF User, Progress
<1> QED
  BY <1>4, <1>5, <1>11, <1>12, <1>13 DEF Next

\* A question that is shown has its reply below it or its request under way, in
\* whichever order answers come, prompts are answered and tickets are opened.
THEOREM QuestionsGetReplies == Spec => []QuestionsAreSettled
<1>1. Init => QuestionsAreSettled
  BY DEF Init, QuestionsAreSettled, Questions
<1> QED
  BY <1>1, SettledNext, TypeInvariant, PTL DEF Spec

-----------------------------------------------------------------------------
(* The page keeps nobody waiting.  There are never more typing indicators  *)
(* than requests that will take one away, and the send button is disabled  *)
(* only while a chat request is under way that will enable it.             *)

Shows(call) == call.what \in {"chat", "load"} /\ call.pc \notin {"idle", "orphan"}
Asks(call)  == call.what = "chat" /\ call.pc \notin {"idle", "orphan"}

Typists == {c \in Calls : Shows(calls[c])}

BusyInv ==
  /\ page.typing <= Cardinality(Typists)
  /\ page.busy => \E c \in Calls : Asks(calls[c])

LEMMA TypistsFinite ==
  /\ IsFiniteSet(Typists) /\ Cardinality(Typists) \in Nat
  /\ IsFiniteSet(Typists') /\ Cardinality(Typists') \in Nat
<1>1. Typists \subseteq Calls /\ Typists' \subseteq Calls
  BY DEF Typists
<1> QED
  BY <1>1, CallsAssumption, FS_Subset, FS_CardinalityType

LEMMA BusyImplies == TypeInv /\ BusyInv => TypingOnlyWhileBusy
<1> SUFFICES ASSUME TypeInv, BusyInv,
                    \A c \in Calls : calls[c].what \in {"chat", "load"} => ~AtPage(c)
             PROVE  page.typing = 0 /\ ~page.busy
  BY DEF TypingOnlyWhileBusy
<1>1. Typists = {} /\ ~ \E c \in Calls : Asks(calls[c])
  BY DEF Typists, Shows, Asks, AtPage
<1>2. Cardinality(Typists) = 0
  BY <1>1, FS_EmptySet
<1>3. page.typing \in Nat
  BY DEF TypeInv, PageInv, GoodPage, Pages
<1> QED
  BY <1>1, <1>2, <1>3 DEF BusyInv

\* A step that takes no request away from the page.
LEMMA BusyKept ==
  ASSUME TypeInv, BusyInv,
         page'.typing = page.typing \/ page'.typing = 0, page'.busy => page.busy,
         \A c \in Calls : Shows(calls[c]) => Shows(calls'[c]),
         \A c \in Calls : Asks(calls[c]) => Asks(calls'[c])
  PROVE  BusyInv'
<1>1. Typists \subseteq Typists'
  BY DEF Typists
<1>2. Cardinality(Typists) <= Cardinality(Typists')
  BY <1>1, TypistsFinite, FS_Subset
<1>3. page.typing \in Nat
  BY DEF TypeInv, PageInv, GoodPage, Pages
<1>4. page'.typing <= Cardinality(Typists')
  BY <1>2, <1>3, TypistsFinite DEF BusyInv
<1>5. page'.busy => \E c \in Calls : Asks(calls'[c])
  BY DEF BusyInv
<1> QED
  BY <1>4, <1>5 DEF BusyInv

LEMMA BusyCall ==
  ASSUME TypeInv, BusyInv, UNCHANGED page, NEW c \in Calls, NEW call,
         calls' = [calls EXCEPT ![c] = call],
         Shows(calls[c]) => Shows(call), Asks(calls[c]) => Asks(call)
  PROVE  BusyInv'
<1>1. \A d \in Calls : calls'[d] = IF d = c THEN call ELSE calls[d]
  BY DEF TypeInv, CallsInv
<1> QED
  BY <1>1, BusyKept

LEMMA BusyBecome ==
  ASSUME TypeInv, BusyInv, UNCHANGED page, NEW c \in Calls, NEW pc,
         Become(c, pc), pc = "idle" => calls[c].pc = "orphan", pc # "orphan"
  PROVE  BusyInv'
<1>1. calls[c] \in CallStates
  BY CallFields
<1>2. PICK call : call = [calls[c] EXCEPT !.pc = pc]
  OBVIOUS
<1>3. (Shows(calls[c]) => Shows(call)) /\ (Asks(calls[c]) => Asks(call))
  BY <1>1, <1>2 DEF CallStates, Shows, Asks
<1> QED
  BY <1>2, <1>3, BusyCall DEF Become

LEMMA BusyReturn ==
  ASSUME TypeInv, BusyInv, UNCHANGED page, NEW c \in Calls,
         NEW pc \in {"answered", "failed"}, NEW k, NEW says, Return(c, pc, k, says)
  PROVE  BusyInv'
<1>1. calls[c] \in CallStates
  BY CallFields
<1>2. PICK call : call = IF calls[c].pc = "orphan" THEN IdleCall
                         ELSE [calls[c] EXCEPT !.pc = pc, !.tid = k, !.says = says]
  OBVIOUS
<1>3. (Shows(calls[c]) => Shows(call)) /\ (Asks(calls[c]) => Asks(call))
  BY <1>1, <1>2 DEF CallStates, Shows, Asks
<1> QED
  BY <1>2, <1>3, BusyCall DEF Return

\* A request that leaves the page takes an indicator away.
LEMMA BusyEnd ==
  ASSUME TypeInv, BusyInv, NEW c \in Calls, Shows(calls[c]),
         calls' = [calls EXCEPT ![c] = IdleCall],
         page'.typing = Fewer(page.typing),
         page'.busy => page.busy /\ ~Asks(calls[c])
  PROVE  BusyInv'
<1>1. \A d \in Calls : calls'[d] = IF d = c THEN IdleCall ELSE calls[d]
  BY DEF TypeInv, CallsInv
<1>2. Typists' = Typists \ {c} /\ c \in Typists
  BY <1>1 DEF Typists, Shows, IdleCall
<1>3. Cardinality(Typists') = Cardinality(Typists) - 1
  BY <1>2, TypistsFinite, FS_RemoveElement
<1>4. page.typing \in Nat /\ page.typing <= Cardinality(Typists)
  BY DEF TypeInv, PageInv, GoodPage, Pages, BusyInv
<1>5. page'.typing <= Cardinality(Typists')
  BY <1>3, <1>4, TypistsFinite DEF Fewer
<1>6. page'.busy => \E d \in Calls : Asks(calls'[d])
  BY <1>1 DEF BusyInv
<1> QED
  BY <1>5, <1>6 DEF BusyInv

LEMMA BusyNext == TypeInv /\ BusyInv /\ [Next]_vars => BusyInv'
<1> SUFFICES ASSUME TypeInv, BusyInv, [Next]_vars PROVE BusyInv'
  OBVIOUS
<1>1. DOMAIN calls = Calls /\ (\A c \in Calls : calls[c] \in CallStates)
      /\ page \in Pages /\ page.typing \in Nat /\ page.typing <= Cardinality(Typists)
  BY CallFields DEF TypeInv, CallsInv, PageInv, GoodPage, Pages, BusyInv
<1>2. ASSUME NEW c \in Calls, Send(c) PROVE BusyInv'
  <2>1. PICK call :
          call = [IdleCall EXCEPT !.pc  = IF token = "none" THEN "token" ELSE "posted",
                             !.msg = spent.sends + 1, !.tid = page.current,
                             !.tok = token]
    OBVIOUS
  <2>2. calls' = [calls EXCEPT ![c] = call] /\ calls[c].pc = "idle"
    BY <1>2, <2>1 DEF Send
  <2>3. \A d \in Calls : calls'[d] = IF d = c THEN call ELSE calls[d]
    BY <1>1, <2>2
  <2>4. Shows(call) /\ Asks(call) /\ ~Shows(calls[c])
    BY <2>1, <2>2 DEF Shows, Asks, IdleCall
  <2>5. Typists' = Typists \cup {c} /\ c \notin Typists
    BY <2>3, <2>4 DEF Typists
  <2>6. Cardinality(Typists') = Cardinality(Typists) + 1
    BY <2>5, TypistsFinite, FS_AddElement
  <2>7. page'.typing = page.typing + 1
    BY <1>1, <1>2 DEF Send, Pages
  <2>8. page'.typing <= Cardinality(Typists')
    BY <1>1, <2>6, <2>7, TypistsFinite
  <2>9. \E d \in Calls : Asks(calls'[d])
    BY <2>3, <2>4
  <2> QED
    BY <2>8, <2>9 DEF BusyInv
<1>3. ASSUME NEW c \in Calls, NEW k \in listed, OpenTicket(c, k) PROVE BusyInv'
  <2>1. PICK call : call = [IdleCall EXCEPT !.what = "load", !.pc = "posted", !.tid = k]
    OBVIOUS
  <2>2. calls' = [calls EXCEPT ![c] = call] /\ calls[c].pc = "idle"
    BY <1>3, <2>1 DEF OpenTicket
  <2>3. \A d \in Calls : calls'[d] = IF d = c THEN call ELSE calls[d]
    BY <1>1, <2>2
  <2>4. Shows(call) /\ ~Asks(calls[c])
    BY <2>1, <2>2 DEF Shows, Asks, IdleCall
  <2>5. c \in Typists'
    BY <2>3, <2>4 DEF Typists
  <2>6. Cardinality(Typists') # 0
    BY <2>5, TypistsFinite, FS_EmptySet
  <2>7. page'.typing = 1 /\ page'.busy = page.busy
    BY <1>1, <1>3 DEF OpenTicket, Pages
  <2>8. page'.typing <= Cardinality(Typists')
    BY <2>6, <2>7, TypistsFinite
  <2>9. page'.busy => \E d \in Calls : Asks(calls'[d])
    BY <2>3, <2>4, <2>7 DEF BusyInv
  <2> QED
    BY <2>8, <2>9 DEF BusyInv
<1>4. ASSUME NEW c \in Calls, TokenReturns(c) PROVE BusyInv'
  <2>1. PICK call :
          call = [calls[c] EXCEPT !.pc  = IF @ = "token" THEN "posted" ELSE "reposted",
                                  !.tok = token']
    OBVIOUS
  <2>2. calls' = [calls EXCEPT ![c] = call] /\ UNCHANGED page
    BY <1>1, <1>4, <2>1 DEF TokenReturns
  <2>3. (Shows(calls[c]) => Shows(call)) /\ (Asks(calls[c]) => Asks(call))
    BY <1>1, <2>1 DEF CallStates, Shows, Asks
  <2> QED
    BY <2>2, <2>3, BusyCall
<1>5. ASSUME NEW c \in Calls, Refuse(c) \/ Retry(c) \/ Lost(c) \/ Stage2Raises(c)
      PROVE  BusyInv'
  <2>1. UNCHANGED page
    BY <1>5 DEF Refuse, Retry, Lost, Stage2Raises
  <2>2. PICK pc \in {"refused", "failed", "idle", "retoken", "answered"} :
          Become(c, pc) /\ (pc = "idle" => calls[c].pc = "orphan")
    BY <1>5 DEF Refuse, Retry, Lost, Stage2Raises
  <2> QED
    BY <2>1, <2>2, BusyBecome
<1>6. ASSUME NEW c \in Calls,
             AnswerTooLong(c) \/ LookupRaises(c) \/ HandleChat(c) \/ ServeStage2(c)
      PROVE  BusyInv'
  <2>1. UNCHANGED page
    BY <1>6 DEF AnswerTooLong, LookupRaises, HandleChat, ServeStage2
  <2>2. PICK pc, k, says : pc \in {"answered", "failed"} /\ Return(c, pc, k, says)
    BY <1>6 DEF AnswerTooLong, LookupRaises, HandleChat, ServeStage2
  <2> QED
    BY <2>1, <2>2, BusyReturn
<1>7. ASSUME NEW c \in Calls, ServeTicket(c) PROVE BusyInv'
  <2>1. CASE calls[c].tid = Nowhere
    <3>1. Become(c, "failed") /\ UNCHANGED page
      BY <1>7, <2>1 DEF ServeTicket
    <3> QED
      BY <3>1, BusyBecome
  <2>2. CASE calls[c].tid # Nowhere
    <3>1. PICK call : call = [calls[c] EXCEPT !.pc = "answered",
                                              !.says = status[calls[c].tid]]
      OBVIOUS
    <3>2. calls' = [calls EXCEPT ![c] = call] /\ UNCHANGED page
      BY <1>1, <1>7, <2>2, <3>1 DEF ServeTicket
    <3>3. (Shows(calls[c]) => Shows(call)) /\ (Asks(calls[c]) => Asks(call))
      BY <1>1, <3>1 DEF CallStates, Shows, Asks
    <3> QED
      BY <3>2, <3>3, BusyCall
  <2> QED
    BY <2>1, <2>2
<1>8. ASSUME NEW c \in Calls,
             ChatAnswered(c) \/ ChatFailed(c) \/ TicketLoaded(c) \/ LoadFailed(c)
      PROVE  BusyInv'
  <2>1. calls' = [calls EXCEPT ![c] = IdleCall] /\ Shows(calls[c])
    BY <1>8 DEF ChatAnswered, ChatFailed, TicketLoaded, LoadFailed, Shows
  <2>2. page'.typing = Fewer(page.typing)
        /\ (page'.busy => page.busy /\ ~Asks(calls[c]))
    <3>1. CASE ChatAnswered(c)
      BY <1>1, <3>1 DEF ChatAnswered, Enabled, TypingOff, Headed, Pages
    <3>2. CASE ChatFailed(c)
      BY <1>1, <3>2 DEF ChatFailed, Enabled, TypingOff, Pages
    <3>3. CASE TicketLoaded(c)
      BY <1>1, <3>3 DEF TicketLoaded, TypingOff, Headed, Pages, Asks
    <3>4. CASE LoadFailed(c)
      BY <1>1, <3>4 DEF LoadFailed, TypingOff, Pages, Asks
    <3> QED
      BY <1>8, <3>1, <3>2, <3>3, <3>4
  <2> QED
    BY <2>1, <2>2, BusyEnd
<1>9. ASSUME NEW c \in Calls,
             TimelineAsked(c) \/ Stage2Done(c) \/ Stage2Failed(c)
             \/ AnswerResolution(c) \/ AnswerTimeline(c)
      PROVE  BusyInv'
  <2>1. PICK call : calls' = [calls EXCEPT ![c] = call]
    BY <1>9 DEF TimelineAsked, Stage2Done, Stage2Failed, AnswerResolution,
                AnswerTimeline, Click
  <2>2. ~Shows(calls[c]) /\ ~Asks(calls[c])
    BY <1>9 DEF TimelineAsked, Stage2Done, Stage2Failed, AnswerResolution,
                AnswerTimeline, Click, Shows, Asks
  <2>3. \A d \in Calls : calls'[d] = IF d = c THEN call ELSE calls[d]
    BY <1>1, <2>1
  <2>4. page'.typing = page.typing /\ page'.busy = page.busy
    <3>1. CASE Stage2Done(c)
      BY <1>1, <3>1 DEF Stage2Done, Stage2Headed, Headed, Pages
    <3>2. CASE ~Stage2Done(c)
      BY <1>9, <3>2 DEF TimelineAsked, Stage2Failed, AnswerResolution,
                        AnswerTimeline, Click
    <3> QED
      BY <3>1, <3>2
  <2> QED
    BY <2>2, <2>3, <2>4, BusyKept
<1>10. CASE Reload
  <2>1. page'.typing = 0 /\ ~page'.busy
    BY <1>10 DEF Reload, FreshPage
  <2> QED
    BY <2>1, TypistsFinite DEF BusyInv
<1>11. CASE NewConversation \/ Listing \/ TokenExpires
            \/ (\E k \in Tickets : JobMoves(k)) \/ UNCHANGED vars
  <2>1. UNCHANGED calls
    BY <1>11 DEF NewConversation, Listing, ListTokenReturns, ServeList, ListReturns,
                 ListRefused, TokenExpires, JobMoves, vars
  <2>2. page'.busy = page.busy /\ (page'.typing = page.typing \/ page'.typing = 0)
    BY <1>1, <1>11
       DEF NewConversation, Listing, ListTokenReturns, ServeList, ListReturns,
           ListRefused, TokenExpires, JobMoves, vars, Pages
  <2> QED
    BY <2>1, <2>2, BusyKept
<1>12. ASSUME NEW c \in Calls, User(c) \/ Progress(c) PROVE BusyInv'
  BY <1>2, <1>3, <1>4, <1>5, <1>6, <1>7, <1>8, <1>9, <1>12 DEF User, Progress
<1> QED
  BY <1>5, <1>6, <1>10, <1>11, <1>12 DEF Next

\* Whatever the order of answers, of cleared areas and of opened tickets: with no
\* chat request and no load under way nothing on the page says that there is one.
THEOREM NobodyWaitsForNothing == Spec => []TypingOnlyWhileBusy
<1>1. Init => BusyInv
  BY TypistsFinite DEF Init, BusyInv, FreshPage
<1> QED
  BY <1>1, BusyNext, BusyImplies, TypeInvariant, PTL DEF Spec

-----------------------------------------------------------------------------
(* The page of a patient user.  Who waits until the page has finished has  *)
(* at most one request under way, and none while the sidebar is loaded;    *)
(* reloading then leaves no request behind.                                *)

ListDone == listing.pc \in {"idle", "refused"}

AloneInv ==
  patient => \A c \in Calls : calls[c].pc # "idle" =>
    /\ calls[c].pc # "orphan" /\ ListDone
    /\ \A d \in Calls : d # c => calls[d].pc = "idle"

\* The steps in which a request goes on and the page shows nothing new.
Goes(c) ==
  \/ TokenReturns(c) \/ Refuse(c) \/ Retry(c) \/ Lost(c)
  \/ AnswerTooLong(c) \/ LookupRaises(c) \/ HandleChat(c)
  \/ ServeTicket(c) \/ ServeStage2(c) \/ Stage2Raises(c)

\* The steps in which the page goes on with what came back.
Ends(c) ==
  \/ ChatAnswered(c) \/ ChatFailed(c) \/ TicketLoaded(c) \/ LoadFailed(c)
  \/ TimelineAsked(c) \/ Stage2Done(c) \/ Stage2Failed(c)

\* A request of the page that goes on remains that request.  Its ticket changes
\* only when a request without a ticket is answered with one.
GoesOn(call, new) ==
  /\ call.pc # "idle" /\ new.pc \notin {"idle", "orphan"}
  /\ new.what = call.what /\ new.msg = call.msg
  /\ \/ new.tid = call.tid
     \/ Waits(call) /\ call.tid = Null /\ new.pc = "answered"
  /\ call.pc \in {"answered", "failed"} => new.pc \in {"answered", "failed"}

LEMMA GoesToPc ==
  ASSUME NEW call \in CallStates, NEW pc \in {"posted", "refused", "retoken",
           "reposted", "answered", "failed"},
         call.pc # "idle",
         call.pc \in {"answered", "failed"} => pc \in {"answered", "failed"}
  PROVE  GoesOn(call, [call EXCEPT !.pc = pc])
<1>1. PICK new : new = [call EXCEPT !.pc = pc]
  OBVIOUS
<1>2. new.pc = pc /\ new.what = call.what /\ new.msg = call.msg /\ new.tid = call.tid
  BY <1>1 DEF CallStates
<1>3. GoesOn(call, new)
  BY <1>2 DEF GoesOn
<1> QED
  BY <1>1, <1>3

LEMMA GoesOnWith ==
  ASSUME TypeInv, NEW c \in Calls, calls[c].pc # "orphan", Goes(c)
  PROVE  /\ \E new : calls' = [calls EXCEPT ![c] = new] /\ GoesOn(calls[c], new)
         /\ UNCHANGED <<patient, page, area, listed, listing>>
<1>1. calls[c] \in CallStates
  BY CallFields
<1>2. UNCHANGED <<patient, page, area, listed, listing>>
  BY DEF Goes, TokenReturns, Refuse, Retry, Lost, AnswerTooLong, LookupRaises,
         HandleChat, ServeTicket, ServeStage2, Stage2Raises
<1>3. CASE Refuse(c) \/ Retry(c) \/ Lost(c) \/ Stage2Raises(c)
           \/ (ServeTicket(c) /\ calls[c].tid = Nowhere)
  <2>1. PICK pc \in {"refused", "failed", "retoken", "answered"} :
          /\ Become(c, pc) /\ calls[c].pc # "idle"
          /\ calls[c].pc \in {"answered", "failed"} => pc \in {"answered", "failed"}
    BY <1>1, <1>3 DEF Refuse, Retry, Lost, Stage2Raises, ServeTicket, CallStates
  <2>2. GoesOn(calls[c], [calls[c] EXCEPT !.pc = pc])
    BY <1>1, <2>1, GoesToPc
  <2> QED
    BY <1>2, <2>1, <2>2 DEF Become
<1>4. CASE TokenReturns(c)
  <2>1. PICK new :
          new = [calls[c] EXCEPT !.pc  = IF @ = "token" THEN "posted" ELSE "reposted",
                                 !.tok = token']
    OBVIOUS
  <2>2. calls' = [calls EXCEPT ![c] = new]
    BY <1>1, <1>4, <2>1 DEF TokenReturns, TypeInv, CallsInv
  <2>3. /\ new.pc \in {"posted", "reposted"} /\ new.what = calls[c].what
        /\ new.msg = calls[c].msg /\ new.tid = calls[c].tid
        /\ calls[c].pc \in {"token", "retoken"}
    BY <1>1, <1>4, <2>1 DEF TokenReturns, CallStates
  <2>4. GoesOn(calls[c], new)
    BY <2>3 DEF GoesOn
  <2> QED
    BY <1>2, <2>2, <2>4
<1>5. CASE ServeTicket(c) /\ calls[c].tid # Nowhere
  <2>1. PICK new : new = [calls[c] EXCEPT !.pc = "answered",
                                          !.says = status[calls[c].tid]]
    OBVIOUS
  <2>2. calls' = [calls EXCEPT ![c] = new]
    BY <1>1, <1>5, <2>1 DEF ServeTicket, TypeInv, CallsInv
  <2>3. /\ new.pc = "answered" /\ new.what = calls[c].what
        /\ new.msg = calls[c].msg /\ new.tid = calls[c].tid
        /\ calls[c].pc = "posted"
    BY <1>1, <1>5, <2>1 DEF ServeTicket, CallStates
  <2>4. GoesOn(calls[c], new)
    BY <2>3 DEF GoesOn
  <2> QED
    BY <1>2, <2>2, <2>4
<1>6. CASE AnswerTooLong(c) \/ LookupRaises(c) \/ HandleChat(c) \/ ServeStage2(c)
  <2>1. PICK pc, k, says :
          /\ pc \in {"answered", "failed"}
          /\ Return(c, pc, k, says)
          /\ calls[c].pc \in {"posted", "reposted"}
          /\ \/ k = calls[c].tid
             \/ Waits(calls[c]) /\ calls[c].tid = Null /\ pc = "answered"
    <3>0. Serving(c) => Waits(calls[c]) /\ calls[c].pc \in {"posted", "reposted"}
      BY DEF Serving, Waits
    <3>1. CASE AnswerTooLong(c)
      <4>1. CASE calls[c].tid = Null
        BY <3>0, <3>1, <4>1 DEF AnswerTooLong
      <4>2. CASE calls[c].tid # Null
        BY <3>0, <3>1, <4>2 DEF AnswerTooLong
      <4> QED
        BY <4>1, <4>2
    <3>2. CASE LookupRaises(c)
      BY <3>0, <3>2 DEF LookupRaises
    <3>3. CASE HandleChat(c)
      <4>1. PICK k, s :
              /\ calls[c].tid = Null \/ k = calls[c].tid
              /\ \/ Return(c, "answered", k, s)
                 \/ Return(c, "failed", calls[c].tid, Null)
        BY <3>3 DEF HandleChat
      <4>2. CASE Return(c, "failed", calls[c].tid, Null)
        BY <3>0, <3>3, <4>2 DEF HandleChat
      <4>3. CASE Return(c, "answered", k, s)
        BY <3>0, <3>3, <4>1, <4>3 DEF HandleChat
      <4> QED
        BY <4>1, <4>2, <4>3
    <3>4. CASE ServeStage2(c)
      BY <3>4 DEF ServeStage2
    <3> QED
      BY <1>6, <3>1, <3>2, <3>3, <3>4
  <2>2. PICK new : new = [calls[c] EXCEPT !.pc = pc, !.tid = k, !.says = says]
    OBVIOUS
  <2>3. calls' = [calls EXCEPT ![c] = new]
    BY <2>1, <2>2 DEF Return
  <2>4. GoesOn(calls[c], new)
    BY <1>1, <2>1, <2>2 DEF CallStates, GoesOn
  <2> QED
    BY <1>2, <2>3, <2>4
<1> QED
  BY <1>3, <1>4, <1>5, <1>6 DEF Goes

\* When the user may act, or a request has ended, nothing else is under way.
Resting == \A c \in Calls : calls[c].pc = "idle"

LEMMA ActsAtRest ==
  ASSUME AloneInv, patient, MayAct
  PROVE  Resting /\ ListDone
BY DEF AloneInv, MayAct, PageIdle, AtPage, Resting, ListDone

LEMMA OthersRest ==
  ASSUME TypeInv, AloneInv, patient, NEW c \in Calls, calls[c].pc # "idle" \/ Resting,
         NEW new, calls' = [calls EXCEPT ![c] = new]
  PROVE  /\ calls'[c] = new
         /\ \A d \in Calls : d # c => calls'[d] = calls[d] /\ calls'[d].pc = "idle"
BY DEF TypeInv, CallsInv, AloneInv, Resting

LEMMA EndsAtRest ==
  ASSUME TypeInv, AloneInv, patient, NEW c \in Calls, Ends(c)
  PROVE  /\ Resting' /\ patient' /\ listing' = listing /\ UNCHANGED <<token, server, spent>>
         /\ calls[c].pc \notin {"idle", "orphan"} /\ ListDone
<1>1. /\ calls' = [calls EXCEPT ![c] = IdleCall]
      /\ UNCHANGED <<patient, listing, token, server, spent>>
      /\ calls[c].pc \notin {"idle", "orphan"}
  BY DEF Ends, ChatAnswered, ChatFailed, TicketLoaded, LoadFailed, TimelineAsked,
         Stage2Done, Stage2Failed
<1>2. PICK new : new = IdleCall
  OBVIOUS
<1>3. calls'[c] = new /\ \A d \in Calls : d # c => calls'[d].pc = "idle"
  BY <1>1, <1>2, OthersRest
<1>4. new.pc = "idle"
  BY <1>2 DEF IdleCall
<1>5. \A d \in Calls : calls'[d].pc = "idle"
  BY <1>3, <1>4
<1> QED
  BY <1>1, <1>5 DEF Resting, AloneInv, ListDone

\* The requests that the user starts.
LEMMA StartsAlone ==
  ASSUME TypeInv, AloneInv, patient, NEW c \in Calls, User(c)
  PROVE  /\ Resting /\ ListDone /\ patient' /\ UNCHANGED <<listing, listed, token, server>>
         /\ \E new : calls' = [calls EXCEPT ![c] = new] /\ new.pc \in {"token", "posted"}
<1>1. ASSUME Send(c)
      PROVE  \E new : calls' = [calls EXCEPT ![c] = new] /\ new.pc \in {"token", "posted"}
  <2>1. PICK new :
          new = [IdleCall EXCEPT !.pc  = IF token = "none" THEN "token" ELSE "posted",
                             !.msg = spent.sends + 1, !.tid = page.current, !.tok = token]
    OBVIOUS
  <2>2. calls' = [calls EXCEPT ![c] = new]
    BY <1>1, <2>1 DEF Send
  <2>3. new.pc \in {"token", "posted"}
    BY <2>1 DEF IdleCall
  <2> QED
    BY <2>2, <2>3
<1>2. ASSUME NEW k \in listed, OpenTicket(c, k)
      PROVE  \E new : calls' = [calls EXCEPT ![c] = new] /\ new.pc \in {"token", "posted"}
  <2>1. PICK new : new = [IdleCall EXCEPT !.what = "load", !.pc = "posted", !.tid = k]
    OBVIOUS
  <2>2. calls' = [calls EXCEPT ![c] = new] /\ new.pc = "posted"
    BY <1>2, <2>1 DEF OpenTicket, IdleCall
  <2> QED
    BY <2>2
<1>3. ASSUME NEW i, NEW what, NEW says, Click(c, i, what, says)
      PROVE  \E new : calls' = [calls EXCEPT ![c] = new] /\ new.pc \in {"token", "posted"}
  <2>1. PICK new : new = [IdleCall EXCEPT !.what = what, !.pc = "posted", !.tid = i.of,
                                          !.msg = i.msg, !.says = says]
    OBVIOUS
  <2>2. calls' = [calls EXCEPT ![c] = new] /\ new.pc = "posted"
    BY <1>3, <2>1 DEF Click, IdleCall
  <2> QED
    BY <2>2
<1>4. MayAct /\ UNCHANGED <<patient, listing, listed, token, server>>
  BY DEF User, Send, OpenTicket, AnswerResolution, AnswerTimeline, Click
<1>5. \/ Send(c) \/ (\E k \in listed : OpenTicket(c, k))
      \/ \E i, what, says : Click(c, i, what, says)
  BY DEF User, AnswerResolution, AnswerTimeline
<1> QED
  BY <1>1, <1>2, <1>3, <1>4, <1>5, ActsAtRest

\* What happens without a request: calls stay, or are all dropped.
Apart == \/ NewConversation \/ Reload \/ Listing \/ TokenExpires
         \/ (\E k \in Tickets : JobMoves(k)) \/ UNCHANGED vars

LEMMA NextParts ==
  ASSUME [Next]_vars
  PROVE  Apart \/ \E c \in Calls : User(c) \/ Goes(c) \/ Ends(c)
BY DEF Next, Progress, Apart, Goes, Ends

\* Starting over and reloading leave nothing behind.
LEMMA ClearsAtRest ==
  ASSUME Resting, NewConversation \/ Reload
  PROVE  Resting' /\ \A c \in Calls : calls'[c].pc = "idle"
<1>1. CASE NewConversation
  BY <1>1 DEF NewConversation, Resting
<1>2. CASE Reload
  <2>1. calls' = [c \in Calls |-> IdleCall]
    BY <1>2 DEF Reload, Resting
  <2> QED
    BY <2>1 DEF IdleCall, Resting
<1> QED
  BY <1>1, <1>2

LEMMA PatientStays ==
  ASSUME [Next]_vars
  PROVE  patient' = patient
BY NextParts
   DEF Apart, User, Send, OpenTicket, AnswerResolution, AnswerTimeline, Click, Goes,
         TokenReturns, Refuse, Retry, Lost, AnswerTooLong, LookupRaises, HandleChat,
         ServeTicket, ServeStage2, Stage2Raises, Ends, ChatAnswered, ChatFailed,
         TicketLoaded, LoadFailed, TimelineAsked, Stage2Done, Stage2Failed, Listing,
         ListTokenReturns, ServeList, ListReturns, ListRefused, Reload,
         NewConversation, TokenExpires, JobMoves, vars

LEMMA AloneNext == TypeInv /\ AloneInv /\ [Next]_vars => AloneInv'
<1> SUFFICES ASSUME TypeInv, AloneInv, [Next]_vars, patient' PROVE AloneInv'
  BY DEF AloneInv
<1>1. ASSUME NEW c \in Calls, Goes(c), patient PROVE AloneInv'
  <2>1. calls[c].pc # "orphan"
    BY <1>1 DEF AloneInv
  <2>2. PICK new : calls' = [calls EXCEPT ![c] = new] /\ GoesOn(calls[c], new)
    BY <1>1, <2>1, GoesOnWith
  <2>3. calls[c].pc # "idle" /\ new.pc \notin {"idle", "orphan"} /\ listing' = listing
    BY <1>1, <2>1, <2>2, GoesOnWith DEF GoesOn
  <2>4. /\ calls'[c] = new
        /\ \A d \in Calls : d # c => calls'[d].pc = "idle"
    BY <1>1, <2>2, <2>3, OthersRest
  <2>5. ListDone'
    BY <1>1, <2>3 DEF AloneInv, ListDone
  <2> QED
    BY <2>3, <2>4, <2>5 DEF AloneInv
<1>2. ASSUME NEW c \in Calls, Ends(c), patient PROVE AloneInv'
  <2>1. \A d \in Calls : calls'[d].pc = "idle"
    BY <1>2, EndsAtRest DEF Resting
  <2> QED
    BY <2>1 DEF AloneInv
<1>3. ASSUME NEW c \in Calls, User(c), patient PROVE AloneInv'
  <2>1. PICK new : calls' = [calls EXCEPT ![c] = new] /\ new.pc \in {"token", "posted"}
    BY <1>3, StartsAlone
  <2>2. Resting /\ ListDone'
    BY <1>3, StartsAlone DEF ListDone
  <2>3. /\ calls'[c] = new
        /\ \A d \in Calls : d # c => calls'[d].pc = "idle"
    BY <1>3, <2>1, <2>2, OthersRest
  <2> QED
    BY <2>1, <2>2, <2>3 DEF AloneInv
<1>4. CASE Listing
  <2>1. UNCHANGED calls /\ listing.pc \in {"token", "asked", "answered"} /\ patient' = patient
    BY <1>4 DEF Listing, ListTokenReturns, ServeList, ListReturns, ListRefused
  <2>2. \A c \in Calls : calls'[c].pc = "idle"
    BY <2>1 DEF AloneInv, ListDone
  <2> QED
    BY <2>2 DEF AloneInv
<1>5. CASE Reload
  <2>1. Resting
    BY <1>5, ActsAtRest DEF Reload
  <2>2. calls' = [c \in Calls |-> IdleCall]
    BY <1>5, <2>1 DEF Reload, Resting
  <2>3. \A c \in Calls : calls'[c].pc = "idle"
    BY <2>2 DEF IdleCall
  <2> QED
    BY <2>3 DEF AloneInv
<1>6. CASE NewConversation \/ TokenExpires \/ (\E k \in Tickets : JobMoves(k))
           \/ UNCHANGED vars
  <2>1. UNCHANGED <<patient, calls, listing>>
    BY <1>6 DEF NewConversation, TokenExpires, JobMoves, vars
  <2> QED
    BY <2>1 DEF AloneInv, ListDone
<1>7. patient' = patient
  BY PatientStays
<1> QED
  BY <1>1, <1>2, <1>3, <1>4, <1>5, <1>6, <1>7, NextParts DEF Apart

-----------------------------------------------------------------------------
(* Everything shown is of the current ticket, and a request is about it;   *)
(* only the answer to the first message may name a ticket the page does    *)
(* not know yet.                                                           *)

NoError       == \A i \in area : i.kind # "error"
HeaderCurrent == page.current = IF page.header = Null THEN Null ELSE page.header.of

About(call) ==
  \/ call.tid = page.current
  \/ page.current = Null /\ call.what = "chat" /\ call.pc \in {"answered", "failed"}

ShownInv ==
  patient =>
    /\ \A i \in area : i.of \in {page.current, Null}
    /\ \A c \in Calls : calls[c].pc # "idle" => About(calls[c])
    /\ (\A c \in Calls : calls[c].pc # "idle" => calls[c].what # "load") /\ NoError
         => HeaderCurrent

LEMMA ShownImplies == AloneInv /\ ShownInv => ShownIsCurrent
<1> SUFFICES ASSUME AloneInv, ShownInv, patient, PageIdle
             PROVE  /\ \A i \in area : i.of \in {page.current, Null}
                    /\ NoError => HeaderCurrent
  BY DEF ShownIsCurrent, NoError, HeaderCurrent
<1>1. \A c \in Calls : calls[c].pc = "idle"
  BY DEF AloneInv, PageIdle, AtPage
<1> QED
  BY <1>1 DEF ShownInv

\* A header is never the header of a new ticket.
LEMMA HeadedFields ==
  ASSUME TypeInv, NEW k \in Ids, NEW s \in Statuses \cup {"error"},
         NEW p, p \in {Headed(k, s), TypingOff(Headed(k, s)),
                       Enabled(TypingOff(Headed(k, s)))}
  PROVE  /\ p.current = k /\ p.header # Null
         /\ p.header.of = k /\ p.header.shows = s
<1>1. page \in Pages
  BY DEF TypeInv, PageInv, GoodPage
<1>2. PICK head \in Headers : head = [of |-> k, shows |-> s]
  BY DEF Headers
<1>3. Headed(k, s) = [page EXCEPT !.current = k, !.header = head]
  BY <1>2 DEF Headed
<1>4. Headed(k, s).current = k /\ Headed(k, s).header = head /\ Headed(k, s) \in Pages
  BY <1>1, <1>3 DEF Pages
<1>5. \A q \in Pages : /\ TypingOff(q) \in Pages /\ Enabled(q) \in Pages
                       /\ TypingOff(q).current = q.current /\ TypingOff(q).header = q.header
                       /\ Enabled(q).current = q.current /\ Enabled(q).header = q.header
  <2> TAKE q \in Pages
  <2>1. Fewer(q.typing) \in Nat
    BY DEF Pages, Fewer
  <2> QED
    BY <2>1 DEF TypingOff, Enabled, Pages
<1>6. p.current = k /\ p.header = head
  BY <1>4, <1>5
<1> QED
  BY <1>2, <1>6, HeadersAssumption

\* The page after a failure.
LEMMA UnheadedFields ==
  ASSUME TypeInv, NEW p, p \in {TypingOff(page), Enabled(TypingOff(page))}
  PROVE  p.current = page.current /\ p.header = page.header
BY DEF TypeInv, PageInv, GoodPage, Pages, TypingOff, Enabled

\* What is shown of an answer, and what takes the place of an answered prompt.
LEMMA ItemFields ==
  ASSUME NEW kind, NEW of, NEW msg
  PROVE  /\ Item(kind, of, msg).kind = kind /\ Item(kind, of, msg).of = of
         /\ Item(kind, of, msg).msg = msg
BY DEF Item

\* The prompt of a request is replaced by an item of the same ticket and message.
LEMMA ReplaceShows ==
  ASSUME TypeInv, NEW c \in Calls, NEW kind, Replace(c, kind)
  PROVE  LET old == Item("waiting", calls[c].tid, calls[c].msg)
             new == Item(kind, calls[c].tid, calls[c].msg)
         IN  area' = IF old \in area THEN (area \ {old}) \cup {new} ELSE area
<1>1. PICK old : old = Item("waiting", calls[c].tid, calls[c].msg)
  OBVIOUS
<1>2. [old EXCEPT !.kind = kind] = Item(kind, calls[c].tid, calls[c].msg)
  BY <1>1 DEF Item
<1> QED
  BY <1>1, <1>2 DEF Replace

\* A click makes a prompt a waiting one, and posts a request about it.
LEMMA ClickShows ==
  ASSUME TypeInv, NEW c \in Calls, AnswerResolution(c) \/ AnswerTimeline(c)
  PROVE  \E i, new :
           /\ i \in area
           /\ i.kind \in {"prompt", "timeline"} /\ i.of \in Ids /\ i \in Items
           /\ area' = (area \ {i}) \cup {Item("waiting", i.of, i.msg)}
           /\ calls' = [calls EXCEPT ![c] = new]
           /\ new.what = IF i.kind = "prompt" THEN "resolution" ELSE "timeline"
           /\ new.pc = "posted" /\ new.tid = i.of /\ new.msg = i.msg
           /\ UNCHANGED <<patient, page, listed, listing, token, server, spent>>
<1>1. PICK i, what, says :
        /\ i \in area /\ Click(c, i, what, says)
        /\ i.kind \in {"prompt", "timeline"}
        /\ what = IF i.kind = "prompt" THEN "resolution" ELSE "timeline"
  BY DEF AnswerResolution, AnswerTimeline
<1>2. i \in Items /\ i.of \in Ids
  BY <1>1 DEF TypeInv, PageInv, GoodItem
<1>3. [i EXCEPT !.kind = "waiting"] = Item("waiting", i.of, i.msg)
  BY <1>2 DEF Items, Item
<1>4. PICK new : new = [IdleCall EXCEPT !.what = what, !.pc = "posted", !.tid = i.of,
                                        !.msg = i.msg, !.says = says]
  OBVIOUS
<1>5. new.what = what /\ new.pc = "posted" /\ new.tid = i.of /\ new.msg = i.msg
  BY <1>4 DEF IdleCall
<1>6. /\ area' = (area \ {i}) \cup {Item("waiting", i.of, i.msg)}
      /\ calls' = [calls EXCEPT ![c] = new]
      /\ UNCHANGED <<patient, page, listed, listing, token, server, spent>>
  BY <1>1, <1>3, <1>4 DEF Click
<1> QED
  BY <1>1, <1>2, <1>5, <1>6

LEMMA ShownNext == TypeInv /\ AloneInv /\ ShownInv /\ [Next]_vars => ShownInv'
<1> SUFFICES ASSUME TypeInv, AloneInv, ShownInv, [Next]_vars, patient' PROVE ShownInv'
  BY DEF ShownInv
<1>1. patient
  BY PatientStays
<1>2. /\ \A i \in area : i.of \in {page.current, Null}
      /\ \A c \in Calls : calls[c].pc # "idle" => About(calls[c])
      /\ (\A c \in Calls : calls[c].pc # "idle" => calls[c].what # "load") /\ NoError
           => HeaderCurrent
  BY <1>1 DEF ShownInv
<1>3. \A c \in Calls : /\ calls[c] \in CallStates /\ GoodCall(calls[c])
                       /\ calls[c].pc # "orphan"
                       /\ calls[c].pc # "idle" =>
                            \A d \in Calls : d # c => calls[d].pc = "idle"
  BY <1>1, CallFields DEF AloneInv
<1>4. ASSUME NEW c \in Calls, Goes(c) PROVE ShownInv'
  <2>1. PICK new : calls' = [calls EXCEPT ![c] = new] /\ GoesOn(calls[c], new)
    BY <1>3, <1>4, GoesOnWith
  <2>2. UNCHANGED <<page, area>> /\ calls[c].pc # "idle"
    BY <1>3, <1>4, <2>1, GoesOnWith DEF GoesOn
  <2>3. calls'[c] = new /\ \A d \in Calls : d # c => calls'[d].pc = "idle"
    BY <1>1, <2>1, <2>2, OthersRest
  <2>4. About(calls[c]) /\ new.what = calls[c].what /\ new.pc # "idle"
    BY <1>2, <2>1, <2>2 DEF GoesOn
  <2>5. About(new)
    <3>1. CASE new.tid = calls[c].tid
      BY <2>1, <2>4, <3>1 DEF About, GoesOn
    <3>2. CASE Waits(calls[c]) /\ calls[c].tid = Null /\ new.pc = "answered"
      BY <2>4, <3>2 DEF About, Waits
    <3> QED
      BY <2>1, <3>1, <3>2 DEF GoesOn
  <2>6. About(new)'
    BY <2>2, <2>3, <2>5 DEF About
  <2> QED
    BY <1>2, <1>3, <2>2, <2>3, <2>4, <2>6, <2>5 DEF ShownInv, NoError, HeaderCurrent, About
<1>5. ASSUME NEW c \in Calls, Ends(c) PROVE ShownInv'
  <2>1. /\ \A d \in Calls : calls'[d].pc = "idle"
        /\ calls[c].pc # "idle" /\ About(calls[c])
    BY <1>1, <1>2, <1>5, EndsAtRest DEF Resting
  <2>2. SUFFICES (\A i \in area' : i.of \in {page'.current, Null})
                 /\ (NoError' => HeaderCurrent')
    BY <2>1 DEF ShownInv
  <2>3. CASE ChatAnswered(c) \/ TicketLoaded(c)
    <3>1. PICK k \in Ids, s \in Statuses \cup {"error"} :
            k = calls[c].tid /\ s = calls[c].says
      BY <1>3, <2>3 DEF ChatAnswered, TicketLoaded, GoodCall
    <3>2. page'.current = k /\ page'.header # Null /\ page'.header.of = k
      <4>1. PICK p : p = page'
        OBVIOUS
      <4>2. p \in {TypingOff(Headed(k, s)), Enabled(TypingOff(Headed(k, s)))}
        BY <2>3, <3>1, <4>1 DEF ChatAnswered, TicketLoaded
      <4>3. p.current = k /\ p.header # Null /\ p.header.of = k
        BY <4>2, HeadedFields
      <4> QED
        BY <4>1, <4>3
    <3>3. PICK item : area' = area \cup {item} /\ item.of = k
      <4>1. CASE ChatAnswered(c)
        BY <3>1, <4>1, ItemFields DEF ChatAnswered, Shown
      <4>2. CASE TicketLoaded(c)
        BY <3>1, <4>2, ItemFields DEF TicketLoaded
      <4> QED
        BY <2>3, <4>1, <4>2
    <3>4. page.current \in {k, Null}
      BY <2>1, <3>1 DEF About
    <3> QED
      BY <1>2, <3>2, <3>3, <3>4 DEF HeaderCurrent
  <2>4. CASE ChatFailed(c) \/ LoadFailed(c)
    <3>1. page'.current = page.current
      <4>1. PICK p : p = page'
        OBVIOUS
      <4>2. p \in {TypingOff(page), Enabled(TypingOff(page))}
        BY <2>4, <4>1 DEF ChatFailed, LoadFailed
      <4> QED
        BY <4>1, <4>2, UnheadedFields
    <3>2. PICK item : area' = area \cup {item} /\ item.of = Null /\ item.kind = "error"
      <4>1. CASE ChatFailed(c)
        BY <4>1, ItemFields DEF ChatFailed
      <4>2. CASE LoadFailed(c)
        BY <4>2, ItemFields DEF LoadFailed
      <4> QED
        BY <2>4, <4>1, <4>2
    <3> QED
      BY <1>2, <3>1, <3>2 DEF NoError
  <2>5. CASE TimelineAsked(c) \/ Stage2Done(c) \/ Stage2Failed(c)
    <3>1. PICK kind : Replace(c, kind)
      BY <2>5 DEF TimelineAsked, Stage2Done, Stage2Failed
    <3>2. calls[c].what \in {"resolution", "timeline"}
      BY <2>5 DEF TimelineAsked, Stage2Done, Stage2Failed
    <3>3. PICK k \in Ids : k = calls[c].tid /\ page.current = k
      BY <1>3, <2>1, <3>2 DEF About, GoodCall
    <3>4. PICK old, new : /\ area' = IF old \in area THEN (area \ {old}) \cup {new}
                                     ELSE area
                          /\ old.kind = "waiting" /\ new.of = k
      BY <3>1, <3>3, ReplaceShows, ItemFields
    <3>5. NoError' => NoError
      BY <3>4 DEF NoError
    <3>6. CASE TimelineAsked(c) \/ Stage2Failed(c)
      <4>1. page' = page
        BY <3>6 DEF TimelineAsked, Stage2Failed
      <4>2. \A d \in Calls : calls[d].pc # "idle" => calls[d].what # "load"
        BY <1>3, <2>1, <3>2
      <4> QED
        BY <1>2, <3>3, <3>4, <3>5, <4>1, <4>2 DEF HeaderCurrent
    <3>7. CASE Stage2Done(c)
      <4>1. PICK s \in Statuses : page' = Headed(k, s)
        BY <3>3, <3>7 DEF Stage2Done, Stage2Headed, Statuses
      <4>2. page'.current = k /\ page'.header # Null /\ page'.header.of = k
        BY <4>1, HeadedFields
      <4> QED
        BY <1>2, <3>3, <3>4, <4>2 DEF HeaderCurrent
    <3> QED
      BY <2>5, <3>6, <3>7
  <2> QED
    BY <1>5, <2>3, <2>4, <2>5 DEF Ends
<1>6. ASSUME NEW c \in Calls, User(c) PROVE ShownInv'
  <2>1. Resting
    BY <1>1, <1>6, StartsAlone
  <2>2. NoError => HeaderCurrent
    BY <1>2, <2>1 DEF Resting
  <2>3. CASE Send(c)
    <3>1. PICK new :
            new = [IdleCall EXCEPT !.pc  = IF token = "none" THEN "token" ELSE "posted",
                               !.msg = spent.sends + 1, !.tid = page.current, !.tok = token]
      OBVIOUS
    <3>2. calls' = [calls EXCEPT ![c] = new]
      BY <2>3, <3>1 DEF Send
    <3>3. new.what = "chat" /\ new.tid = page.current
      BY <3>1 DEF IdleCall
    <3>4. calls'[c] = new /\ \A d \in Calls : d # c => calls'[d].pc = "idle"
      BY <1>1, <2>1, <3>2, OthersRest
    <3>5. page'.current = page.current /\ page'.header = page.header
      BY <2>3 DEF Send, TypeInv, PageInv, GoodPage, Pages
    <3>6. PICK item : /\ area' = area \cup {item}
                      /\ item.of = page.current /\ item.kind = "question"
      BY <2>3, ItemFields DEF Send
    <3>7. NoError' => HeaderCurrent'
      BY <2>2, <3>5, <3>6 DEF NoError, HeaderCurrent
    <3>8. \A d \in Calls : calls'[d].pc # "idle" => About(calls[d])'
      BY <3>3, <3>4, <3>5 DEF About
    <3>9. \A i \in area' : i.of \in {page'.current, Null}
      BY <1>2, <3>5, <3>6
    <3> QED
      BY <3>7, <3>8, <3>9 DEF ShownInv
  <2>4. ASSUME NEW k \in listed, OpenTicket(c, k) PROVE ShownInv'
    <3>1. PICK new : new = [IdleCall EXCEPT !.what = "load", !.pc = "posted", !.tid = k]
      OBVIOUS
    <3>2. calls' = [calls EXCEPT ![c] = new] /\ area' = {}
      BY <2>4, <3>1 DEF OpenTicket
    <3>3. new.what = "load" /\ new.pc = "posted" /\ new.tid = k
      BY <3>1 DEF IdleCall
    <3>4. calls'[c] = new /\ \A d \in Calls : d # c => calls'[d].pc = "idle"
      BY <1>1, <2>1, <3>2, OthersRest
    <3>5. page'.current = k
      BY <2>4 DEF OpenTicket, TypeInv, PageInv, GoodPage, Pages
    <3> QED
      BY <3>2, <3>3, <3>4, <3>5 DEF ShownInv, About
  <2>5. CASE AnswerResolution(c) \/ AnswerTimeline(c)
    <3>1. PICK i, new :
            /\ i \in area /\ i.kind \in {"prompt", "timeline"} /\ i.of \in Ids
            /\ area' = (area \ {i}) \cup {Item("waiting", i.of, i.msg)}
            /\ calls' = [calls EXCEPT ![c] = new]
            /\ new.what # "load" /\ new.tid = i.of /\ page' = page
      BY <2>5, ClickShows
    <3>2. i.of = page.current
      BY <1>2, <3>1 DEF Ids
    <3>3. calls'[c] = new /\ \A d \in Calls : d # c => calls'[d].pc = "idle"
      BY <1>1, <2>1, <3>1, OthersRest
    <3>4. \A j \in area' : j.of \in {page'.current, Null}
      BY <1>2, <3>1, <3>2, ItemFields
    <3>5. NoError' => NoError
      BY <3>1 DEF NoError
    <3>6. \A d \in Calls : calls'[d].pc # "idle" => About(calls[d])'
      BY <3>1, <3>2, <3>3 DEF About
    <3> QED
      BY <2>2, <3>1, <3>4, <3>5, <3>6 DEF ShownInv, HeaderCurrent
  <2> QED
    BY <1>6, <2>3, <2>4, <2>5 DEF User
<1>7. CASE NewConversation \/ Reload
  <2>1. Resting
    BY <1>1, <1>7, ActsAtRest DEF NewConversation, Reload
  <2>2. \A c \in Calls : calls'[c].pc = "idle"
    BY <1>7, <2>1, ClearsAtRest
  <2>3. area' = {} /\ page'.current = Null /\ page'.header = Null
    <3>1. CASE NewConversation
      <4>1. page \in Pages
        BY DEF TypeInv, PageInv, GoodPage
      <4> QED
        BY <3>1, <4>1 DEF NewConversation, Pages
    <3>2. CASE Reload
      BY <3>2 DEF Reload, FreshPage
    <3> QED
      BY <1>7, <3>1, <3>2
  <2> QED
    BY <2>2, <2>3 DEF ShownInv, HeaderCurrent
<1>8. CASE Listing \/ TokenExpires \/ (\E k \in Tickets : JobMoves(k))
           \/ UNCHANGED vars
  <2>1. UNCHANGED <<page, area, calls>>
    BY <1>8 DEF Listing, ListTokenReturns, ServeList, ListReturns, ListRefused,
                TokenExpires, JobMoves, vars
  <2> QED
    BY <1>2, <2>1 DEF ShownInv, About, NoError, HeaderCurrent
<1> QED
  BY <1>4, <1>5, <1>6, <1>7, <1>8, NextParts DEF Apart

\* The page of a patient user shows one conversation: what is shown is of the
\* ticket that the next message goes to, whichever requests fail and whenever.
THEOREM PatientUserReadsOneTicket == Spec => []ShownIsCurrent
<1>1. Init => AloneInv /\ ShownInv
  BY DEF Init, AloneInv, ShownInv, HeaderCurrent, FreshPage, IdleCall
<1> QED
  BY <1>1, TypeInvariant, AloneNext, ShownNext, ShownImplies, PTL DEF Spec

-----------------------------------------------------------------------------
(* What is shown for a message is of the ticket that took it up, and a     *)
(* chat request under way has nothing shown for it but its question.       *)

TurnOf(m, k) == landed[m] \in {<<>>, <<k>>}

TurnInv ==
  patient =>
    /\ \A i \in area :
         /\ i.msg <= spent.sends
         /\ i.kind = "question" => i.msg \in Messages
         /\ i.kind \notin {"question", "error"} /\ i.msg \in Messages => TurnOf(i.msg, i.of)
    /\ \A c \in Calls : calls[c].pc # "idle" =>
         /\ calls[c].msg <= spent.sends
         /\ calls[c].what = "chat" =>
              /\ calls[c].msg \in Messages
              /\ \A i \in area : i.msg = calls[c].msg => i.kind = "question"
              /\ calls[c].pc = "answered" => TurnOf(calls[c].msg, calls[c].tid)

LEMMA TurnImplies ==
  TypeInv /\ AloneInv /\ ShownInv /\ TurnInv => OneTicketPerConversation
<1> SUFFICES ASSUME TypeInv, ShownInv, TurnInv, patient,
                    \A q \in Questions : landed[q.msg] # <<>> =>
                      \E i \in area : i.msg = q.msg /\ i.kind \notin {"question", "error"},
                    NEW p \in Questions, NEW q \in Questions,
                    landed[p.msg] # <<>>, landed[q.msg] # <<>>
             PROVE  landed[p.msg] = landed[q.msg] /\ (p.of # Null => landed[p.msg] = <<p.of>>)
  BY DEF OneTicketPerConversation
<1>1. \A r \in Questions : landed[r.msg] # <<>> => landed[r.msg] = <<page.current>>
  <2> SUFFICES ASSUME NEW r \in Questions, landed[r.msg] # <<>>
               PROVE  landed[r.msg] = <<page.current>>
    OBVIOUS
  <2>1. PICK i \in area : i.msg = r.msg /\ i.kind \notin {"question", "error"}
    OBVIOUS
  <2>2. r.msg \in Messages
    BY DEF Questions, TurnInv
  <2>3. landed[r.msg] = <<i.of>>
    BY <2>1, <2>2 DEF TurnInv, TurnOf
  <2>4. landed[r.msg] \in Seq(Tickets)
    BY <2>2 DEF TypeInv, ServerInv
  <2>5. i.of \in Tickets
    <3>1. PICK k : k = i.of
      OBVIOUS
    <3>2. <<k>> \in Seq(Tickets)
      BY <2>3, <2>4, <3>1
    <3>3. k \in Tickets
      BY <3>2
    <3> QED
      BY <3>1, <3>3
  <2>6. i.of = page.current
    BY <2>5 DEF ShownInv
  <2> QED
    BY <2>3, <2>6
<1>2. p.of \in {page.current, Null}
  BY DEF Questions, ShownInv
<1> QED
  BY <1>1, <1>2

\* The page's steps do not change what landed.
LEMMA TurnKept ==
  ASSUME UNCHANGED landed, NEW m, NEW k, TurnOf(m, k)
  PROVE  TurnOf(m, k)'
BY DEF TurnOf

LEMMA TurnNext == OnceInv /\ AloneInv /\ TurnInv /\ [Next]_vars => TurnInv'
<1> SUFFICES ASSUME OnceInv, AloneInv, TurnInv, [Next]_vars, patient' PROVE TurnInv'
  BY DEF TurnInv
<1>1. patient /\ TypeInv
  BY PatientStays DEF OnceInv
<1>2. /\ \A i \in area :
           /\ i.msg <= spent.sends
           /\ i.kind = "question" => i.msg \in Messages
           /\ i.kind \notin {"question", "error"} /\ i.msg \in Messages => TurnOf(i.msg, i.of)
      /\ \A c \in Calls : calls[c].pc # "idle" =>
           /\ calls[c].msg <= spent.sends
           /\ calls[c].what = "chat" =>
                /\ calls[c].msg \in Messages
                /\ \A i \in area : i.msg = calls[c].msg => i.kind = "question"
                /\ calls[c].pc = "answered" => TurnOf(calls[c].msg, calls[c].tid)
  BY <1>1 DEF TurnInv
<1>3. \A c \in Calls : /\ calls[c] \in CallStates /\ GoodCall(calls[c])
                       /\ calls[c].pc # "orphan"
  BY <1>1, CallFields DEF AloneInv
<1>4. spent.sends \in Nat /\ \A i \in area : i.msg \in Nat
  BY <1>1 DEF TypeInv, ServerInv, PageInv, GoodItem, Items, Messages
<1>5. ASSUME NEW c \in Calls, Goes(c) PROVE TurnInv'
  <2>1. PICK new : calls' = [calls EXCEPT ![c] = new] /\ GoesOn(calls[c], new)
    BY <1>1, <1>3, <1>5, GoesOnWith
  <2>2. UNCHANGED <<page, area>> /\ calls[c].pc # "idle"
    BY <1>1, <1>3, <1>5, <2>1, GoesOnWith DEF GoesOn
  <2>3. calls'[c] = new /\ \A d \in Calls : d # c => calls'[d].pc = "idle"
    BY <1>1, <2>1, <2>2, OthersRest
  <2>4. spent'.sends = spent.sends
    BY <1>1, <1>5, SendsKept
       DEF Goes, TokenReturns, Refuse, Retry, Lost, AnswerTooLong, LookupRaises,
           HandleChat, ServeTicket, ServeStage2, Stage2Raises
  <2>5. new.what = calls[c].what /\ new.msg = calls[c].msg
    BY <2>1 DEF GoesOn
  <2>6. /\ \A m \in Messages : landed'[m] # landed[m] => calls[c].what = "chat" /\ m = calls[c].msg
        /\ new.what = "chat" /\ new.pc = "answered" => TurnOf(new.msg, new.tid)'
    <3>1. CASE HandleChat(c)
      <4>1. Waits(calls[c]) /\ calls[c].msg \in Messages /\ landed[calls[c].msg] = <<>>
            /\ calls[c].what = "chat"
        BY <3>1 DEF HandleChat, Serving, Waits, OnceInv, WaitingInv
      <4>2. PICK k, says :
              /\ landed' = [landed EXCEPT ![calls[c].msg] = Append(@, k)]
              /\ \/ Return(c, "answered", k, says)
                 \/ Return(c, "failed", calls[c].tid, Null)
        BY <3>1 DEF HandleChat
      <4>3. landed \in [Messages -> Seq(Tickets)]
        BY <1>1 DEF TypeInv, ServerInv
      <4>4. Append(landed[calls[c].msg], k) = <<k>>
        BY <4>1
      <4>5. landed' = [landed EXCEPT ![calls[c].msg] = <<k>>]
        BY <4>2, <4>4
      <4>6. landed'[calls[c].msg] = <<k>> /\ \A m \in Messages : m # calls[c].msg => landed'[m] = landed[m]
        BY <4>1, <4>3, <4>5
      <4>7. new.pc = "answered" => new.tid = k
        <5>1. CASE Return(c, "answered", k, says)
          <6>1. PICK back : back = [calls[c] EXCEPT !.pc = "answered", !.tid = k, !.says = says]
            OBVIOUS
          <6>2. calls' = [calls EXCEPT ![c] = back]
            BY <1>3, <5>1, <6>1 DEF Return
          <6>3. back = new
            BY <1>1, <2>3, <6>2 DEF TypeInv, CallsInv
          <6> QED
            BY <1>3, <6>1, <6>3 DEF CallStates
        <5>2. CASE Return(c, "failed", calls[c].tid, Null)
          <6>1. PICK back : back = [calls[c] EXCEPT !.pc = "failed", !.tid = calls[c].tid,
                                                    !.says = Null]
            OBVIOUS
          <6>2. calls' = [calls EXCEPT ![c] = back]
            BY <1>3, <5>2, <6>1 DEF Return
          <6>3. back = new
            BY <1>1, <2>3, <6>2 DEF TypeInv, CallsInv
          <6> QED
            BY <1>3, <6>1, <6>3 DEF CallStates
        <5> QED
          BY <4>2, <5>1, <5>2
      <4> QED
        BY <2>5, <4>1, <4>6, <4>7 DEF TurnOf
    <3>2. CASE ~HandleChat(c)
      <4>1. landed' = landed
        BY <1>5, <3>2 DEF Goes, TokenReturns, Refuse, Retry, Lost, AnswerTooLong,
                          LookupRaises, ServeTicket, ServeStage2, Stage2Raises, server
      <4>2. ASSUME new.what = "chat", new.pc = "answered"
            PROVE  landed[calls[c].msg] = <<>> \/ (calls[c].pc = "answered" /\ new.tid = calls[c].tid)
        <5>1. calls[c].what = "chat"
          BY <2>1, <4>2 DEF GoesOn
        <5>2. Waits(calls[c]) => landed[calls[c].msg] = <<>>
          BY DEF OnceInv, WaitingInv
        <5>3. Waits(calls[c]) \/ calls[c].pc \in {"answered", "failed"}
          BY <1>3, <2>2, <5>1 DEF CallStates, Waits
        <5>4. CASE calls[c].pc \in {"answered", "failed"}
          <6>1. Lost(c)
            BY <1>5, <3>2, <5>1, <5>4
               DEF Goes, TokenReturns, Refuse, Retry, AnswerTooLong, LookupRaises, Serving,
                   ServeTicket, ServeStage2, Stage2Raises
          <6>2. PICK back : back = [calls[c] EXCEPT !.pc = "failed"]
            OBVIOUS
          <6>3. back = new
            BY <1>1, <2>3, <6>1, <6>2 DEF Lost, Become, TypeInv, CallsInv
          <6>4. back.pc = "failed"
            BY <1>3, <6>2 DEF CallStates
          <6> QED
            BY <4>2, <6>3, <6>4
        <5> QED
          BY <5>2, <5>3, <5>4
      <4>3. new.what = "chat" /\ new.pc = "answered" => TurnOf(calls[c].msg, new.tid)
        BY <1>2, <2>1, <2>2, <4>2 DEF TurnOf, GoesOn
      <4> QED
        BY <2>5, <4>1, <4>3 DEF TurnOf
    <3> QED
      BY <3>1, <3>2
  <2>7. \A i \in area : i.kind \notin {"question", "error"} /\ i.msg \in Messages
          => TurnOf(i.msg, i.of)'
    BY <1>2, <2>2, <2>6 DEF TurnOf
  <2> QED
    BY <1>2, <2>2, <2>3, <2>4, <2>5, <2>6, <2>7 DEF TurnInv
<1>6. ASSUME NEW c \in Calls, Ends(c) PROVE TurnInv'
  <2>1. /\ \A d \in Calls : calls'[d].pc = "idle"
        /\ calls[c].pc # "idle" /\ landed' = landed /\ spent' = spent
    BY <1>1, <1>6, EndsAtRest DEF Resting, server
  <2>2. \A m, k : TurnOf(m, k) => TurnOf(m, k)'
    BY <2>1, TurnKept
  <2>3. SUFFICES \A i \in area' :
                   /\ i.msg <= spent.sends
                   /\ i.kind = "question" => i.msg \in Messages
                   /\ i.kind \notin {"question", "error"} /\ i.msg \in Messages
                        => TurnOf(i.msg, i.of)
    BY <2>1, <2>2 DEF TurnInv
  <2>4. CASE ChatAnswered(c)
    <3>1. PICK item : /\ area' = area \cup {item} /\ item.kind # "question"
                      /\ item.of = calls[c].tid /\ item.msg = calls[c].msg
      BY <2>4, ItemFields DEF ChatAnswered, Shown
    <3>2. TurnOf(calls[c].msg, calls[c].tid) /\ calls[c].msg <= spent.sends
      BY <1>2, <2>1, <2>4 DEF ChatAnswered
    <3> QED
      BY <1>2, <3>1, <3>2
  <2>5. CASE ChatFailed(c) \/ LoadFailed(c)
    <3>1. PICK item : /\ area' = area \cup {item} /\ item.kind = "error"
                      /\ item.msg = calls[c].msg \/ item.msg = 0
      <4>1. CASE ChatFailed(c)
        BY <4>1, ItemFields DEF ChatFailed
      <4>2. CASE LoadFailed(c)
        BY <4>2, ItemFields DEF LoadFailed
      <4> QED
        BY <2>5, <4>1, <4>2
    <3> QED
      BY <1>2, <1>4, <2>1, <3>1
  <2>6. CASE TicketLoaded(c)
    <3>1. PICK item : area' = area \cup {item} /\ item.kind = "history" /\ item.msg = 0
      BY <2>6, ItemFields DEF TicketLoaded
    <3>2. 0 \notin Messages
      BY DEF Messages
    <3> QED
      BY <1>2, <1>4, <3>1, <3>2
  <2>7. CASE TimelineAsked(c) \/ Stage2Done(c) \/ Stage2Failed(c)
    <3>1. PICK kind \in {"timeline", "answer", "error"} : Replace(c, kind)
      BY <2>7 DEF TimelineAsked, Stage2Done, Stage2Failed
    <3>2. PICK old, new : /\ area' = IF old \in area THEN (area \ {old}) \cup {new}
                                     ELSE area
                          /\ old.kind = "waiting" /\ new.of = old.of /\ new.msg = old.msg
                          /\ new.kind # "question"
      BY <3>1, ReplaceShows, ItemFields, <1>1
    <3> QED
      BY <1>2, <3>2
  <2> QED
    BY <1>6, <2>4, <2>5, <2>6, <2>7 DEF Ends
<1>7. ASSUME NEW c \in Calls, User(c) PROVE TurnInv'
  <2>1. Resting /\ landed' = landed
    BY <1>1, <1>7, StartsAlone DEF server
  <2>2. \A m, k : TurnOf(m, k) => TurnOf(m, k)'
    BY <2>1, TurnKept
  <2>3. CASE Send(c)
    <3>1. PICK m \in Messages : m = spent.sends + 1 /\ spent'.sends = m
      BY <1>1, <2>3, SpentTypes DEF Send, Use, TypeInv, ServerInv
    <3>2. PICK new :
            new = [IdleCall EXCEPT !.pc  = IF token = "none" THEN "token" ELSE "posted",
                               !.msg = m, !.tid = page.current, !.tok = token]
      OBVIOUS
    <3>3. calls' = [calls EXCEPT ![c] = new]
      BY <2>3, <3>1, <3>2 DEF Send
    <3>4. new.what = "chat" /\ new.msg = m /\ new.pc # "answered"
      BY <3>2 DEF IdleCall
    <3>5. calls'[c] = new /\ \A d \in Calls : d # c => calls'[d].pc = "idle"
      BY <1>1, <2>1, <3>3, OthersRest
    <3>6. PICK item : area' = area \cup {item} /\ item.msg = m /\ item.kind = "question"
      BY <2>3, <3>1, ItemFields DEF Send
    <3>7. \A i \in area : i.msg < m
      BY <1>2, <1>4, <3>1
    <3>8. \A i \in area' :
            /\ i.msg <= m
            /\ i.kind = "question" => i.msg \in Messages
            /\ i.kind \notin {"question", "error"} /\ i.msg \in Messages => TurnOf(i.msg, i.of)'
            /\ i.msg = m => i.kind = "question"
      BY <1>2, <1>4, <2>2, <3>6, <3>7 DEF Messages
    <3> QED
      BY <3>1, <3>4, <3>5, <3>8 DEF TurnInv, Messages
  <2>4. ASSUME NEW k \in listed, OpenTicket(c, k) PROVE TurnInv'
    <3>1. PICK new : new = [IdleCall EXCEPT !.what = "load", !.pc = "posted", !.tid = k]
      OBVIOUS
    <3>2. calls' = [calls EXCEPT ![c] = new] /\ area' = {}
      BY <2>4, <3>1 DEF OpenTicket
    <3>3. new.what = "load" /\ new.msg = 0
      BY <3>1 DEF IdleCall
    <3>4. calls'[c] = new /\ \A d \in Calls : d # c => calls'[d].pc = "idle"
      BY <1>1, <2>1, <3>2, OthersRest
    <3>5. spent'.sends = spent.sends
      BY <1>1, <2>4, SendsKept DEF OpenTicket
    <3> QED
      BY <1>4, <3>2, <3>3, <3>4, <3>5 DEF TurnInv
  <2>5. CASE AnswerResolution(c) \/ AnswerTimeline(c)
    <3>1. PICK i, new :
            /\ i \in area /\ i.kind \in {"prompt", "timeline"}
            /\ area' = (area \ {i}) \cup {Item("waiting", i.of, i.msg)}
            /\ calls' = [calls EXCEPT ![c] = new]
            /\ new.what # "chat" /\ new.msg = i.msg /\ spent' = spent
      BY <1>1, <2>5, ClickShows
    <3>2. calls'[c] = new /\ \A d \in Calls : d # c => calls'[d].pc = "idle"
      BY <1>1, <2>1, <3>1, OthersRest
    <3>3. PICK item : /\ area' = (area \ {i}) \cup {item} /\ item.kind = "waiting"
                      /\ item.of = i.of /\ item.msg = i.msg
      BY <3>1, ItemFields
    <3>4. \A j \in area' :
            /\ j.msg <= spent.sends
            /\ j.kind = "question" => j.msg \in Messages
            /\ j.kind \notin {"question", "error"} /\ j.msg \in Messages => TurnOf(j.msg, j.of)
      BY <1>2, <3>1, <3>3
    <3> QED
      BY <1>2, <2>2, <3>1, <3>2, <3>4 DEF TurnInv
  <2> QED
    BY <1>7, <2>3, <2>4, <2>5 DEF User
<1>8. CASE NewConversation \/ Reload
  <2>1. Resting
    BY <1>1, <1>8, ActsAtRest DEF NewConversation, Reload
  <2>2. (\A c \in Calls : calls'[c].pc = "idle") /\ area' = {}
    BY <1>8, <2>1, ClearsAtRest DEF NewConversation, Reload
  <2> QED
    BY <2>2 DEF TurnInv
<1>9. CASE Listing \/ TokenExpires \/ (\E k \in Tickets : JobMoves(k))
           \/ UNCHANGED vars
  <2>1. UNCHANGED <<area, calls, landed>> /\ spent'.sends = spent.sends
    BY <1>1, <1>9, SendsKept
       DEF Listing, ListTokenReturns, ServeList, ListReturns, ListRefused,
           TokenExpires, JobMoves, server, vars
  <2> QED
    BY <1>2, <2>1 DEF TurnInv, TurnOf
<1> QED
  BY <1>5, <1>6, <1>7, <1>8, <1>9, NextParts DEF Apart

\* As long as the page has an answer for each message that was taken up, the
\* messages of one conversation of a patient user are turns of one ticket.
THEOREM PatientUserTalksInOneTicket == Spec => []OneTicketPerConversation
<1>1. Init => AloneInv /\ ShownInv /\ TurnInv
  BY DEF Init, AloneInv, ShownInv, TurnInv, HeaderCurrent, FreshPage, IdleCall
<1>2. OnceInv => TypeInv
  BY DEF OnceInv
<1> QED
  BY <1>1, <1>2, OnceInit, OnceNext, AloneNext, ShownNext, TurnNext, TurnImplies, PTL DEF Spec

-----------------------------------------------------------------------------
(* The sidebar.  As long as nothing fails, each of the newest tickets is   *)
(* in the list, or in the list that is about to be shown, or in the answer *)
(* that will add it.                                                       *)

Brings(call, k) == call.what = "chat" /\ call.pc = "answered" /\ call.tid = k

SidebarInv ==
  patient /\ ~Faults =>
    /\ listing.pc = "answered" => NewestTickets \subseteq listing.rows
    /\ listing.pc = "idle" =>
         \A k \in NewestTickets : k \in listed \/ \E c \in Calls : Brings(calls[c], k)

LEMMA SidebarImplies == SidebarInv => SidebarIsComplete
BY DEF SidebarInv, SidebarIsComplete, PageIdle, AtPage, Brings

\* A ticket that is opened is the only one that joins the newest.
LEMMA NewestAfter ==
  ASSUME opened \in Seq(Tickets), NEW k, opened' = Append(opened, k)
  PROVE  NewestTickets' \subseteq NewestTickets \cup {k}
<1>1. /\ Len(opened) \in Nat /\ DOMAIN opened = 1 .. Len(opened)
      /\ DOMAIN opened' = 1 .. Len(opened) + 1 /\ Len(opened') = Len(opened) + 1
      /\ opened'[Len(opened) + 1] = k
      /\ \A n \in DOMAIN opened : opened'[n] = opened[n]
  OBVIOUS
<1> SUFFICES ASSUME NEW n \in DOMAIN opened', Len(opened') - n < ListSize,
                    n # Len(opened) + 1
             PROVE  opened'[n] \in NewestTickets
  BY <1>1 DEF NewestTickets
<1>2. n \in DOMAIN opened /\ Len(opened) - n < ListSize
  BY <1>1, BoundsAssumption
<1> QED
  BY <1>1, <1>2 DEF NewestTickets

LEMMA NewestKept ==
  ASSUME UNCHANGED opened
  PROVE  NewestTickets' = NewestTickets
BY DEF NewestTickets

\* What has failed stays known.
LEMMA FaultsStay ==
  ASSUME TypeInv
  PROVE  /\ Fault => Faults'
         /\ [Next]_vars => (Faults => Faults')
<1>1. spent \in [sends : 0 .. MaxSends, clicks : 0 .. MaxClicks, events : SUBSET Events]
  BY DEF TypeInv, ServerInv
<1>2. Fault => Faults'
  BY <1>1 DEF Fault, Happens, Faults
<1>3. \A kind : Happens(kind) => (Faults => Faults')
  BY <1>1 DEF Happens, Faults
<1>4. \A bound \in {"sends", "clicks"} :
        \A max : Use(bound, max) => (Faults => Faults')
  BY <1>1 DEF Use, Faults
<1>5. UNCHANGED spent => (Faults => Faults')
  BY DEF Faults
<1>6. ASSUME [Next]_vars, Faults PROVE Faults'
  <2>1. ASSUME NEW c \in Calls, User(c) PROVE Faults'
    BY <1>4, <1>5, <1>6, <2>1
       DEF User, Send, OpenTicket, AnswerResolution, AnswerTimeline, Click
  <2>2. ASSUME NEW c \in Calls, Goes(c) PROVE Faults'
    BY <1>2, <1>3, <1>5, <1>6, <2>2
       DEF Goes, TokenReturns, Refuse, Retry, Lost, AnswerTooLong, LookupRaises,
           HandleChat, ServeTicket, ServeStage2, Stage2Raises
  <2>3. ASSUME NEW c \in Calls, Ends(c) PROVE Faults'
    BY <1>5, <1>6, <2>3
       DEF Ends, ChatAnswered, ChatFailed, TicketLoaded, LoadFailed, TimelineAsked,
           Stage2Done, Stage2Failed
  <2>4. CASE Apart
    BY <1>2, <1>3, <1>4, <1>5, <1>6, <2>4
       DEF Apart, NewConversation, Reload, Listing, ListTokenReturns, ServeList,
           ListReturns, ListRefused, TokenExpires, JobMoves, vars
  <2> QED
    BY <1>6, <2>1, <2>2, <2>3, <2>4, NextParts
<1> QED
  BY <1>2, <1>6

\* Without a fault nothing is lost, and a turn's answer names its ticket.
LEMMA TurnReturns ==
  ASSUME TypeInv, ~Faults', NEW c \in Calls, calls[c].pc # "orphan", HandleChat(c),
         NEW new, calls' = [calls EXCEPT ![c] = new]
  PROVE  /\ Brings(new, new.tid) /\ new.tid \in Tickets
         /\ status' = [status EXCEPT ![new.tid] = new.says]
         /\ opened' = IF Exists(new.tid) THEN opened ELSE Append(opened, new.tid)
<1>1. PICK k, s :
        /\ k \in Tickets /\ status' = [status EXCEPT ![k] = s]
        /\ opened' = IF Exists(k) THEN opened ELSE Append(opened, k)
        /\ Return(c, "answered", k, s)
  BY FaultsStay DEF HandleChat
<1>2. calls[c] \in CallStates /\ calls[c].what = "chat"
  BY CallFields DEF HandleChat, Serving
<1>3. PICK back : back = [calls[c] EXCEPT !.pc = "answered", !.tid = k, !.says = s]
  OBVIOUS
<1>4. calls' = [calls EXCEPT ![c] = back]
  BY <1>1, <1>3 DEF Return
<1>5. back = new
  BY <1>4 DEF TypeInv, CallsInv
<1>6. back.what = "chat" /\ back.pc = "answered" /\ back.tid = k /\ back.says = s
  BY <1>2, <1>3 DEF CallStates
<1> QED
  BY <1>1, <1>5, <1>6 DEF Brings

LEMMA SidebarNext == TypeInv /\ AloneInv /\ SidebarInv /\ [Next]_vars => SidebarInv'
<1> SUFFICES ASSUME TypeInv, AloneInv, SidebarInv, [Next]_vars, patient', ~Faults'
             PROVE  SidebarInv'
  BY DEF SidebarInv
<1>1. patient /\ ~Faults
  BY PatientStays, FaultsStay
<1>2. /\ listing.pc = "answered" => NewestTickets \subseteq listing.rows
      /\ listing.pc = "idle" =>
           \A k \in NewestTickets : k \in listed \/ \E c \in Calls : Brings(calls[c], k)
  BY <1>1 DEF SidebarInv
<1>3. \A c \in Calls : calls[c] \in CallStates /\ GoodCall(calls[c]) /\ calls[c].pc # "orphan"
  BY <1>1, CallFields DEF AloneInv
<1>4. status \in [Tickets -> Statuses \cup {"absent"}]
  BY DEF TypeInv, ServerInv
<1>5. ASSUME NEW c \in Calls, Goes(c) PROVE SidebarInv'
  <2>1. PICK new : calls' = [calls EXCEPT ![c] = new] /\ GoesOn(calls[c], new)
    BY <1>3, <1>5, GoesOnWith
  <2>2. UNCHANGED <<listed, listing>> /\ calls[c].pc # "idle"
    BY <1>3, <1>5, <2>1, GoesOnWith DEF GoesOn
  <2>3. calls'[c] = new /\ \A d \in Calls : d # c => calls[d].pc = "idle"
    BY <1>1, <2>1, <2>2, OthersRest DEF AloneInv
  <2>4. ListDone
    BY <1>1, <2>2 DEF AloneInv
  <2>5. ~Lost(c)
    BY FaultsStay DEF Lost
  <2>6. \A k : ~ \E d \in Calls : Brings(calls[d], k)
    BY <1>5, <2>3, <2>5
       DEF Brings, Goes, TokenReturns, Refuse, Retry, AnswerTooLong, LookupRaises,
           HandleChat, Serving, ServeTicket, ServeStage2, Stage2Raises
  <2>7. \A k \in NewestTickets' : k \in NewestTickets \/ Brings(new, k)
    <3>1. CASE HandleChat(c)
      <4>1. /\ Brings(new, new.tid)
            /\ opened' = opened \/ opened' = Append(opened, new.tid)
        BY <1>3, <2>1, <3>1, TurnReturns
      <4>2. opened \in Seq(Tickets)
        BY DEF TypeInv, ServerInv, OpenedInv
      <4> QED
        BY <4>1, <4>2, NewestAfter, NewestKept
    <3>2. CASE ~HandleChat(c)
      <4>1. UNCHANGED opened
        BY <1>5, <3>2 DEF server, Goes, TokenReturns, Refuse, Retry, Lost,
                          AnswerTooLong, LookupRaises, ServeTicket, ServeStage2,
                          Stage2Raises
      <4> QED
        BY <4>1, NewestKept
    <3> QED
      BY <3>1, <3>2
  <2>8. \A k : Brings(new, k) => \E d \in Calls : Brings(calls'[d], k)
    BY <2>3
  <2> QED
    BY <1>2, <2>2, <2>4, <2>6, <2>7, <2>8 DEF SidebarInv, ListDone
<1>6. ASSUME NEW c \in Calls, Ends(c) PROVE SidebarInv'
  <2>1. /\ ListDone /\ listing' = listing /\ opened' = opened /\ calls[c].pc # "idle"
    BY <1>1, <1>6, EndsAtRest DEF server
  <2>2. \A d \in Calls : d # c => calls[d].pc = "idle"
    BY <1>1, <2>1 DEF AloneInv
  <2>3. \A k : k \in listed \/ (\E d \in Calls : Brings(calls[d], k)) => k \in listed'
    <3>1. CASE ChatAnswered(c)
      BY <2>2, <3>1 DEF ChatAnswered, UpsertedSidebar, Brings
    <3>2. CASE ~ChatAnswered(c)
      <4>1. \A k : ~Brings(calls[c], k)
        BY <1>6, <3>2 DEF Ends, ChatFailed, TicketLoaded, LoadFailed, TimelineAsked,
                          Stage2Done, Stage2Failed, Brings
      <4>2. listed \subseteq listed'
        BY <1>6, <3>2 DEF Ends, ChatFailed, TicketLoaded, LoadFailed, TimelineAsked,
                          Stage2Done, Stage2Failed, UpsertedSidebar
      <4> QED
        BY <2>2, <4>1, <4>2 DEF Brings
    <3> QED
      BY <3>1, <3>2
  <2> QED
    BY <1>2, <2>1, <2>3, NewestKept DEF SidebarInv, ListDone
<1>7. ASSUME NEW c \in Calls, User(c) PROVE SidebarInv'
  <2>1. Resting /\ UNCHANGED <<listing, listed, opened>>
    BY <1>1, <1>7, StartsAlone DEF server
  <2>2. \A k : ~ \E d \in Calls : Brings(calls[d], k)
    BY <2>1 DEF Resting, Brings
  <2> QED
    BY <1>2, <2>1, <2>2, NewestKept DEF SidebarInv
<1>8. CASE Reload
  BY <1>8 DEF Reload, FreshList, IdleList, SidebarInv
<1>9. CASE Listing
  <2>1. UNCHANGED <<opened, calls>> /\ listing \in ListStates
    BY <1>9 DEF Listing, ListTokenReturns, ServeList, ListReturns, ListRefused, server,
                TypeInv, PageInv
  <2>2. CASE ListTokenReturns \/ ListRefused
    <3>1. listing'.pc \in {"asked", "refused"}
      BY <2>1, <2>2 DEF ListTokenReturns, ListRefused, ListStates, IdleList
    <3> QED
      BY <3>1 DEF SidebarInv
  <2>3. CASE ServeList
    BY <2>1, <2>3, NewestKept DEF ServeList, SidebarInv
  <2>4. CASE ListReturns
    <3>1. listing'.pc = "idle" /\ listed' = listing.rows /\ listing.pc = "answered"
      BY <2>4 DEF ListReturns, IdleList
    <3> QED
      BY <1>2, <2>1, <3>1, NewestKept DEF SidebarInv
  <2> QED
    BY <1>9, <2>2, <2>3, <2>4 DEF Listing
<1>10. CASE NewConversation \/ TokenExpires \/ (\E k \in Tickets : JobMoves(k))
            \/ UNCHANGED vars
  <2>1. UNCHANGED <<calls, listing, listed, opened>>
    BY <1>10 DEF NewConversation, TokenExpires, JobMoves, vars, server
  <2> QED
    BY <1>2, <2>1, NewestKept DEF SidebarInv
<1> QED
  BY <1>5, <1>6, <1>7, <1>8, <1>9, <1>10, NextParts DEF Apart

\* As long as nothing fails, the sidebar of a patient user lists the newest tickets,
\* as many as user_tickets returns (main.py:349-362), those included that the
\* answers of this page brought after it was loaded.
THEOREM PatientUserFindsNewestTickets == Spec => []SidebarIsComplete
<1>1. Init => AloneInv /\ SidebarInv
  BY DEF Init, AloneInv, SidebarInv, NewestTickets, IdleCall, FreshList, IdleList
<1> QED
  BY <1>1, TypeInvariant, AloneNext, SidebarNext, SidebarImplies, PTL DEF Spec

-----------------------------------------------------------------------------
(* The header.  What an answer says of a ticket is so when the page shows  *)
(* it, or only a job has changed it since; and a prompt stays where its    *)
(* answer will replace it.                                                 *)

ChatTells(call) ==
  /\ call.pc = "reposted" => call.tok = "valid"
  /\ call.pc = "failed" => page.current = Nowhere
  /\ call.pc = "answered" /\ call.tid \in Tickets =>
       call.says = "error" \/ status[call.tid] \in Since(call.says)

LoadTells(call) ==
  /\ call.pc = "failed" => page.current = Nowhere
  /\ call.pc = "answered" /\ call.tid \in Tickets => status[call.tid] \in Since(call.says)

Stage2Tells(call) ==
  /\ call.pc # "failed"
  /\ Item("waiting", call.tid, call.msg) \in area
  /\ call.pc = "answered" /\ call.tid \in Tickets => status[call.tid] = Stage2Result(call)

Tells(call) ==
  /\ call.what = "chat" => ChatTells(call)
  /\ call.what = "load" => LoadTells(call)
  /\ call.what \in {"resolution", "timeline"} => Stage2Tells(call)

HeaderTells ==
  \/ page.header.shows = "error"
  \/ status[page.current] \in Since(page.header.shows)
  \/ status[page.current] = "awaiting_timeline" /\ \E i \in area : i.kind = "timeline"

HeaderInv ==
  patient /\ ~Faults =>
    /\ \A c \in Calls : calls[c].pc # "idle" => Tells(calls[c])
    /\ Resting /\ page.current \in Tickets => HeaderTells

LEMMA HeaderImplies == AloneInv /\ HeaderInv => HeaderTellsStatus
<1> SUFFICES ASSUME AloneInv, HeaderInv, patient, PageIdle, ~Faults,
                    page.current \in Tickets
             PROVE  HeaderTells
  BY DEF HeaderTellsStatus, HeaderTells
<1>1. Resting
  BY DEF AloneInv, PageIdle, AtPage, Resting
<1> QED
  BY <1>1 DEF HeaderInv

LEMMA SinceItself == \A s : s \in Since(s)
BY DEF Since

\* A job changes a status to what a header may be behind of.
LEMMA JobsAreSince ==
  ASSUME TypeInv, NEW j \in Tickets, JobMoves(j), NEW k \in Tickets
  PROVE  /\ \A s : status[k] \in Since(s) => status'[k] \in Since(s)
         /\ status[k] \in {"resolved", "awaiting_timeline", "escalated"}
              => status'[k] = status[k]
<1>1. status \in [Tickets -> Statuses \cup {"absent"}]
  BY DEF TypeInv, ServerInv
<1>2. CASE /\ status[j] = "open"
           /\ status' = [status EXCEPT ![j] = "pending_confirmation"]
  <2>1. status'[k] = IF k = j THEN "pending_confirmation" ELSE status[k]
    BY <1>1, <1>2
  <2> QED
    BY <1>2, <2>1 DEF Since
<1>3. CASE /\ status[j] \in {"open", "pending_confirmation"}
           /\ status' = [status EXCEPT ![j] = "auto_closed"]
  <2>1. status'[k] = IF k = j THEN "auto_closed" ELSE status[k]
    BY <1>1, <1>3
  <2> QED
    BY <1>3, <2>1 DEF Since
<1> QED
  BY <1>2, <1>3 DEF JobMoves

\* A request has one next state.
LEMMA SameCall ==
  ASSUME TypeInv, NEW c \in Calls, NEW new, NEW back,
         calls' = [calls EXCEPT ![c] = new], calls' = [calls EXCEPT ![c] = back]
  PROVE  back = new
BY DEF TypeInv, CallsInv

LEMMA HeaderGoes ==
  ASSUME TypeInv, AloneInv, ShownInv, HeaderInv, patient, ~Faults, ~Faults',
         NEW c \in Calls, Goes(c)
  PROVE  HeaderInv'
<1>1. calls[c] \in CallStates /\ GoodCall(calls[c]) /\ calls[c].pc # "orphan"
  BY CallFields DEF AloneInv
<1>2. PICK new : calls' = [calls EXCEPT ![c] = new] /\ GoesOn(calls[c], new)
  BY <1>1, GoesOnWith
<1>3. UNCHANGED <<page, area>> /\ calls[c].pc # "idle" /\ new.pc # "idle"
  BY <1>1, <1>2, GoesOnWith DEF GoesOn
<1>4. calls'[c] = new /\ \A d \in Calls : d # c => calls'[d].pc = "idle"
  BY <1>2, <1>3, OthersRest
<1>5. SUFFICES Tells(new)'
  BY <1>3, <1>4 DEF HeaderInv, Resting, Tells
<1>6. Tells(calls[c]) /\ About(calls[c])
  BY <1>3 DEF HeaderInv, ShownInv
<1>7. status \in [Tickets -> Statuses \cup {"absent"}]
  BY DEF TypeInv, ServerInv
<1>8. ~Fault
  BY FaultsStay
<1>9. new.what = calls[c].what /\ new.msg = calls[c].msg
  BY <1>2 DEF GoesOn
<1>10. CASE TokenReturns(c) \/ Refuse(c) \/ Retry(c)
  <2>1. /\ new.pc \in {"posted", "reposted", "refused", "retoken"}
        /\ new.tid = calls[c].tid /\ (new.pc = "reposted" => new.tok = "valid")
    <3>1. CASE TokenReturns(c)
      <4>1. token' = "valid"
        BY <1>8, <3>1 DEF TokenReturns
      <4>2. PICK back :
              back = [calls[c] EXCEPT !.pc  = IF @ = "token" THEN "posted" ELSE "reposted",
                                      !.tok = "valid"]
        OBVIOUS
      <4>3. calls' = [calls EXCEPT ![c] = back]
        BY <1>1, <3>1, <4>1, <4>2 DEF TokenReturns, TypeInv, CallsInv
      <4>4. back = new
        BY <1>2, <4>3, SameCall
      <4> QED
        BY <1>1, <4>2, <4>4 DEF CallStates
    <3>2. CASE Refuse(c) \/ Retry(c)
      <4>1. PICK pc \in {"refused", "retoken"} : Become(c, pc)
        BY <1>1, <1>6, <3>2 DEF Refuse, Retry, Tells, ChatTells
      <4>2. PICK back : back = [calls[c] EXCEPT !.pc = pc]
        OBVIOUS
      <4>3. back = new
        BY <1>2, <4>1, <4>2, SameCall DEF Become
      <4> QED
        BY <1>1, <4>2, <4>3 DEF CallStates
    <3> QED
      BY <1>10, <3>1, <3>2
  <2>2. area' = area /\ (new.what \in {"resolution", "timeline"}
                           => Item("waiting", new.tid, new.msg) \in area)
    BY <1>3, <1>6, <1>9, <2>1 DEF Tells, Stage2Tells
  <2> QED
    BY <2>1, <2>2 DEF Tells, ChatTells, LoadTells, Stage2Tells
<1>11. CASE AnswerTooLong(c)
  <2>1. PICK k : Return(c, "answered", k, "error")
    BY <1>11 DEF AnswerTooLong
  <2>2. PICK back : back = [calls[c] EXCEPT !.pc = "answered", !.tid = k, !.says = "error"]
    OBVIOUS
  <2>3. back = new
    BY <1>1, <1>2, <2>1, <2>2, SameCall DEF Return
  <2>4. new.what = "chat" /\ new.pc = "answered" /\ new.says = "error"
    BY <1>1, <1>9, <1>11, <2>2, <2>3 DEF CallStates, AnswerTooLong, Serving
  <2> QED
    BY <2>4 DEF Tells, ChatTells
<1>12. CASE LookupRaises(c)
  <2>1. PICK back : back = [calls[c] EXCEPT !.pc = "failed", !.tid = Nowhere, !.says = Null]
    OBVIOUS
  <2>2. back = new
    BY <1>1, <1>2, <1>12, <2>1, SameCall DEF LookupRaises, Return
  <2>3. new.what = "chat" /\ new.pc = "failed"
    BY <1>1, <1>9, <1>12, <2>1, <2>2 DEF CallStates, LookupRaises, Serving
  <2>4. page'.current = Nowhere
    BY <1>3, <1>6, <1>12 DEF About, LookupRaises, Serving
  <2> QED
    BY <2>3, <2>4 DEF Tells, ChatTells
<1>13. CASE HandleChat(c)
  <2>1. /\ new.what = "chat" /\ new.pc = "answered" /\ new.tid \in Tickets
        /\ status' = [status EXCEPT ![new.tid] = new.says]
    BY <1>1, <1>2, <1>13, TurnReturns DEF Brings
  <2>2. status'[new.tid] \in Since(new.says)
    BY <1>7, <2>1, SinceItself
  <2> QED
    BY <2>1, <2>2 DEF Tells, ChatTells, Since
<1>14. CASE ServeTicket(c)
  <2>1. new.what = "load" /\ calls[c].what = "load" /\ calls[c].pc = "posted"
    BY <1>9, <1>14 DEF ServeTicket
  <2>2. CASE calls[c].tid = Nowhere
    <3>1. page'.current = Nowhere
      BY <1>3, <1>6, <2>1, <2>2 DEF About
    <3>2. PICK back : back = [calls[c] EXCEPT !.pc = "failed"]
      OBVIOUS
    <3>3. back = new
      BY <1>2, <1>14, <2>2, <3>2, SameCall DEF ServeTicket, Become
    <3>4. new.pc = "failed"
      BY <1>1, <3>2, <3>3 DEF CallStates
    <3> QED
      BY <2>1, <3>1, <3>4 DEF Tells, LoadTells
  <2>3. CASE calls[c].tid # Nowhere
    <3>1. PICK back : back = [calls[c] EXCEPT !.pc = "answered",
                                              !.says = status[calls[c].tid]]
      OBVIOUS
    <3>2. calls' = [calls EXCEPT ![c] = back]
      BY <1>14, <2>3, <3>1 DEF ServeTicket, TypeInv, CallsInv
    <3>3. back = new
      BY <1>2, <3>2, SameCall
    <3>4. new.pc = "answered" /\ new.tid = calls[c].tid /\ new.says = status[new.tid]
      BY <1>1, <3>1, <3>3 DEF CallStates
    <3>5. status' = status
      BY <1>14 DEF ServeTicket, server
    <3>6. status'[new.tid] \in Since(new.says)
      BY <3>4, <3>5, SinceItself
    <3> QED
      BY <2>1, <3>4, <3>6 DEF Tells, LoadTells, Since
  <2> QED
    BY <2>2, <2>3
<1>15. CASE ServeStage2(c)
  <2>1. PICK back : back = [calls[c] EXCEPT !.pc = "answered", !.tid = calls[c].tid,
                                            !.says = calls[c].says]
    OBVIOUS
  <2>2. back = new
    BY <1>1, <1>2, <1>15, <2>1, SameCall DEF ServeStage2, Return
  <2>3. new.pc = "answered" /\ new.tid = calls[c].tid /\ new.says = calls[c].says
    BY <1>1, <2>1, <2>2 DEF CallStates
  <2>4. status' = [status EXCEPT ![new.tid] = Stage2Result(new)]
    BY <1>9, <1>15, <2>3 DEF ServeStage2, Stage2Result
  <2>5. new.tid \in Tickets => status'[new.tid] = Stage2Result(new)
    BY <1>7, <2>4
  <2>6. Item("waiting", new.tid, new.msg) \in area'
    BY <1>3, <1>6, <1>9, <1>15, <2>3 DEF Tells, Stage2Tells, ServeStage2
  <2>7. new.what \in {"resolution", "timeline"}
    BY <1>9, <1>15 DEF ServeStage2
  <2> QED
    BY <2>3, <2>5, <2>6, <2>7 DEF Tells, Stage2Tells, Stage2Result
<1> QED
  BY <1>8, <1>10, <1>11, <1>12, <1>13, <1>14, <1>15 DEF Goes, Lost, Stage2Raises

LEMMA HeaderEnds ==
  ASSUME TypeInv, AloneInv, ShownInv, HeaderInv, patient, ~Faults, NEW c \in Calls, Ends(c)
  PROVE  HeaderInv'
<1>1. calls[c] \in CallStates /\ GoodCall(calls[c])
  BY CallFields
<1>2. /\ \A d \in Calls : calls'[d].pc = "idle"
      /\ calls[c].pc # "idle" /\ status' = status
  BY EndsAtRest DEF Resting, server
<1>3. Tells(calls[c]) /\ About(calls[c])
  BY <1>2 DEF HeaderInv, ShownInv
<1>4. SUFFICES ASSUME page'.current \in Tickets PROVE HeaderTells'
  BY <1>2 DEF HeaderInv
<1>5. CASE ChatAnswered(c) \/ TicketLoaded(c)
  <2>1. PICK k \in Ids, s \in Statuses \cup {"error"} :
          k = calls[c].tid /\ s = calls[c].says
    BY <1>1, <1>5 DEF ChatAnswered, TicketLoaded, GoodCall
  <2>2. page'.current = k /\ page'.header.shows = s
    <3>1. PICK p : p = page'
      OBVIOUS
    <3>2. p \in {TypingOff(Headed(k, s)), Enabled(TypingOff(Headed(k, s)))}
      BY <1>5, <2>1, <3>1 DEF ChatAnswered, TicketLoaded
    <3> QED
      BY <3>1, <3>2, HeadedFields
  <2>3. s = "error" \/ status[k] \in Since(s)
    BY <1>3, <1>4, <1>5, <2>1, <2>2 DEF ChatAnswered, TicketLoaded, Tells, ChatTells, LoadTells
  <2> QED
    BY <1>2, <2>2, <2>3 DEF HeaderTells, Since
<1>6. CASE ChatFailed(c) \/ LoadFailed(c)
  <2>1. page.current = Nowhere
    BY <1>3, <1>6 DEF ChatFailed, LoadFailed, Tells, ChatTells, LoadTells
  <2>2. PICK p : p = page'
    OBVIOUS
  <2>3. p \in {TypingOff(page), Enabled(TypingOff(page))}
    BY <1>6, <2>2 DEF ChatFailed, LoadFailed
  <2>4. page'.current = page.current
    BY <2>2, <2>3, UnheadedFields
  <2> QED
    BY <1>4, <2>1, <2>4
<1>7. CASE TimelineAsked(c)
  <2>1. calls[c].what = "resolution" /\ calls[c].pc = "answered" /\ calls[c].says = "yes"
        /\ page' = page
    BY <1>7 DEF TimelineAsked
  <2>2. PICK old, new : /\ old = Item("waiting", calls[c].tid, calls[c].msg)
                        /\ new.kind = "timeline"
                        /\ area' = IF old \in area THEN (area \ {old}) \cup {new} ELSE area
    BY <1>7, ReplaceShows, ItemFields DEF TimelineAsked
  <2>3. \E i \in area' : i.kind = "timeline"
    BY <1>3, <2>1, <2>2 DEF Tells, Stage2Tells
  <2>4. page.current = calls[c].tid
    BY <1>3, <2>1 DEF About
  <2>5. status'[page'.current] = "awaiting_timeline"
    BY <1>2, <1>3, <1>4, <2>1, <2>4 DEF Tells, Stage2Tells, Stage2Result
  <2> QED
    BY <2>3, <2>5 DEF HeaderTells
<1>8. CASE Stage2Done(c)
  <2>1. /\ calls[c].pc = "answered"
        /\ \/ calls[c].what = "resolution" /\ calls[c].says = "no"
           \/ calls[c].what = "timeline"
    BY <1>8 DEF Stage2Done
  <2>2. PICK s \in Statuses :
          s = IF calls[c].what = "timeline" THEN "resolved" ELSE "escalated"
    BY DEF Statuses
  <2>3. PICK k \in Ids : k = calls[c].tid
    BY <1>1, <2>1 DEF GoodCall
  <2>4. page' = Headed(k, s)
    BY <1>8, <2>2, <2>3 DEF Stage2Done, Stage2Headed
  <2>5. page'.current = k /\ page'.header.shows = s
    BY <2>4, HeadedFields
  <2>6. status[k] = s
    <3>1. status[k] = Stage2Result(calls[c])
      BY <1>3, <1>4, <2>1, <2>3, <2>5 DEF Tells, Stage2Tells
    <3>2. Stage2Result(calls[c]) = s
      BY <2>1, <2>2 DEF Stage2Result
    <3> QED
      BY <3>1, <3>2
  <2>7. status'[page'.current] \in Since(page'.header.shows)
    BY <1>2, <2>5, <2>6, SinceItself
  <2> QED
    BY <2>7 DEF HeaderTells, Since
<1>9. CASE Stage2Failed(c)
  BY <1>3, <1>9 DEF Stage2Failed, Tells, Stage2Tells
<1> QED
  BY <1>5, <1>6, <1>7, <1>8, <1>9 DEF Ends

LEMMA HeaderUser ==
  ASSUME TypeInv, AloneInv, HeaderInv, patient, NEW c \in Calls, User(c)
  PROVE  HeaderInv'
<1>1. Resting
  BY StartsAlone
<1>2. PICK new : /\ calls' = [calls EXCEPT ![c] = new] /\ new.pc \in {"token", "posted"}
                 /\ new.what \in {"resolution", "timeline"}
                      => Item("waiting", new.tid, new.msg) \in area'
  <2>1. CASE Send(c)
    <3>1. PICK new :
            new = [IdleCall EXCEPT !.pc  = IF token = "none" THEN "token" ELSE "posted",
                               !.msg = spent.sends + 1, !.tid = page.current, !.tok = token]
      OBVIOUS
    <3>2. calls' = [calls EXCEPT ![c] = new]
      BY <2>1, <3>1 DEF Send
    <3>3. new.what = "chat" /\ new.pc \in {"token", "posted"}
      BY <3>1 DEF IdleCall
    <3> QED
      BY <3>2, <3>3
  <2>2. ASSUME NEW k \in listed, OpenTicket(c, k)
        PROVE  \E new : /\ calls' = [calls EXCEPT ![c] = new] /\ new.pc \in {"token", "posted"}
                        /\ new.what \in {"resolution", "timeline"}
                             => Item("waiting", new.tid, new.msg) \in area'
    <3>1. PICK new : new = [IdleCall EXCEPT !.what = "load", !.pc = "posted", !.tid = k]
      OBVIOUS
    <3>2. calls' = [calls EXCEPT ![c] = new]
      BY <2>2, <3>1 DEF OpenTicket
    <3>3. new.what = "load" /\ new.pc = "posted"
      BY <3>1 DEF IdleCall
    <3> QED
      BY <3>2, <3>3
  <2>3. CASE AnswerResolution(c) \/ AnswerTimeline(c)
    <3>1. PICK i, new :
            /\ i \in area
            /\ i.kind \in {"prompt", "timeline"} /\ i.of \in Ids /\ i \in Items
            /\ area' = (area \ {i}) \cup {Item("waiting", i.of, i.msg)}
            /\ calls' = [calls EXCEPT ![c] = new]
            /\ new.what = IF i.kind = "prompt" THEN "resolution" ELSE "timeline"
            /\ new.pc = "posted" /\ new.tid = i.of /\ new.msg = i.msg
            /\ UNCHANGED <<patient, page, listed, listing, token, server, spent>>
      BY <2>3, ClickShows
    <3>2. Item("waiting", new.tid, new.msg) \in area'
      BY <3>1
    <3> QED
      BY <3>1, <3>2
  <2> QED
    BY <2>1, <2>2, <2>3 DEF User
<1>3. calls'[c] = new /\ \A d \in Calls : d # c => calls'[d].pc = "idle"
  BY <1>1, <1>2, OthersRest
<1>4. Tells(new)'
  BY <1>2, <1>3 DEF Tells, ChatTells, LoadTells, Stage2Tells
<1> QED
  BY <1>2, <1>3, <1>4 DEF HeaderInv, Resting, Tells

LEMMA HeaderNext ==
  TypeInv /\ AloneInv /\ ShownInv /\ HeaderInv /\ [Next]_vars => HeaderInv'
<1> SUFFICES ASSUME TypeInv, AloneInv, ShownInv, HeaderInv, [Next]_vars,
                    patient', ~Faults'
             PROVE  HeaderInv'
  BY DEF HeaderInv
<1>1. patient /\ ~Faults
  BY PatientStays, FaultsStay
<1>2. /\ \A c \in Calls : calls[c].pc # "idle" => Tells(calls[c])
      /\ Resting /\ page.current \in Tickets => HeaderTells
  BY <1>1 DEF HeaderInv
<1>3. ASSUME NEW c \in Calls, Goes(c) \/ Ends(c) \/ User(c) PROVE HeaderInv'
  BY <1>1, <1>3, HeaderGoes, HeaderEnds, HeaderUser
<1>4. CASE NewConversation \/ Reload
  <2>1. Resting
    BY <1>1, <1>4, ActsAtRest DEF NewConversation, Reload
  <2>2. \A c \in Calls : calls'[c].pc = "idle"
    BY <1>4, <2>1, ClearsAtRest
  <2>3. page'.current = Null
    <3>1. CASE NewConversation
      <4>1. page \in Pages
        BY DEF TypeInv, PageInv, GoodPage
      <4> QED
        BY <3>1, <4>1 DEF NewConversation, Pages
    <3>2. CASE Reload
      BY <3>2 DEF Reload, FreshPage
    <3> QED
      BY <1>4, <3>1, <3>2
  <2> QED
    BY <2>2, <2>3 DEF HeaderInv
<1>5. CASE Listing \/ TokenExpires \/ UNCHANGED vars
  <2>1. UNCHANGED <<page, area, calls, status>>
    BY <1>5 DEF Listing, ListTokenReturns, ServeList, ListReturns, ListRefused,
                TokenExpires, server, vars
  <2>2. \A c \in Calls : calls[c].pc # "idle" => Tells(calls[c])'
    BY <1>2, <2>1 DEF Tells, ChatTells, LoadTells, Stage2Tells, Stage2Result
  <2>3. (Resting /\ page.current \in Tickets => HeaderTells)'
    BY <1>2, <2>1 DEF Resting, HeaderTells
  <2> QED
    BY <2>1, <2>2, <2>3 DEF HeaderInv
<1>6. ASSUME NEW j \in Tickets, JobMoves(j) PROVE HeaderInv'
  <2>1. UNCHANGED <<page, area, calls>>
    BY <1>6 DEF JobMoves
  <2>2. \A k \in Tickets :
          /\ \A s : status[k] \in Since(s) => status'[k] \in Since(s)
          /\ status[k] \in {"resolved", "awaiting_timeline", "escalated"}
               => status'[k] = status[k]
    BY <1>6, JobsAreSince
  <2>3. \A call : Stage2Result(call) \in {"resolved", "awaiting_timeline", "escalated"}
    BY DEF Stage2Result
  <2>4. ASSUME NEW c \in Calls, calls[c].pc # "idle" PROVE Tells(calls[c])'
    <3>1. PICK call : call = calls[c] /\ call = calls'[c]
      BY <2>1
    <3>2. Tells(call)
      BY <1>2, <2>4, <3>1
    <3>3. ChatTells(call) => ChatTells(call)'
      BY <2>1, <2>2 DEF ChatTells, Since
    <3>4. LoadTells(call) => LoadTells(call)'
      BY <2>1, <2>2 DEF LoadTells, Since
    <3>5. Stage2Tells(call) => Stage2Tells(call)'
      BY <2>1, <2>2, <2>3 DEF Stage2Tells, Stage2Result
    <3>6. Tells(call)'
      BY <3>2, <3>3, <3>4, <3>5 DEF Tells
    <3> QED
      BY <3>1, <3>6
  <2>5. (Resting /\ page.current \in Tickets => HeaderTells)'
    BY <1>2, <2>1, <2>2 DEF Resting, HeaderTells, Since
  <2> QED
    BY <2>1, <2>4, <2>5 DEF HeaderInv
<1> QED
  BY <1>3, <1>4, <1>5, <1>6, NextParts DEF Apart

\* As long as nothing fails, the header of a patient user's page shows the status
\* of the current ticket, unless a job has changed it or its timing is asked about.
THEOREM PatientUserReadsTheStatus == Spec => []HeaderTellsStatus
<1>1. Init => AloneInv /\ ShownInv /\ HeaderInv
  BY DEF Init, AloneInv, ShownInv, HeaderInv, HeaderCurrent, FreshPage, IdleCall
<1> QED
  BY <1>1, TypeInvariant, AloneNext, ShownNext, HeaderNext, HeaderImplies, PTL DEF Spec
=============================================================================
