----------------------- MODULE TicketLifecycle_proofs -----------------------
(***************************************************************************)
(* Theorems about TicketLifecycle for every set of tickets, request slots, *)
(* runners and deadlines, and for every value of the bounds.               *)
(***************************************************************************)
EXTENDS TicketLifecycle, FiniteSetTheorems, TLAPS

-----------------------------------------------------------------------------
(* Type correctness.  TypeOK is not inductive by itself: an action of a    *)
(* busy actor writes the row of the ticket the actor is busy with, so the  *)
(* invariant says that there is one.                                       *)

\* An actor that is between two steps is busy with a ticket.
BusyWithTicket ==
  /\ \A h \in Turns : turns[h].pc # "idle" => turns[h].tid \in Tickets
  /\ stage2.pc # "idle" => stage2.tid \in Tickets
  /\ \A r \in FollowupRunners :
       followup[r].pc \in {"insert", "mark"} => followup[r].cur \in Tickets

TypeInv == TypeOK /\ BusyWithTicket

USE TicketsAssumption, CategoryAssumption, DeadlinesAssumption, NumbersAssumption

\* The rows that the actions store are rows.
LEMMA RowTypes ==
  /\ NoRow \in TicketRows
  /\ FreshTicket \in TicketRows
  /\ \A n \in 0 .. KeepExchanges : Extended(n) \in 0 .. KeepExchanges
BY DEF NoRow, FreshTicket, TicketRows, StoredCategories, Statuses, Extended

\* Changing fields of one row, or the whole row, keeps the table well typed.
LEMMA TableUpdates ==
  ASSUME TypeOK, NEW k \in Tickets
  PROVE  /\ \A row \in TicketRows :
              [tickets EXCEPT ![k] = row] \in [Tickets -> TicketRows]
         /\ \A s \in Statuses :
              [tickets EXCEPT ![k].status = s] \in [Tickets -> TicketRows]
         /\ \A n \in 0 .. KeepExchanges :
              [tickets EXCEPT ![k].exchanges = n] \in [Tickets -> TicketRows]
<1>1. tickets \in [Tickets -> TicketRows] /\ tickets[k] \in TicketRows
  BY DEF TypeOK
<1>2. ASSUME NEW s \in Statuses
      PROVE  [tickets[k] EXCEPT !.status = s] \in TicketRows
  BY <1>1 DEF TicketRows
<1>3. ASSUME NEW n \in 0 .. KeepExchanges
      PROVE  [tickets[k] EXCEPT !.exchanges = n] \in TicketRows
  BY <1>1 DEF TicketRows
<1> QED
  BY <1>1, <1>2, <1>3

\* Setting a status keeps the table well typed.
LEMMA StatusUpdate ==
  ASSUME TypeOK, NEW k \in Tickets, NEW s \in Statuses, SetStatus(k, s)
  PROVE  tickets' \in [Tickets -> TicketRows]
BY TableUpdates DEF SetStatus

\* The statuses that the handlers and the jobs write.
LEMMA WrittenStatuses ==
  {"escalated", "resolved", "awaiting_timeline", "pending_confirmation",
   "auto_closed"} \subseteq Statuses
BY DEF Statuses

\* A turn that starts on an existing row is a busy, well-typed turn.
LEMMA ReadingType ==
  ASSUME NEW k \in Tickets, NEW row \in TicketRows, row.status # "absent",
         NEW msg, NEW pc \in AwaitPoints
  PROVE  /\ Reading(k, row, msg, pc) \in TurnStates
         /\ Reading(k, row, msg, pc).tid = k
         /\ Reading(k, row, msg, pc).pc # "idle"
BY DEF Reading, TurnStates, TicketRows, AwaitPoints

\* Retrieval keeps a turn's ticket and leaves it waiting.
LEMMA RetrievedType ==
  ASSUME NEW turn \in TurnStates, NEW t \in Retrieved(turn)
  PROVE  /\ t \in TurnStates
         /\ t.tid = turn.tid
         /\ t.pc # "idle"
         /\ t.status = turn.status
<1>1. CASE t = [turn EXCEPT !.pc = "no_transaction"]
  BY <1>1 DEF TurnStates, AwaitPoints
<1>2. ASSUME NEW high \in BOOLEAN,
             t = [turn EXCEPT !.pc = "compose", !.risky = @ \/ high]
      PROVE  /\ t \in TurnStates
             /\ t.tid = turn.tid
             /\ t.pc # "idle"
             /\ t.status = turn.status
  <2> DEFINE risk == turn.risky \/ high
  <2>1. risk \in BOOLEAN
    OBVIOUS
  <2>2. t = [turn EXCEPT !.pc = "compose", !.risky = risk]
    BY <1>2
  <2> HIDE DEF risk
  <2> QED
    BY <2>1, <2>2 DEF TurnStates, AwaitPoints
<1> QED
  BY <1>1, <1>2 DEF Retrieved

LEMMA IdleTypes ==
  /\ IdleTurn \in TurnStates /\ IdleTurn.pc = "idle"
  /\ IdleStage2 \in Stage2States /\ IdleStage2.pc = "idle"
  /\ IdleJob \in JobStates /\ IdleJob.pc = "idle"
  /\ NoReply \in Replies
BY DEF IdleTurn, TurnStates, IdleStage2, Stage2States, IdleJob, JobStates,
       NoReply, Replies, Statuses, StoredCategories, AwaitPoints

LEMMA NextTicketType ==
  ASSUME NEW rest \in SUBSET Tickets
  PROVE  /\ NextTicket(rest) \in JobStates
         /\ NextTicket(rest).pc \notin {"insert", "mark"}
BY IdleTypes DEF NextTicket, JobStates, IdleJob

\* A reply of a known kind about a ticket.
LEMMA ReplyType ==
  ASSUME NEW kind \in ReplyKinds, NEW k \in Tickets, NEW risky \in BOOLEAN
  PROVE  [kind |-> kind, to |-> k, risky |-> risky] \in Replies
BY DEF Replies

\* The initial state is well typed and nobody is busy.
LEMMA TypeInit == Init => TypeInv
<1> SUFFICES ASSUME Init PROVE TypeInv
  OBVIOUS
<1>1. tickets \in [Tickets -> TicketRows]
  BY RowTypes DEF Init
<1>2. followups \in [Tickets -> Seq(FollowupRows)]
  BY DEF Init
<1>3. /\ turns \in [Turns -> TurnStates]
      /\ stage2 \in Stage2States
      /\ followup \in [FollowupRunners -> JobStates]
      /\ autoclose \in [AutocloseRunners -> JobStates]
      /\ reply \in Replies
  BY IdleTypes DEF Init
<1>4. BusyWithTicket
  BY IdleTypes DEF Init, BusyWithTicket
<1>5. TypeOK
  BY <1>1, <1>2, <1>3 DEF Init, TypeOK
<1> QED
  BY <1>4, <1>5 DEF TypeInv

\* The first step of a chat turn.
LEMMA TypeTurnStarts ==
  ASSUME TypeInv, NEW h \in Turns, TurnStarts(h)
  PROVE  TypeInv'
<1> USE DEF TypeInv, ChatFrame, jobs, Silent
<1>0. spent' \in [requests : 0 .. MaxRequests, answers : 0 .. MaxAnswers,
                  faults : 0 .. MaxFaults]
  <2>1. spent.requests \in 0 .. MaxRequests /\ spent.requests < MaxRequests
    BY DEF TypeOK, TurnStarts, ChatNewTicket, ChatAutoConfirm, ChatStillWaiting,
           ChatEscalatedFollowUp, ChatClassify, ChatFollowUp, Receive
  <2>2. spent' = [spent EXCEPT !.requests = @ + 1]
    BY DEF TurnStarts, ChatNewTicket, ChatAutoConfirm, ChatStillWaiting,
           ChatEscalatedFollowUp, ChatClassify, ChatFollowUp, Receive
  <2>3. spent' = [requests |-> spent.requests + 1, answers |-> spent.answers,
                  faults |-> spent.faults]
    BY <2>2 DEF TypeOK
  <2> QED
    BY <2>1, <2>3 DEF TypeOK
<1>1. CASE ChatNewTicket(h)
  <2>1. PICK k \in Tickets, msg \in Messages :
          /\ tickets' = [tickets EXCEPT ![k] = FreshTicket]
          /\ turns' = [turns EXCEPT
                         ![h] = Reading(k, FreshTicket, msg, "classify")]
    BY <1>1 DEF ChatNewTicket
  <2>2. tickets' \in [Tickets -> TicketRows]
    BY <2>1, RowTypes, TableUpdates
  <2>3. FreshTicket.status # "absent" /\ "classify" \in AwaitPoints
    BY DEF FreshTicket, AwaitPoints
  <2>4. /\ turns' \in [Turns -> TurnStates]
        /\ turns'[h].tid = k
    BY <2>1, <2>3, RowTypes, ReadingType DEF TypeOK
  <2>5. \A g \in Turns : turns'[g].pc # "idle" => turns'[g].tid \in Tickets
    BY <2>1, <2>4 DEF BusyWithTicket, TypeOK
  <2> QED
    BY <1>0, <1>1, <2>2, <2>4, <2>5, IdleTypes
    DEF TypeOK, BusyWithTicket, ChatNewTicket, Receive
<1>2. CASE ChatAutoConfirm(h)
  <2>1. PICK k \in Tickets :
          /\ SetStatus(k, "resolved")
          /\ Say("confirmed", k, FALSE)
    BY <1>2 DEF ChatAutoConfirm
  <2>2. tickets' \in [Tickets -> TicketRows]
    BY <2>1, TableUpdates DEF SetStatus, Statuses
  <2>3. reply' \in Replies
    BY <2>1, ReplyType DEF Say, ReplyKinds
  <2> QED
    BY <1>0, <1>2, <2>1, <2>2, <2>3
    DEF TypeOK, BusyWithTicket, ChatAutoConfirm, Receive
<1>3. CASE ChatStillWaiting(h)
  <2>1. reply' \in Replies
    BY <1>3, ReplyType DEF ChatStillWaiting, Say, ReplyKinds
  <2> QED
    BY <1>0, <1>3, <2>1 DEF TypeOK, BusyWithTicket, ChatStillWaiting, Receive
<1>4. ASSUME NEW t \in TurnStates, t.tid \in Tickets,
             turns' = [turns EXCEPT ![h] = t],
             ChatEscalatedFollowUp(h) \/ ChatClassify(h) \/ ChatFollowUp(h)
      PROVE  TypeInv'
  BY <1>0, <1>4, IdleTypes
  DEF TypeOK, BusyWithTicket, ChatEscalatedFollowUp, ChatClassify, ChatFollowUp,
      Receive
<1>5. CASE ChatEscalatedFollowUp(h)
  <2>1. PICK k \in Tickets, msg \in Messages :
          /\ tickets[k].status = "escalated"
          /\ turns' = [turns EXCEPT
                         ![h] = Reading(k, tickets[k], msg, "post_escalation")]
    BY <1>5 DEF ChatEscalatedFollowUp
  <2>2. tickets[k] \in TicketRows /\ "post_escalation" \in AwaitPoints
    BY DEF TypeOK, AwaitPoints
  <2>3. /\ Reading(k, tickets[k], msg, "post_escalation") \in TurnStates
        /\ Reading(k, tickets[k], msg, "post_escalation").tid = k
    BY <2>1, <2>2, ReadingType
  <2>9. \E t \in TurnStates : t.tid \in Tickets /\ turns' = [turns EXCEPT ![h] = t]
    BY <2>1, <2>3
  <2> QED
    BY <1>4, <1>5, <2>9
<1>6. CASE ChatClassify(h)
  <2>1. PICK k \in Tickets, msg \in Messages :
          /\ Exists(k)
          /\ turns' = [turns EXCEPT
                         ![h] = Reading(k, tickets[k], msg, "classify")]
    BY <1>6 DEF ChatClassify
  <2>2. tickets[k] \in TicketRows /\ "classify" \in AwaitPoints
    BY DEF TypeOK, AwaitPoints
  <2>3. /\ Reading(k, tickets[k], msg, "classify") \in TurnStates
        /\ Reading(k, tickets[k], msg, "classify").tid = k
    BY <2>1, <2>2, ReadingType DEF Exists
  <2>9. \E t \in TurnStates : t.tid \in Tickets /\ turns' = [turns EXCEPT ![h] = t]
    BY <2>1, <2>3
  <2> QED
    BY <1>4, <1>6, <2>9
<1>7. CASE ChatFollowUp(h)
  <2>1. PICK k \in Tickets, msg \in Messages :
          /\ Exists(k)
          /\ \E t \in Retrieved(Reading(k, tickets[k], msg, "compose")) :
               turns' = [turns EXCEPT ![h] = t]
    BY <1>7 DEF ChatFollowUp
  <2>2. tickets[k] \in TicketRows /\ "compose" \in AwaitPoints
    BY DEF TypeOK, AwaitPoints
  <2>3. /\ Reading(k, tickets[k], msg, "compose") \in TurnStates
        /\ Reading(k, tickets[k], msg, "compose").tid = k
    BY <2>1, <2>2, ReadingType DEF Exists
  <2>9. \E t \in TurnStates : t.tid \in Tickets /\ turns' = [turns EXCEPT ![h] = t]
    BY <2>1, <2>3, RetrievedType
  <2> QED
    BY <1>4, <1>7, <2>9
<1> QED
  BY <1>1, <1>2, <1>3, <1>5, <1>6, <1>7 DEF TurnStarts

\* The steps of a chat turn after an await.
LEMMA TypeTurnResumes ==
  ASSUME TypeInv, NEW h \in Turns, TurnResumes(h)
  PROVE  TypeInv'
<1> DEFINE turn == turns[h]
           Others == <<followups, calibrations, stage2, followup, autoclose,
                       loop, now, spent>>
<1>1. /\ turn \in TurnStates
      /\ turn.pc # "idle"
      /\ turn.tid \in Tickets
      /\ UNCHANGED Others
  BY DEF TypeInv, TypeOK, BusyWithTicket, TurnResumes, ClassifyReturns,
         PostEscalationReply, UnclearEscalated, ClarifyReply, OutOfScopeReply,
         NoTransactionReply, ComposeRetry, ComposeUnavailable, PolicyExhausted,
         QualityBarRaises, DeliverCard, Resume, ChatFrame, jobs
<1>2. ASSUME tickets' \in [Tickets -> TicketRows],
             NEW t \in TurnStates, t.pc # "idle" => t.tid \in Tickets,
             turns' = [turns EXCEPT ![h] = t],
             reply' \in Replies,
             clarified' \in [Tickets -> Nat]
      PROVE  TypeInv'
  BY <1>1, <1>2 DEF TypeInv, TypeOK, BusyWithTicket
<1>3. ASSUME Finish(h), tickets' \in [Tickets -> TicketRows],
             NEW kind \in ReplyKinds, Say(kind, turn.tid, turn.risky),
             clarified' \in [Tickets -> Nat]
      PROVE  TypeInv'
  <2>1. turn.risky \in BOOLEAN
    BY <1>1 DEF TurnStates
  <2>2. reply' \in Replies
    BY <1>1, <1>3, <2>1, ReplyType DEF Say
  <2> QED
    BY <1>2, <1>3, <2>2, IdleTypes DEF Finish
<1>4. tickets \in [Tickets -> TicketRows] /\ clarified \in [Tickets -> Nat]
  BY DEF TypeInv, TypeOK
<1>5. Extended(turn.exchanges) \in 0 .. KeepExchanges
  BY <1>1, RowTypes DEF TurnStates
<1>6. SaveHistory(turn.tid, turn) => tickets' \in [Tickets -> TicketRows]
  BY <1>1, <1>5, TableUpdates DEF SaveHistory, TypeInv
<1>7. SetStatus(turn.tid, "escalated") => tickets' \in [Tickets -> TicketRows]
  BY <1>1, StatusUpdate, WrittenStatuses DEF TypeInv
<1>8. CASE ClassifyReturns(h)
  <2>1. /\ reply' \in Replies
        /\ UNCHANGED <<tickets, clarified>>
    BY <1>8, IdleTypes DEF ClassifyReturns, Silent
  <2>2. CASE \E t \in UNION {Retrieved([turn EXCEPT !.category = c])
                               : c \in Resolvable} :
               turns' = [turns EXCEPT ![h] = t]
    <3>0. PICK c \in Resolvable :
            \E t \in Retrieved([turn EXCEPT !.category = c]) :
              turns' = [turns EXCEPT ![h] = t]
      BY <2>2
    <3>1. PICK t \in Retrieved([turn EXCEPT !.category = c]) :
            turns' = [turns EXCEPT ![h] = t]
      BY <3>0
    <3>2. /\ [turn EXCEPT !.category = c] \in TurnStates
          /\ [turn EXCEPT !.category = c].tid = turn.tid
      BY <1>1 DEF TurnStates, StoredCategories
    <3>3. t \in TurnStates /\ t.tid = turn.tid
      BY <3>2, RetrievedType
    <3> QED
      BY <1>1, <1>2, <1>4, <2>1, <3>1, <3>3
  <2>3. ASSUME NEW pc \in AwaitPoints, turns' = [turns EXCEPT ![h].pc = pc]
        PROVE  TypeInv'
    <3>1. /\ [turn EXCEPT !.pc = pc] \in TurnStates
          /\ [turn EXCEPT !.pc = pc].tid = turn.tid
      BY <1>1 DEF TurnStates
    <3>2. turns' = [turns EXCEPT ![h] = [turn EXCEPT !.pc = pc]]
      BY <2>3
    <3> QED
      BY <1>1, <1>2, <1>4, <2>1, <3>1, <3>2
  <2>4. {"out_of_scope", "unclear_escalated", "clarify"} \subseteq AwaitPoints
    BY DEF AwaitPoints
  <2> QED
    BY <1>8, <2>2, <2>3, <2>4 DEF ClassifyReturns
<1>9. CASE PostEscalationReply(h)
  BY <1>3, <1>4, <1>6, <1>9 DEF PostEscalationReply, ReplyKinds
<1>10. CASE UnclearEscalated(h)
  BY <1>3, <1>4, <1>7, <1>10 DEF UnclearEscalated, ReplyKinds
<1>11. CASE ClarifyReply(h)
  <2>1. clarified' \in [Tickets -> Nat]
    BY <1>1, <1>4, <1>11 DEF ClarifyReply
  <2> QED
    BY <1>3, <1>6, <1>11, <2>1 DEF ClarifyReply, ReplyKinds
<1>12. CASE OutOfScopeReply(h)
  <2> DEFINE row == [tickets[turn.tid] EXCEPT
                       !.category  = "OUT_OF_SCOPE",
                       !.exchanges = Extended(turn.exchanges)]
  <2>1. row \in TicketRows
    BY <1>1, <1>4, <1>5 DEF TicketRows, StoredCategories
  <2>2. tickets' = [tickets EXCEPT ![turn.tid] = row]
    BY <1>1, <1>4, <1>12 DEF OutOfScopeReply
  <2>3. tickets' \in [Tickets -> TicketRows]
    BY <1>1, <2>1, <2>2, TableUpdates DEF TypeInv
  <2> QED
    BY <1>3, <1>4, <1>12, <2>3 DEF OutOfScopeReply, ReplyKinds
<1>13. CASE NoTransactionReply(h)
  BY <1>3, <1>4, <1>6, <1>13 DEF NoTransactionReply, ReplyKinds
<1>14. CASE ComposeRetry(h)
  <2>1. [turn EXCEPT !.attempt = @ + 1] \in TurnStates
    BY <1>1, <1>14 DEF ComposeRetry, LastAttempt, TurnStates
  <2>2. turns' = [turns EXCEPT ![h] = [turn EXCEPT !.attempt = @ + 1]]
    BY <1>14 DEF ComposeRetry
  <2>3. [turn EXCEPT !.attempt = @ + 1].tid \in Tickets
    BY <1>1 DEF TurnStates
  <2> QED
    BY <1>2, <1>4, <1>14, <2>1, <2>2, <2>3, IdleTypes DEF ComposeRetry, Silent
<1>15. CASE ComposeUnavailable(h)
  BY <1>3, <1>4, <1>15 DEF ComposeUnavailable, ReplyKinds
<1>16. CASE PolicyExhausted(h)
  BY <1>3, <1>4, <1>7, <1>16 DEF PolicyExhausted, ReplyKinds
<1>17. CASE QualityBarRaises(h)
  BY <1>3, <1>4, <1>17 DEF QualityBarRaises, ReplyKinds
<1>18. CASE DeliverCard(h)
  <2>1. PICK card \in Cards, d \in Deadlines :
          tickets' = [tickets EXCEPT ![turn.tid] =
                        [status    |-> StatusAfter(card, turn),
                         category  |-> turn.category,
                         deadline  |-> d,
                         exchanges |-> Extended(turn.exchanges)]]
    BY <1>18 DEF DeliverCard
  <2>2. StatusAfter(card, turn) \in Statuses
    BY <1>1 DEF StatusAfter, TurnStates, Statuses
  <2>3. [status    |-> StatusAfter(card, turn),
         category  |-> turn.category,
         deadline  |-> d,
         exchanges |-> Extended(turn.exchanges)] \in TicketRows
    BY <1>1, <1>5, <2>2 DEF TicketRows, TurnStates
  <2>4. tickets' \in [Tickets -> TicketRows]
    BY <1>1, <2>1, <2>3, TableUpdates DEF TypeInv
  <2> QED
    BY <1>3, <1>4, <1>18, <2>4 DEF DeliverCard, ReplyKinds
<1> QED
  BY <1>8, <1>9, <1>10, <1>11, <1>12, <1>13, <1>14, <1>15, <1>16, <1>17, <1>18
  DEF TurnResumes

\* Rewriting a field of every follow-up row of a ticket keeps their type.
LEMMA RowsRewritten ==
  ASSUME NEW rows \in Seq(FollowupRows), NEW F(_),
         \A i \in DOMAIN rows : F(i) \in FollowupRows
  PROVE  [i \in DOMAIN rows |-> F(i)] \in Seq(FollowupRows)
<1>1. DOMAIN rows = 1 .. Len(rows) /\ Len(rows) \in Nat
  OBVIOUS
<1> QED
  BY <1>1

\* The stage 2 endpoints.
LEMMA TypeAnswers ==
  ASSUME TypeInv, AnswerStarts \/ AnswerContinues
  PROVE  TypeInv'
<1> DEFINE Others == <<turns, followup, autoclose, now, clarified>>
<1>1. /\ UNCHANGED Others
      /\ reply' \in Replies
  BY IdleTypes DEF AnswerStarts, AnswerContinues, Stage2Response, Stage2Timeline,
       Stage2ResponseRows, Stage2TimelineResolve, Stage2TimelinePattern,
       StartAnswer, ContinueAnswer, Stage2Frame, Silent
<1>2. spent' \in [requests : 0 .. MaxRequests, answers : 0 .. MaxAnswers,
                  faults : 0 .. MaxFaults]
  <2>1. CASE AnswerStarts
    <3>1. spent.answers \in 0 .. MaxAnswers /\ spent.answers < MaxAnswers
      BY <2>1 DEF TypeInv, TypeOK, AnswerStarts, Stage2Response, Stage2Timeline,
                  StartAnswer
    <3>2. spent' = [requests |-> spent.requests, answers |-> spent.answers + 1,
                    faults |-> spent.faults]
      BY <2>1 DEF TypeInv, TypeOK, AnswerStarts, Stage2Response, Stage2Timeline,
                  StartAnswer
    <3> QED
      BY <3>1, <3>2 DEF TypeInv, TypeOK
  <2>2. CASE AnswerContinues
    BY <2>2 DEF TypeInv, TypeOK, AnswerContinues, Stage2ResponseRows,
                Stage2TimelineResolve, Stage2TimelinePattern, ContinueAnswer
  <2> QED
    BY <2>1, <2>2
<1>3. ASSUME tickets' \in [Tickets -> TicketRows],
             followups' \in [Tickets -> Seq(FollowupRows)],
             calibrations' \in Nat,
             stage2' \in Stage2States,
             stage2'.pc # "idle" => stage2'.tid \in Tickets,
             loop' \in {"free", "stage2", "followup", "autoclose"}
      PROVE  TypeInv'
  BY <1>1, <1>2, <1>3 DEF TypeInv, TypeOK, BusyWithTicket
<1>4. ASSUME NEW k \in Tickets, NEW rows \in Seq(FollowupRows),
             followups' = [followups EXCEPT ![k] = rows]
      PROVE  followups' \in [Tickets -> Seq(FollowupRows)]
  BY <1>4 DEF TypeInv, TypeOK
<1>5. CASE Stage2Response
  <2>1. PICK k \in Tickets, a \in {"yes", "no"} :
          /\ SetStatus(k, IF a = "yes" THEN "awaiting_timeline" ELSE "escalated")
          /\ stage2' = [pc |-> "rows", tid |-> k, answer |-> a]
    BY <1>5 DEF Stage2Response
  <2>2. tickets' \in [Tickets -> TicketRows]
    BY <2>1, StatusUpdate, WrittenStatuses DEF TypeInv
  <2>3. stage2' \in Stage2States /\ stage2'.tid \in Tickets
    BY <2>1 DEF Stage2States
  <2> QED
    BY <1>3, <1>5, <2>1, <2>2, <2>3
    DEF Stage2Response, StartAnswer, TypeInv, TypeOK
<1>6. CASE Stage2ResponseRows
  <2> DEFINE k == stage2.tid
             Row(i) == [followups[k][i] EXCEPT !.confirmed = (stage2.answer = "yes")]
  <2>1. k \in Tickets /\ followups[k] \in Seq(FollowupRows)
    BY <1>6 DEF TypeInv, TypeOK, BusyWithTicket, Stage2ResponseRows, ContinueAnswer
  <2>2. \A i \in DOMAIN followups[k] : Row(i) \in FollowupRows
    <3>1. \A i \in DOMAIN followups[k] : followups[k][i] \in FollowupRows
      BY <2>1
    <3> QED
      BY <3>1 DEF FollowupRows
  <2>3. followups' = [followups EXCEPT ![k] = [i \in DOMAIN followups[k] |-> Row(i)]]
    BY <1>6, <2>1 DEF Stage2ResponseRows, TypeInv, TypeOK
  <2> HIDE DEF Row, k
  <2>4. [i \in DOMAIN followups[k] |-> Row(i)] \in Seq(FollowupRows)
    BY <2>1, <2>2, RowsRewritten
  <2>5. followups' \in [Tickets -> Seq(FollowupRows)]
    BY <1>4, <2>1, <2>3, <2>4
  <2> QED
    BY <1>3, <1>6, <2>5, IdleTypes
    DEF Stage2ResponseRows, EndAnswer, TypeInv, TypeOK
<1>7. CASE Stage2Timeline
  <2>1. PICK k \in Tickets, a \in TimelineAnswers :
          /\ followups' = [followups EXCEPT ![k] =
               [i \in DOMAIN @ |-> [followups[k][i] EXCEPT !.timeline = a]]]
          /\ stage2' = [pc |-> "resolve", tid |-> k, answer |-> Null]
    BY <1>7 DEF Stage2Timeline
  <2> DEFINE Row(i) == [followups[k][i] EXCEPT !.timeline = a]
  <2>2. followups[k] \in Seq(FollowupRows)
    BY DEF TypeInv, TypeOK
  <2>3. \A i \in DOMAIN followups[k] : Row(i) \in FollowupRows
    <3>1. \A i \in DOMAIN followups[k] : followups[k][i] \in FollowupRows
      BY <2>2
    <3> QED
      BY <3>1 DEF FollowupRows
  <2>4. followups' = [followups EXCEPT ![k] = [i \in DOMAIN followups[k] |-> Row(i)]]
    BY <2>1 DEF TypeInv, TypeOK
  <2>5. stage2' \in Stage2States /\ stage2'.tid \in Tickets
    BY <2>1 DEF Stage2States
  <2> HIDE DEF Row
  <2>6. [i \in DOMAIN followups[k] |-> Row(i)] \in Seq(FollowupRows)
    BY <2>2, <2>3, RowsRewritten
  <2>7. followups' \in [Tickets -> Seq(FollowupRows)]
    BY <1>4, <2>4, <2>6
  <2> QED
    BY <1>3, <1>7, <2>5, <2>7 DEF Stage2Timeline, StartAnswer, TypeInv, TypeOK
<1>8. CASE Stage2TimelineResolve
  <2>1. stage2.tid \in Tickets
    BY <1>8 DEF TypeInv, BusyWithTicket, Stage2TimelineResolve, ContinueAnswer
  <2>2. tickets' \in [Tickets -> TicketRows]
    BY <1>8, <2>1, StatusUpdate, WrittenStatuses DEF TypeInv, Stage2TimelineResolve
  <2>3. stage2' \in Stage2States /\ stage2'.tid \in Tickets
    BY <1>8, <2>1 DEF Stage2TimelineResolve, Stage2States, TypeInv, TypeOK
  <2> QED
    BY <1>3, <1>8, <2>1, <2>2, <2>3 DEF Stage2TimelineResolve, TypeInv, TypeOK
<1>9. CASE Stage2TimelinePattern
  <2>1. calibrations' = calibrations \/ calibrations' = calibrations + 1
    BY <1>9 DEF Stage2TimelinePattern
  <2>2. calibrations' \in Nat
    BY <2>1 DEF TypeInv, TypeOK
  <2> QED
    BY <1>3, <1>9, <2>2, IdleTypes
    DEF Stage2TimelinePattern, EndAnswer, TypeInv, TypeOK
<1> QED
  BY <1>5, <1>6, <1>7, <1>8, <1>9 DEF AnswerStarts, AnswerContinues

\* The follow-up and the auto-close jobs.
LEMMA TypeJobs ==
  ASSUME TypeInv,
         \/ \E r \in FollowupRunners : FollowupSelect(r) \/ FollowupContinues(r)
         \/ \E r \in AutocloseRunners : AutocloseSelect(r) \/ AutocloseUpdate(r)
  PROVE  TypeInv'
<1>1. ASSUME JobFrame,
             tickets' \in [Tickets -> TicketRows],
             followups' \in [Tickets -> Seq(FollowupRows)],
             followup' \in [FollowupRunners -> JobStates],
             \A r \in FollowupRunners :
               followup'[r].pc \in {"insert", "mark"} => followup'[r].cur \in Tickets,
             autoclose' \in [AutocloseRunners -> JobStates],
             loop' \in {"free", "stage2", "followup", "autoclose"}
      PROVE  TypeInv'
  BY <1>1, IdleTypes DEF JobFrame, Silent, TypeInv, TypeOK, BusyWithTicket
<1>2. /\ tickets \in [Tickets -> TicketRows]
      /\ followups \in [Tickets -> Seq(FollowupRows)]
      /\ followup \in [FollowupRunners -> JobStates]
      /\ autoclose \in [AutocloseRunners -> JobStates]
      /\ loop \in {"free", "stage2", "followup", "autoclose"}
      /\ \A r \in FollowupRunners :
           followup[r].pc \in {"insert", "mark"} => followup[r].cur \in Tickets
  BY DEF TypeInv, TypeOK, BusyWithTicket
<1>3. ASSUME NEW r, NEW job \in {"followup", "autoclose"}, NEW rest,
             LoopDuring(r, job, rest)
      PROVE  loop' \in {"free", "stage2", "followup", "autoclose"}
  BY <1>2, <1>3 DEF LoopDuring
<1>4. ASSUME NEW r \in FollowupRunners, NEW s \in JobStates,
             s.pc \in {"insert", "mark"} => s.cur \in Tickets,
             followup' = [followup EXCEPT ![r] = s]
      PROVE  /\ followup' \in [FollowupRunners -> JobStates]
             /\ \A q \in FollowupRunners :
                  followup'[q].pc \in {"insert", "mark"} => followup'[q].cur \in Tickets
  BY <1>2, <1>4
<1>5. ASSUME NEW r \in FollowupRunners, NEW rest \in SUBSET Tickets,
             followup' = [followup EXCEPT ![r] = NextTicket(rest)]
      PROVE  /\ followup' \in [FollowupRunners -> JobStates]
             /\ \A q \in FollowupRunners :
                  followup'[q].pc \in {"insert", "mark"} => followup'[q].cur \in Tickets
  <2>1. /\ NextTicket(rest) \in JobStates
        /\ NextTicket(rest).pc \notin {"insert", "mark"}
    BY NextTicketType
  <2> QED
    BY <1>4, <1>5, <2>1
<1>6. ASSUME NEW r \in FollowupRunners, FollowupSelect(r)
      PROVE  TypeInv'
  <2>1. DueForFollowup \in SUBSET Tickets
    BY DEF DueForFollowup
  <2>2. /\ followup' = [followup EXCEPT ![r] = NextTicket(DueForFollowup)]
        /\ LoopDuring(r, "followup", DueForFollowup)
        /\ JobFrame /\ UNCHANGED <<tickets, followups, autoclose>>
    BY <1>6 DEF FollowupSelect
  <2> QED
    BY <1>1, <1>2, <1>3, <1>5, <2>1, <2>2
<1>7. ASSUME NEW r \in FollowupRunners, FollowupCheck(r)
      PROVE  TypeInv'
  <2>1. PICK k \in followup[r].work :
          LET rest == followup[r].work \ {k} IN
          \/ /\ followup' = [followup EXCEPT ![r] = NextTicket(rest)]
             /\ LoopDuring(r, "followup", rest)
          \/ /\ followup' = [followup EXCEPT
                               ![r] = [pc |-> "insert", work |-> rest, cur |-> k]]
             /\ UNCHANGED loop
    BY <1>7 DEF FollowupCheck
  <2>2. k \in Tickets /\ followup[r].work \ {k} \in SUBSET Tickets
    BY <1>2 DEF JobStates
  <2>3. /\ followup' \in [FollowupRunners -> JobStates]
        /\ \A q \in FollowupRunners :
             followup'[q].pc \in {"insert", "mark"} => followup'[q].cur \in Tickets
    <3>1. CASE followup' = [followup EXCEPT ![r] = NextTicket(followup[r].work \ {k})]
      BY <1>5, <2>2, <3>1
    <3>2. CASE followup' = [followup EXCEPT ![r] =
                 [pc |-> "insert", work |-> followup[r].work \ {k}, cur |-> k]]
      <4>1. [pc |-> "insert", work |-> followup[r].work \ {k}, cur |-> k] \in JobStates
        BY <2>2 DEF JobStates
      <4> QED
        BY <1>4, <2>2, <3>2, <4>1
    <3> QED
      BY <2>1, <3>1, <3>2
  <2>4. loop' \in {"free", "stage2", "followup", "autoclose"}
    BY <1>2, <1>3, <2>1
  <2> QED
    BY <1>1, <1>2, <1>7, <2>3, <2>4 DEF FollowupCheck
<1>8. ASSUME NEW r \in FollowupRunners, FollowupInsert(r)
      PROVE  TypeInv'
  <2> DEFINE k   == followup[r].cur
             row == [confirmed |-> FALSE, timeline |-> Null, created |-> now]
  <2>1. k \in Tickets
    BY <1>2, <1>8 DEF FollowupInsert
  <2>2. row \in FollowupRows
    BY DEF FollowupRows, TypeInv, TypeOK
  <2>3. followups' = [followups EXCEPT ![k] = Append(followups[k], row)]
    BY <1>8 DEF FollowupInsert
  <2>4. Append(followups[k], row) \in Seq(FollowupRows)
    BY <1>2, <2>1, <2>2
  <2>5. followups' \in [Tickets -> Seq(FollowupRows)]
    BY <1>2, <2>1, <2>3, <2>4
  <2>6. /\ [followup[r] EXCEPT !.pc = "mark"] \in JobStates
        /\ [followup[r] EXCEPT !.pc = "mark"].cur = k
    BY <1>2 DEF JobStates
  <2>7. followup' = [followup EXCEPT ![r] = [followup[r] EXCEPT !.pc = "mark"]]
    BY <1>8 DEF FollowupInsert
  <2>8. /\ followup' \in [FollowupRunners -> JobStates]
        /\ \A q \in FollowupRunners :
             followup'[q].pc \in {"insert", "mark"} => followup'[q].cur \in Tickets
    BY <1>4, <2>1, <2>6, <2>7
  <2> QED
    BY <1>1, <1>2, <1>8, <2>5, <2>8 DEF FollowupInsert
<1>9. ASSUME NEW r \in FollowupRunners, FollowupMark(r)
      PROVE  TypeInv'
  <2>1. followup[r].cur \in Tickets /\ followup[r].work \in SUBSET Tickets
    BY <1>2, <1>9 DEF FollowupMark, JobStates
  <2>2. tickets' \in [Tickets -> TicketRows]
    BY <1>9, <2>1, StatusUpdate, WrittenStatuses DEF TypeInv, FollowupMark
  <2>3. /\ followup' = [followup EXCEPT ![r] = NextTicket(followup[r].work)]
        /\ LoopDuring(r, "followup", followup[r].work)
        /\ JobFrame /\ UNCHANGED <<followups, autoclose>>
    BY <1>9 DEF FollowupMark
  <2> QED
    BY <1>1, <1>2, <1>3, <1>5, <2>1, <2>2, <2>3
<1>10. ASSUME NEW r \in AutocloseRunners, AutocloseSelect(r)
       PROVE  TypeInv'
  <2>1. NextTicket(DueForClosing) \in JobStates
    BY NextTicketType DEF DueForClosing
  <2>2. /\ autoclose' = [autoclose EXCEPT ![r] = NextTicket(DueForClosing)]
        /\ LoopDuring(r, "autoclose", DueForClosing)
        /\ JobFrame /\ UNCHANGED <<tickets, followups, followup>>
    BY <1>10 DEF AutocloseSelect
  <2> QED
    BY <1>1, <1>2, <1>3, <2>1, <2>2
<1>11. ASSUME NEW r \in AutocloseRunners, AutocloseUpdate(r)
       PROVE  TypeInv'
  <2>1. PICK k \in autoclose[r].work :
          /\ SetStatus(k, "auto_closed")
          /\ autoclose' = [autoclose EXCEPT
                             ![r] = NextTicket(autoclose[r].work \ {k})]
          /\ LoopDuring(r, "autoclose", autoclose[r].work \ {k})
    BY <1>11 DEF AutocloseUpdate
  <2>2. k \in Tickets /\ autoclose[r].work \ {k} \in SUBSET Tickets
    BY <1>2 DEF JobStates
  <2>3. tickets' \in [Tickets -> TicketRows]
    BY <2>1, <2>2, StatusUpdate, WrittenStatuses DEF TypeInv
  <2>4. NextTicket(autoclose[r].work \ {k}) \in JobStates
    BY <2>2, NextTicketType
  <2>5. autoclose' \in [AutocloseRunners -> JobStates]
    BY <1>2, <2>1, <2>4
  <2>6. JobFrame /\ UNCHANGED <<followups, followup>>
    BY <1>11 DEF AutocloseUpdate
  <2> QED
    BY <1>1, <1>2, <1>3, <2>1, <2>3, <2>5, <2>6
<1> QED
  BY <1>6, <1>7, <1>8, <1>9, <1>10, <1>11 DEF FollowupContinues

\* Failures and restarts.
LEMMA TypeFailure ==
  ASSUME TypeInv, Failure
  PROVE  TypeInv'
<1>1. spent' \in [requests : 0 .. MaxRequests, answers : 0 .. MaxAnswers,
                  faults : 0 .. MaxFaults]
  <2>1. /\ spent.faults \in 0 .. MaxFaults /\ spent.faults < MaxFaults
        /\ spent' = [requests |-> spent.requests, answers |-> spent.answers,
                     faults |-> spent.faults + 1]
    BY DEF TypeInv, TypeOK, Failure, TurnFails, AnswerFails, FollowupFails,
           AutocloseFails, Restart, Fault
  <2> QED
    BY <2>1 DEF TypeInv, TypeOK
<1>2. UNCHANGED <<tables, now, clarified>>
  BY DEF Failure, TurnFails, AnswerFails, FollowupFails, AutocloseFails, Restart,
         Fault
<1> USE IdleTypes DEF TypeInv, TypeOK, BusyWithTicket, tables
<1>3. ASSUME NEW h \in Turns, TurnFails(h)
      PROVE  TypeInv'
  <2>1. turns[h].tid \in Tickets /\ turns[h].risky \in BOOLEAN
    BY <1>3 DEF TurnFails, TurnStates
  <2>2. reply' \in Replies
    BY <1>3, <2>1, ReplyType DEF TurnFails, Say, ReplyKinds
  <2> QED
    BY <1>1, <1>2, <1>3, <2>2 DEF TurnFails, Finish, jobs
<1>4. CASE AnswerFails
  BY <1>1, <1>2, <1>4 DEF AnswerFails, EndAnswer, Silent
<1>5. ASSUME NEW r \in FollowupRunners, FollowupFails(r)
      PROVE  TypeInv'
  BY <1>1, <1>2, <1>5 DEF FollowupFails, LoopDuring, Silent
<1>6. ASSUME NEW r \in AutocloseRunners, AutocloseFails(r)
      PROVE  TypeInv'
  BY <1>1, <1>2, <1>6 DEF AutocloseFails, LoopDuring, Silent
<1>7. CASE Restart
  BY <1>1, <1>2, <1>7 DEF Restart, Silent
<1> QED
  BY <1>3, <1>4, <1>5, <1>6, <1>7 DEF Failure

\* Every step keeps the types.
LEMMA TypeStep == TypeInv /\ [Next]_vars => TypeInv'
<1> SUFFICES ASSUME TypeInv, [Next]_vars
             PROVE  TypeInv'
  OBVIOUS
<1>1. CASE Tick
  BY <1>1, IdleTypes
  DEF Tick, Silent, TypeInv, TypeOK, BusyWithTicket, tables, jobs
<1>2. CASE UNCHANGED vars
  BY <1>2 DEF vars, TypeInv, TypeOK, BusyWithTicket, tables, jobs
<1> QED
  BY <1>1, <1>2, TypeTurnStarts, TypeTurnResumes, TypeAnswers, TypeJobs,
     TypeFailure
  DEF Next

\* An actor between two of its steps is busy with a ticket that exists.
LEMMA TypeInvariant == Spec => []TypeInv
<1>1. Init => TypeInv
  BY TypeInit
<1>2. TypeInv /\ [Next]_vars => TypeInv'
  BY TypeStep
<1> QED
  BY <1>1, <1>2, PTL DEF Spec

\* In every reachable state each row, each handler's local variables, each
\* job's progress and each reply is of the kind the code gives it.
THEOREM TypeCorrectness == Spec => []TypeOK
<1>1. TypeInv => TypeOK
  BY DEF TypeInv
<1> QED
  BY <1>1, TypeInvariant, PTL

-----------------------------------------------------------------------------
(* A ticket waits for confirmation only with a follow-up row on record.    *)
(* The invariant has to say the same of whatever can still write the       *)
(* status: a turn that read "pending_confirmation" and may write it back,  *)
(* and a job that is about to mark the ticket.                             *)

FollowupInv ==
  /\ PendingHasFollowup
  /\ \A h \in Turns :
       turns[h].pc # "idle" /\ turns[h].status = "pending_confirmation" =>
         followups[turns[h].tid] # <<>>
  /\ \A r \in FollowupRunners : followup[r].pc = "mark" =>
       followups[followup[r].cur] # <<>>

\* Rewriting the rows of a ticket deletes none of them.
LEMMA RewrittenNonEmpty ==
  ASSUME NEW rows \in Seq(FollowupRows), rows # <<>>,
         NEW new, DOMAIN new = DOMAIN rows
  PROVE  new # <<>>
<1>1. 1 \in DOMAIN rows
  OBVIOUS
<1>2. 1 \notin DOMAIN <<>>
  OBVIOUS
<1> QED
  BY <1>1, <1>2

\* No step deletes the follow-up rows of a ticket.
LEMMA RowsStay ==
  ASSUME TypeInv, [Next]_vars, NEW k \in Tickets, followups[k] # <<>>
  PROVE  followups'[k] # <<>>
<1>1. followups \in [Tickets -> Seq(FollowupRows)]
  BY DEF TypeInv, TypeOK
<1>2. CASE UNCHANGED followups
  BY <1>2
<1>3. CASE Stage2ResponseRows
  <2>1. stage2.tid \in Tickets
    BY <1>3 DEF TypeInv, BusyWithTicket, Stage2ResponseRows, ContinueAnswer
  <2>2. DOMAIN followups'[k] = DOMAIN followups[k]
    BY <1>1, <1>3, <2>1 DEF Stage2ResponseRows
  <2> QED
    BY <1>1, <2>2, RewrittenNonEmpty
<1>4. CASE Stage2Timeline
  <2>1. DOMAIN followups'[k] = DOMAIN followups[k]
    BY <1>1, <1>4 DEF Stage2Timeline
  <2> QED
    BY <1>1, <2>1, RewrittenNonEmpty
<1>5. ASSUME NEW r \in FollowupRunners, FollowupInsert(r)
      PROVE  followups'[k] # <<>>
  <2>1. PICK row : followups' = [followups EXCEPT ![followup[r].cur] = Append(@, row)]
    BY <1>5 DEF FollowupInsert
  <2>2. Append(followups[k], row) # <<>>
    BY <1>1
  <2> QED
    BY <1>1, <2>1, <2>2
<1>6. CASE \E h \in Turns : TurnStarts(h) \/ TurnResumes(h)
  BY <1>2, <1>6
  DEF TurnStarts, ChatNewTicket, ChatAutoConfirm, ChatStillWaiting,
      ChatEscalatedFollowUp, ChatClassify, ChatFollowUp, Receive, ChatFrame,
      TurnResumes, ClassifyReturns, PostEscalationReply, UnclearEscalated,
      ClarifyReply, OutOfScopeReply, NoTransactionReply, ComposeRetry,
      ComposeUnavailable, PolicyExhausted, QualityBarRaises, DeliverCard, Resume
<1>7. CASE Stage2Response \/ Stage2TimelineResolve \/ Stage2TimelinePattern
  BY <1>2, <1>7 DEF Stage2Response, Stage2TimelineResolve, Stage2TimelinePattern
<1>8. CASE \E r \in FollowupRunners :
             FollowupSelect(r) \/ FollowupCheck(r) \/ FollowupMark(r)
  BY <1>2, <1>8 DEF FollowupSelect, FollowupCheck, FollowupMark
<1>9. CASE \E r \in AutocloseRunners : AutocloseSelect(r) \/ AutocloseUpdate(r)
  BY <1>2, <1>9 DEF AutocloseSelect, AutocloseUpdate
<1>10. CASE Failure \/ Tick
  BY <1>2, <1>10 DEF Failure, TurnFails, AnswerFails, FollowupFails,
     AutocloseFails, Restart, Fault, Tick, tables
<1>11. CASE UNCHANGED vars
  BY <1>2, <1>11 DEF vars, tables
<1> QED
  BY <1>3, <1>4, <1>5, <1>6, <1>7, <1>8, <1>9, <1>10, <1>11
  DEF Next, AnswerStarts, AnswerContinues, FollowupContinues

\* A status other than "pending_confirmation" can be written at any time.
LEMMA OtherStatus ==
  ASSUME TypeInv, NEW k \in Tickets, NEW s \in Statuses \ {"pending_confirmation"},
         SetStatus(k, s), NEW q \in Tickets, tickets'[q].status = "pending_confirmation"
  PROVE  tickets[q].status = "pending_confirmation"
BY DEF SetStatus, TypeInv, TypeOK, TicketRows

\* The first part of the invariant: every step that leaves a ticket pending
\* found it pending, marks it after the insert, or writes back a pending
\* status that a turn had read.
LEMMA PendingStep ==
  ASSUME TypeInv, FollowupInv, [Next]_vars
  PROVE  PendingHasFollowup'
<1> SUFFICES ASSUME NEW q \in Tickets, tickets'[q].status = "pending_confirmation"
             PROVE  followups'[q] # <<>>
  BY DEF PendingHasFollowup
<1>1. SUFFICES ASSUME tickets[q].status # "pending_confirmation"
               PROVE  followups[q] # <<>>
  BY RowsStay DEF FollowupInv, PendingHasFollowup
<1>2. tickets \in [Tickets -> TicketRows] /\ turns \in [Turns -> TurnStates]
  BY DEF TypeInv, TypeOK
<1>3. ASSUME NEW k \in Tickets,
             NEW s \in Statuses \ {"pending_confirmation"}, SetStatus(k, s)
      PROVE  FALSE
  BY <1>1, <1>3, OtherStatus
<1>4. ASSUME NEW h \in Turns, TurnStarts(h)
      PROVE  FALSE
  <2>1. CASE ChatNewTicket(h)
    BY <1>1, <1>2, <2>1 DEF ChatNewTicket, FreshTicket
  <2>2. CASE ChatAutoConfirm(h)
    BY <1>3, <2>2, WrittenStatuses DEF ChatAutoConfirm
  <2> QED
    BY <1>1, <1>4, <2>1, <2>2
    DEF TurnStarts, ChatStillWaiting, ChatEscalatedFollowUp, ChatClassify,
        ChatFollowUp
<1>5. ASSUME NEW h \in Turns, TurnResumes(h)
      PROVE  followups[q] # <<>>
  <2>1. turns[h] \in TurnStates /\ turns[h].pc # "idle" /\ turns[h].tid \in Tickets
    BY <1>2, <1>5
    DEF TypeInv, BusyWithTicket, TurnResumes, ClassifyReturns,
        PostEscalationReply, UnclearEscalated, ClarifyReply, OutOfScopeReply,
        NoTransactionReply, ComposeRetry, ComposeUnavailable, PolicyExhausted,
        QualityBarRaises, DeliverCard, Resume
  <2>2. CASE UnclearEscalated(h) \/ PolicyExhausted(h)
    BY <1>3, <2>1, <2>2, WrittenStatuses DEF UnclearEscalated, PolicyExhausted
  <2>3. CASE PostEscalationReply(h) \/ ClarifyReply(h) \/ NoTransactionReply(h)
    BY <1>1, <1>2, <2>3
    DEF PostEscalationReply, ClarifyReply, NoTransactionReply, SaveHistory,
        TicketRows
  <2>4. CASE OutOfScopeReply(h)
    BY <1>1, <1>2, <2>4 DEF OutOfScopeReply, TicketRows
  <2>5. CASE DeliverCard(h)
    <3>1. PICK card \in Cards, d \in Deadlines :
            tickets' = [tickets EXCEPT ![turns[h].tid] =
                          [status    |-> StatusAfter(card, turns[h]),
                           category  |-> turns[h].category,
                           deadline  |-> d,
                           exchanges |-> Extended(turns[h].exchanges)]]
      BY <2>5 DEF DeliverCard
    <3>2. q = turns[h].tid /\ StatusAfter(card, turns[h]) = "pending_confirmation"
      BY <1>1, <1>2, <2>1, <3>1
    <3>3. turns[h].status = "pending_confirmation"
      BY <3>2 DEF StatusAfter
    <3> QED
      BY <2>1, <3>2, <3>3 DEF FollowupInv
  <2>6. CASE ClassifyReturns(h) \/ ComposeRetry(h) \/ ComposeUnavailable(h)
             \/ QualityBarRaises(h)
    BY <1>1, <2>6
    DEF ClassifyReturns, ComposeRetry, ComposeUnavailable, QualityBarRaises
  <2> QED
    BY <1>5, <2>2, <2>3, <2>4, <2>5, <2>6 DEF TurnResumes
<1>6. CASE AnswerStarts \/ AnswerContinues
  <2>1. CASE Stage2Response
    BY <1>3, <2>1, WrittenStatuses DEF Stage2Response
  <2>2. CASE Stage2TimelineResolve
    BY <1>3, <2>2, WrittenStatuses
    DEF Stage2TimelineResolve, ContinueAnswer, TypeInv, BusyWithTicket
  <2> QED
    BY <1>1, <1>6, <2>1, <2>2
    DEF AnswerStarts, AnswerContinues, Stage2Timeline, Stage2ResponseRows,
        Stage2TimelinePattern
<1>7. ASSUME NEW r \in FollowupRunners, FollowupMark(r)
      PROVE  followups[q] # <<>>
  <2>1. followup[r].cur \in Tickets
    BY <1>7 DEF FollowupMark, TypeInv, BusyWithTicket
  <2>2. q = followup[r].cur
    BY <1>1, <1>2, <1>7, <2>1 DEF FollowupMark, SetStatus
  <2> QED
    BY <1>7, <2>2 DEF FollowupMark, FollowupInv
<1>8. ASSUME NEW r \in FollowupRunners,
             FollowupSelect(r) \/ FollowupCheck(r) \/ FollowupInsert(r)
      PROVE  FALSE
  BY <1>1, <1>8 DEF FollowupSelect, FollowupCheck, FollowupInsert
<1>9. ASSUME NEW r \in AutocloseRunners, AutocloseSelect(r) \/ AutocloseUpdate(r)
      PROVE  FALSE
  <2>1. CASE AutocloseSelect(r)
    BY <1>1, <2>1 DEF AutocloseSelect
  <2>2. CASE AutocloseUpdate(r)
    <3>1. autoclose[r].work \in SUBSET Tickets
      BY DEF TypeInv, TypeOK, JobStates
    <3> QED
      BY <1>3, <2>2, <3>1, WrittenStatuses DEF AutocloseUpdate
  <2> QED
    BY <1>9, <2>1, <2>2
<1>10. CASE Failure \/ Tick \/ UNCHANGED vars
  BY <1>1, <1>10
  DEF Failure, TurnFails, AnswerFails, FollowupFails, AutocloseFails, Restart,
      Fault, Tick, tables, vars
<1> QED
  BY <1>4, <1>5, <1>6, <1>7, <1>8, <1>9, <1>10 DEF Next, FollowupContinues

\* The second part: a turn that read a pending status.
LEMMA TurnReadStep ==
  ASSUME TypeInv, FollowupInv, [Next]_vars,
         NEW g \in Turns, turns'[g].pc # "idle",
         turns'[g].status = "pending_confirmation"
  PROVE  followups'[turns'[g].tid] # <<>>
<1>1. turns \in [Turns -> TurnStates] /\ tickets \in [Tickets -> TicketRows]
  BY DEF TypeInv, TypeOK
<1>2. ASSUME NEW k \in Tickets, turns'[g].tid = k, followups[k] # <<>>
      PROVE  followups'[turns'[g].tid] # <<>>
  BY <1>2, RowsStay
<1>3. CASE turns'[g] = turns[g]
  BY <1>2, <1>3 DEF FollowupInv, TypeInv, BusyWithTicket
<1>4. ASSUME NEW k \in Tickets, NEW msg, NEW pc \in AwaitPoints,
             Reading(k, tickets[k], msg, pc).status = "pending_confirmation"
      PROVE  followups[k] # <<>>
  BY <1>4 DEF Reading, FollowupInv, PendingHasFollowup
<1>5. ASSUME NEW h \in Turns, TurnStarts(h)
      PROVE  followups'[turns'[g].tid] # <<>>
  <2>1. CASE ChatNewTicket(h)
    BY <1>1, <1>3, <2>1 DEF ChatNewTicket, Reading, FreshTicket
  <2>2. CASE ChatAutoConfirm(h) \/ ChatStillWaiting(h)
    BY <1>3, <2>2 DEF ChatAutoConfirm, ChatStillWaiting
  <2>3. CASE ChatEscalatedFollowUp(h)
    BY <1>1, <1>3, <2>3 DEF ChatEscalatedFollowUp, Reading
  <2>4. CASE ChatClassify(h)
    <3>1. PICK k \in Tickets, msg \in Messages :
            turns' = [turns EXCEPT ![h] = Reading(k, tickets[k], msg, "classify")]
      BY <2>4 DEF ChatClassify
    <3>2. Reading(k, tickets[k], msg, "classify").tid = k /\ "classify" \in AwaitPoints
      BY DEF Reading, AwaitPoints
    <3> QED
      BY <1>1, <1>2, <1>3, <1>4, <3>1, <3>2
  <2>5. CASE ChatFollowUp(h)
    <3>1. PICK k \in Tickets, msg \in Messages :
            /\ Exists(k)
            /\ \E t \in Retrieved(Reading(k, tickets[k], msg, "compose")) :
                 turns' = [turns EXCEPT ![h] = t]
      BY <2>5 DEF ChatFollowUp
    <3>2. PICK t \in Retrieved(Reading(k, tickets[k], msg, "compose")) :
            turns' = [turns EXCEPT ![h] = t]
      BY <3>1
    <3>3. "compose" \in AwaitPoints /\ tickets[k].status # "absent"
          /\ tickets[k] \in TicketRows
      BY <1>1, <3>1 DEF AwaitPoints, Exists
    <3>4. /\ Reading(k, tickets[k], msg, "compose") \in TurnStates
          /\ Reading(k, tickets[k], msg, "compose").tid = k
      BY <3>3, ReadingType
    <3>5. t.tid = k /\ t.status = Reading(k, tickets[k], msg, "compose").status
      BY <3>4, RetrievedType
    <3> QED
      BY <1>1, <1>2, <1>3, <1>4, <3>2, <3>3, <3>5
  <2> QED
    BY <1>5, <2>1, <2>2, <2>3, <2>4, <2>5 DEF TurnStarts
<1>6. ASSUME NEW h \in Turns, TurnResumes(h)
      PROVE  followups'[turns'[g].tid] # <<>>
  <2>1. ASSUME turns[h].pc # "idle",
               NEW t, turns' = [turns EXCEPT ![h] = t],
               \/ t.pc = "idle"
               \/ t.tid = turns[h].tid /\ t.status = turns[h].status
        PROVE  followups'[turns'[g].tid] # <<>>
    <3>1. CASE g # h
      BY <1>1, <1>3, <2>1, <3>1
    <3>2. CASE g = h
      <4>1. turns'[g] = t
        BY <1>1, <2>1, <3>2
      <4>2. turns[h].status = "pending_confirmation" /\ turns'[g].tid = turns[h].tid
        BY <2>1, <4>1
      <4> QED
        BY <1>2, <2>1, <4>2 DEF FollowupInv, TypeInv, BusyWithTicket
    <3> QED
      BY <3>1, <3>2
  <2>2. turns[h].pc # "idle" /\ turns[h] \in TurnStates
    BY <1>1, <1>6
    DEF TurnResumes, ClassifyReturns, PostEscalationReply, UnclearEscalated,
        ClarifyReply, OutOfScopeReply, NoTransactionReply, ComposeRetry,
        ComposeUnavailable, PolicyExhausted, QualityBarRaises, DeliverCard, Resume
  <2>3. CASE ClassifyReturns(h)
    <3>1. CASE \E pc \in AwaitPoints : turns' = [turns EXCEPT ![h].pc = pc]
      <4>1. PICK pc \in AwaitPoints : turns' = [turns EXCEPT ![h] = [turns[h] EXCEPT !.pc = pc]]
        BY <3>1
      <4>2. /\ [turns[h] EXCEPT !.pc = pc].tid = turns[h].tid
            /\ [turns[h] EXCEPT !.pc = pc].status = turns[h].status
        BY <2>2 DEF TurnStates
      <4> QED
        BY <2>1, <2>2, <4>1, <4>2
    <3>2. CASE \E c \in Resolvable :
                 \E t \in Retrieved([turns[h] EXCEPT !.category = c]) :
                   turns' = [turns EXCEPT ![h] = t]
      <4>1. PICK c \in Resolvable :
              \E t \in Retrieved([turns[h] EXCEPT !.category = c]) :
                turns' = [turns EXCEPT ![h] = t]
        BY <3>2
      <4>2. PICK t \in Retrieved([turns[h] EXCEPT !.category = c]) :
              turns' = [turns EXCEPT ![h] = t]
        BY <4>1
      <4>3. /\ [turns[h] EXCEPT !.category = c] \in TurnStates
            /\ [turns[h] EXCEPT !.category = c].tid = turns[h].tid
            /\ [turns[h] EXCEPT !.category = c].status = turns[h].status
        BY <2>2 DEF TurnStates, StoredCategories
      <4>4. t.tid = turns[h].tid /\ t.status = turns[h].status
        BY <4>3, RetrievedType
      <4> QED
        BY <2>1, <2>2, <4>2, <4>4
    <3>3. {"out_of_scope", "unclear_escalated", "clarify"} \subseteq AwaitPoints
      BY DEF AwaitPoints
    <3>4. CASE \E t \in UNION {Retrieved([turns[h] EXCEPT !.category = c])
                                 : c \in Resolvable} :
                 turns' = [turns EXCEPT ![h] = t]
      <4> DEFINE From(c) == Retrieved([turns[h] EXCEPT !.category = c])
      <4>1. PICK t \in UNION {From(c) : c \in Resolvable} :
              turns' = [turns EXCEPT ![h] = t]
        BY <3>4
      <4> HIDE DEF From
      <4>2. PICK c \in Resolvable : t \in From(c)
        BY <4>1
      <4> QED
        BY <3>2, <4>1, <4>2 DEF From
    <3> QED
      BY <2>3, <3>1, <3>3, <3>4 DEF ClassifyReturns
  <2>4. CASE ComposeRetry(h)
    <3> DEFINE t == [turns[h] EXCEPT !.attempt = @ + 1]
    <3>1. t.tid = turns[h].tid /\ t.status = turns[h].status
      BY <2>2 DEF TurnStates
    <3>2. turns' = [turns EXCEPT ![h] = t]
      BY <2>4 DEF ComposeRetry
    <3> QED
      BY <2>1, <2>2, <3>1, <3>2
  <2>5. CASE Finish(h)
    BY <2>1, <2>2, <2>5, IdleTypes DEF Finish
  <2> QED
    BY <1>6, <2>3, <2>4, <2>5
    DEF TurnResumes, PostEscalationReply, UnclearEscalated, ClarifyReply,
        OutOfScopeReply, NoTransactionReply, ComposeUnavailable,
        PolicyExhausted, QualityBarRaises, DeliverCard
<1>7. CASE \E h \in Turns : TurnFails(h)
  BY <1>1, <1>3, <1>7, IdleTypes DEF TurnFails, Finish
<1>8. CASE Restart
  BY <1>8, IdleTypes DEF Restart
<1>9. CASE UNCHANGED turns
  BY <1>3, <1>9
<1> QED
  BY <1>5, <1>6, <1>7, <1>8, <1>9
  DEF Next, AnswerStarts, AnswerContinues, Stage2Response, Stage2Timeline,
      Stage2ResponseRows, Stage2TimelineResolve, Stage2TimelinePattern,
      StartAnswer, ContinueAnswer, Stage2Frame, FollowupContinues,
      FollowupSelect, FollowupCheck, FollowupInsert, FollowupMark,
      AutocloseSelect, AutocloseUpdate, JobFrame, Failure, AnswerFails,
      FollowupFails, AutocloseFails, Tick, vars

\* The third part: a runner that is about to mark a ticket.
LEMMA MarkStep ==
  ASSUME TypeInv, FollowupInv, [Next]_vars,
         NEW q \in FollowupRunners, followup'[q].pc = "mark"
  PROVE  followups'[followup'[q].cur] # <<>>
<1>1. /\ followup \in [FollowupRunners -> JobStates]
      /\ followups \in [Tickets -> Seq(FollowupRows)]
  BY DEF TypeInv, TypeOK
<1>2. CASE followup'[q] = followup[q]
  BY <1>2, RowsStay DEF FollowupInv, TypeInv, BusyWithTicket
<1>3. ASSUME NEW r \in FollowupRunners, FollowupInsert(r)
      PROVE  followups'[followup'[q].cur] # <<>>
  <2>1. CASE q # r
    BY <1>1, <1>2, <1>3, <2>1 DEF FollowupInsert
  <2>2. CASE q = r
    <3>1. followup'[q].cur = followup[q].cur /\ followup[q].cur \in Tickets
      BY <1>1, <1>3, <2>2 DEF FollowupInsert, JobStates, TypeInv, BusyWithTicket
    <3>2. PICK row : followups' =
            [followups EXCEPT ![followup[r].cur] = Append(@, row)]
      BY <1>3 DEF FollowupInsert
    <3>3. Append(followups[followup[q].cur], row) # <<>>
      <4>1. ASSUME NEW rows \in Seq(FollowupRows), NEW added
            PROVE  Append(rows, added) # <<>>
        OBVIOUS
      <4>2. followups[followup[q].cur] \in Seq(FollowupRows)
        BY <1>1, <3>1
      <4> QED
        BY <4>1, <4>2
    <3> QED
      BY <1>1, <2>2, <3>1, <3>2, <3>3
  <2> QED
    BY <2>1, <2>2
<1>4. ASSUME NEW r \in FollowupRunners, NEW s, s.pc # "mark",
             followup' = [followup EXCEPT ![r] = s]
      PROVE  followups'[followup'[q].cur] # <<>>
  BY <1>1, <1>2, <1>4
<1>5. ASSUME NEW rest
      PROVE  NextTicket(rest).pc # "mark"
  BY DEF NextTicket, IdleJob
<1>6. ASSUME NEW r \in FollowupRunners,
             FollowupSelect(r) \/ FollowupCheck(r) \/ FollowupMark(r)
                \/ FollowupFails(r)
      PROVE  followups'[followup'[q].cur] # <<>>
  BY <1>4, <1>5, <1>6, IdleTypes
  DEF FollowupSelect, FollowupCheck, FollowupMark, FollowupFails
<1>7. CASE Restart
  BY <1>7, IdleTypes DEF Restart
<1>8. CASE UNCHANGED followup
  BY <1>2, <1>8
<1> QED
  BY <1>3, <1>6, <1>7, <1>8
  DEF Next, TurnStarts, ChatNewTicket, ChatAutoConfirm, ChatStillWaiting,
      ChatEscalatedFollowUp, ChatClassify, ChatFollowUp, Receive, ChatFrame,
      TurnResumes, ClassifyReturns, PostEscalationReply, UnclearEscalated,
      ClarifyReply, OutOfScopeReply, NoTransactionReply, ComposeRetry,
      ComposeUnavailable, PolicyExhausted, QualityBarRaises, DeliverCard, Resume,
      AnswerStarts, AnswerContinues, Stage2Response, Stage2Timeline,
      Stage2ResponseRows, Stage2TimelineResolve, Stage2TimelinePattern,
      StartAnswer, ContinueAnswer, Stage2Frame, FollowupContinues,
      AutocloseSelect, AutocloseUpdate, Failure, TurnFails, AnswerFails,
      AutocloseFails, Tick, vars, jobs

\* The follow-up job inserts before it marks, so no interleaving of turns,
\* answers and jobs, no failure and no restart leaves a ticket waiting for an
\* answer to a question that is not on record.
THEOREM PendingAlwaysHasFollowup == Spec => []PendingHasFollowup
<1>1. Init => FollowupInv
  BY IdleTypes DEF Init, FollowupInv, PendingHasFollowup, NoRow, FreshTicket
<1>2. TypeInv /\ FollowupInv /\ [Next]_vars => FollowupInv'
  BY PendingStep, TurnReadStep, MarkStep DEF FollowupInv
<1>3. FollowupInv => PendingHasFollowup
  BY DEF FollowupInv
<1> QED
  BY <1>1, <1>2, <1>3, TypeInvariant, PTL DEF Spec

-----------------------------------------------------------------------------
(* Follow-ups are of dated tickets.  Only a delivered card dates a ticket, *)
(* and it writes the category that its turn worked with; the job goes by   *)
(* the deadline alone, which nobody takes away once it is there.           *)

DatedRow(row) == row.deadline # Null => row.category # Null /\ row.status # "absent"

DatedInv ==
  /\ \A k \in Tickets : DatedRow(tickets[k])
  /\ \A k \in Tickets : followups[k] # <<>> => tickets[k].deadline # Null
  /\ \A h \in Turns : turns[h].pc = "compose" => turns[h].category # Null
  /\ \A r \in FollowupRunners, k \in Tickets :
       \/ k \in followup[r].work
       \/ followup[r].pc \in {"insert", "mark"} /\ followup[r].cur = k
       => tickets[k].deadline # Null

\* No step takes a deadline away, and a ticket that is given one has a category.
LEMMA DatesStay ==
  ASSUME TypeInv, DatedInv, [Next]_vars, NEW q \in Tickets
  PROVE  /\ DatedRow(tickets'[q])
         /\ tickets[q].deadline # Null => tickets'[q].deadline # Null
<1>1. /\ tickets \in [Tickets -> TicketRows] /\ turns \in [Turns -> TurnStates]
      /\ tickets[q] \in TicketRows /\ DatedRow(tickets[q])
  BY DEF TypeInv, TypeOK, DatedInv
<1>2. CASE tickets'[q] = tickets[q]
  BY <1>1, <1>2
<1>3. ASSUME NEW k \in Tickets, NEW s, s # "absent", SetStatus(k, s)
      PROVE  /\ DatedRow(tickets'[q])
             /\ tickets[q].deadline # Null => tickets'[q].deadline # Null
  BY <1>1, <1>3 DEF SetStatus, TicketRows, DatedRow
<1>4. ASSUME NEW h \in Turns, TurnStarts(h)
      PROVE  /\ DatedRow(tickets'[q])
             /\ tickets[q].deadline # Null => tickets'[q].deadline # Null
  <2>1. CASE ChatNewTicket(h)
    <3>1. PICK k \in Tickets : ~Exists(k) /\ tickets' = [tickets EXCEPT ![k] = FreshTicket]
      BY <2>1 DEF ChatNewTicket
    <3>2. tickets[k].deadline = Null /\ DatedRow(FreshTicket)
      BY <1>1, <3>1 DEF Exists, DatedInv, DatedRow, FreshTicket
    <3> QED
      BY <1>1, <1>2, <3>1, <3>2
  <2>2. CASE ChatAutoConfirm(h)
    BY <1>3, <2>2 DEF ChatAutoConfirm
  <2> QED
    BY <1>2, <1>4, <2>1, <2>2
    DEF TurnStarts, ChatStillWaiting, ChatEscalatedFollowUp, ChatClassify,
        ChatFollowUp
<1>5. ASSUME NEW h \in Turns, TurnResumes(h)
      PROVE  /\ DatedRow(tickets'[q])
             /\ tickets[q].deadline # Null => tickets'[q].deadline # Null
  <2>1. turns[h] \in TurnStates /\ turns[h].pc # "idle" /\ turns[h].tid \in Tickets
    BY <1>1, <1>5
    DEF TypeInv, BusyWithTicket, TurnResumes, ClassifyReturns,
        PostEscalationReply, UnclearEscalated, ClarifyReply, OutOfScopeReply,
        NoTransactionReply, ComposeRetry, ComposeUnavailable, PolicyExhausted,
        QualityBarRaises, DeliverCard, Resume
  <2>2. CASE UnclearEscalated(h) \/ PolicyExhausted(h)
    BY <1>3, <2>1, <2>2 DEF UnclearEscalated, PolicyExhausted
  <2>3. CASE PostEscalationReply(h) \/ ClarifyReply(h) \/ NoTransactionReply(h)
    BY <1>1, <2>1, <2>3
    DEF PostEscalationReply, ClarifyReply, NoTransactionReply, SaveHistory,
        TicketRows, DatedRow
  <2>4. CASE OutOfScopeReply(h)
    <3>1. PICK n : tickets' = [tickets EXCEPT ![turns[h].tid].category  = "OUT_OF_SCOPE",
                                              ![turns[h].tid].exchanges = n]
      BY <2>4 DEF OutOfScopeReply
    <3> QED
      BY <1>1, <2>1, <3>1 DEF TicketRows, DatedRow
  <2>5. CASE DeliverCard(h)
    <3>1. PICK card \in Cards, d \in Deadlines :
            tickets' = [tickets EXCEPT ![turns[h].tid] =
                          [status    |-> StatusAfter(card, turns[h]),
                           category  |-> turns[h].category,
                           deadline  |-> d,
                           exchanges |-> Extended(turns[h].exchanges)]]
      BY <2>5 DEF DeliverCard
    <3>2. turns[h].category # Null
      BY <2>5 DEF DeliverCard, Resume, DatedInv
    <3>3. StatusAfter(card, turns[h]) # "absent"
      BY <2>1 DEF StatusAfter, TurnStates, Statuses
    <3> QED
      BY <1>1, <1>2, <2>1, <3>1, <3>2, <3>3 DEF DatedRow
  <2>6. CASE ClassifyReturns(h) \/ ComposeRetry(h) \/ ComposeUnavailable(h)
             \/ QualityBarRaises(h)
    BY <1>2, <2>6
    DEF ClassifyReturns, ComposeRetry, ComposeUnavailable, QualityBarRaises
  <2> QED
    BY <1>5, <2>2, <2>3, <2>4, <2>5, <2>6 DEF TurnResumes
<1>6. CASE AnswerStarts \/ AnswerContinues
  <2>1. CASE Stage2Response
    BY <1>3, <2>1 DEF Stage2Response
  <2>2. CASE Stage2TimelineResolve
    BY <1>3, <2>2 DEF Stage2TimelineResolve, ContinueAnswer, TypeInv, BusyWithTicket
  <2> QED
    BY <1>2, <1>6, <2>1, <2>2
    DEF AnswerStarts, AnswerContinues, Stage2Timeline, Stage2ResponseRows,
        Stage2TimelinePattern
<1>7. ASSUME NEW r \in FollowupRunners, FollowupMark(r)
      PROVE  /\ DatedRow(tickets'[q])
             /\ tickets[q].deadline # Null => tickets'[q].deadline # Null
  BY <1>3, <1>7 DEF FollowupMark, TypeInv, BusyWithTicket
<1>8. ASSUME NEW r \in FollowupRunners,
             FollowupSelect(r) \/ FollowupCheck(r) \/ FollowupInsert(r)
      PROVE  tickets'[q] = tickets[q]
  BY <1>8 DEF FollowupSelect, FollowupCheck, FollowupInsert
<1>9. ASSUME NEW r \in AutocloseRunners, AutocloseSelect(r) \/ AutocloseUpdate(r)
      PROVE  /\ DatedRow(tickets'[q])
             /\ tickets[q].deadline # Null => tickets'[q].deadline # Null
  <2>1. CASE AutocloseSelect(r)
    BY <1>2, <2>1 DEF AutocloseSelect
  <2>2. CASE AutocloseUpdate(r)
    <3>1. autoclose[r].work \in SUBSET Tickets
      BY DEF TypeInv, TypeOK, JobStates
    <3> QED
      BY <1>3, <2>2, <3>1 DEF AutocloseUpdate
  <2> QED
    BY <1>9, <2>1, <2>2
<1>10. CASE Failure \/ Tick \/ UNCHANGED vars
  BY <1>2, <1>10
  DEF Failure, TurnFails, AnswerFails, FollowupFails, AutocloseFails, Restart,
      Fault, Tick, tables, vars
<1> QED
  BY <1>2, <1>4, <1>5, <1>6, <1>7, <1>8, <1>9, <1>10 DEF Next, FollowupContinues

\* Only the job's insert gives a ticket its first row.
LEMMA RowsCome ==
  ASSUME TypeInv, DatedInv, [Next]_vars, NEW q \in Tickets, followups'[q] # <<>>
  PROVE  tickets'[q].deadline # Null
<1>1. /\ followups \in [Tickets -> Seq(FollowupRows)] /\ followups[q] \in Seq(FollowupRows)
      /\ followup \in [FollowupRunners -> JobStates]
  BY DEF TypeInv, TypeOK
<1>2. CASE followups[q] # <<>>
  BY <1>2, DatesStay DEF DatedInv
<1>3. CASE UNCHANGED followups
  BY <1>2, <1>3
<1>4. CASE DOMAIN followups'[q] = DOMAIN followups[q]
  <2>1. ASSUME NEW rows \in Seq(FollowupRows), rows = <<>>,
               NEW new, DOMAIN new = DOMAIN rows, new \in [DOMAIN new -> FollowupRows]
        PROVE  new = <<>>
    BY <2>1
  <2>2. followups'[q] \in [DOMAIN followups'[q] -> FollowupRows]
    <3>1. followups' \in [Tickets -> Seq(FollowupRows)]
      BY TypeStep DEF TypeInv, TypeOK
    <3> QED
      BY <3>1
  <2> QED
    BY <1>1, <1>2, <1>4, <2>1, <2>2
<1>5. CASE Stage2ResponseRows
  <2>1. stage2.tid \in Tickets
    BY <1>5 DEF TypeInv, BusyWithTicket, Stage2ResponseRows, ContinueAnswer
  <2> QED
    BY <1>1, <1>4, <1>5, <2>1 DEF Stage2ResponseRows
<1>6. CASE Stage2Timeline
  BY <1>1, <1>4, <1>6 DEF Stage2Timeline
<1>7. ASSUME NEW r \in FollowupRunners, FollowupInsert(r)
      PROVE  tickets'[q].deadline # Null
  <2>1. CASE q = followup[r].cur
    BY <1>7, <2>1, DatesStay DEF FollowupInsert, DatedInv
  <2>2. CASE q # followup[r].cur
    BY <1>1, <1>2, <1>7, <2>2 DEF FollowupInsert
  <2> QED
    BY <2>1, <2>2
<1>8. CASE \E h \in Turns : TurnStarts(h) \/ TurnResumes(h)
  BY <1>3, <1>8
  DEF TurnStarts, ChatNewTicket, ChatAutoConfirm, ChatStillWaiting,
      ChatEscalatedFollowUp, ChatClassify, ChatFollowUp, Receive, ChatFrame,
      TurnResumes, ClassifyReturns, PostEscalationReply, UnclearEscalated,
      ClarifyReply, OutOfScopeReply, NoTransactionReply, ComposeRetry,
      ComposeUnavailable, PolicyExhausted, QualityBarRaises, DeliverCard, Resume
<1>9. CASE Stage2Response \/ Stage2TimelineResolve \/ Stage2TimelinePattern
  BY <1>3, <1>9 DEF Stage2Response, Stage2TimelineResolve, Stage2TimelinePattern
<1>10. CASE \E r \in FollowupRunners :
              FollowupSelect(r) \/ FollowupCheck(r) \/ FollowupMark(r)
  BY <1>3, <1>10 DEF FollowupSelect, FollowupCheck, FollowupMark
<1>11. CASE \E r \in AutocloseRunners : AutocloseSelect(r) \/ AutocloseUpdate(r)
  BY <1>3, <1>11 DEF AutocloseSelect, AutocloseUpdate
<1>12. CASE Failure \/ Tick \/ UNCHANGED vars
  BY <1>3, <1>12 DEF Failure, TurnFails, AnswerFails, FollowupFails,
     AutocloseFails, Restart, Fault, Tick, tables, vars
<1> QED
  BY <1>5, <1>6, <1>7, <1>8, <1>9, <1>10, <1>11, <1>12
  DEF Next, AnswerStarts, AnswerContinues, FollowupContinues

\* A card is composed for a category that has a settlement rule.
LEMMA ComposeStep ==
  ASSUME TypeInv, DatedInv, [Next]_vars, NEW g \in Turns, turns'[g].pc = "compose"
  PROVE  turns'[g].category # Null
<1>1. turns \in [Turns -> TurnStates] /\ tickets \in [Tickets -> TicketRows]
      /\ turns[g] \in TurnStates
  BY DEF TypeInv, TypeOK
<1>2. CASE turns'[g] = turns[g]
  BY <1>2 DEF DatedInv
<1>3. ASSUME NEW turn \in TurnStates, turn.category \in Resolvable,
             NEW t \in Retrieved(turn)
      PROVE  t.category # Null
  <2>1. t.category = turn.category
    <3>1. CASE t = [turn EXCEPT !.pc = "no_transaction"]
      BY <3>1 DEF TurnStates
    <3>2. ASSUME NEW high \in BOOLEAN,
                 t = [turn EXCEPT !.pc = "compose", !.risky = @ \/ high]
          PROVE  t.category = turn.category
      BY <3>2 DEF TurnStates
    <3> QED
      BY <1>3, <3>1, <3>2 DEF Retrieved
  <2> QED
    BY <1>3, <2>1
<1>4. ASSUME NEW h \in Turns, NEW t, turns' = [turns EXCEPT ![h] = t],
             t.pc = "compose" => t.category # Null
      PROVE  turns'[g].category # Null
  BY <1>1, <1>2, <1>4
<1>5. ASSUME NEW h \in Turns, TurnStarts(h) PROVE turns'[g].category # Null
  <2>1. CASE ChatNewTicket(h) \/ ChatClassify(h) \/ ChatEscalatedFollowUp(h)
    <3>1. ASSUME NEW k, NEW row, NEW msg,
                 NEW pc \in {"classify", "post_escalation"},
                 turns' = [turns EXCEPT ![h] = Reading(k, row, msg, pc)]
          PROVE  turns'[g].category # Null
      <4>1. Reading(k, row, msg, pc).pc # "compose"
        BY DEF Reading
      <4> QED
        BY <1>4, <3>1, <4>1
    <3>2. CASE ChatNewTicket(h)
      BY <3>1, <3>2 DEF ChatNewTicket
    <3>3. CASE ChatClassify(h)
      BY <3>1, <3>3 DEF ChatClassify
    <3>4. CASE ChatEscalatedFollowUp(h)
      BY <3>1, <3>4 DEF ChatEscalatedFollowUp
    <3> QED
      BY <2>1, <3>2, <3>3, <3>4
  <2>2. CASE ChatAutoConfirm(h) \/ ChatStillWaiting(h)
    BY <1>2, <2>2 DEF ChatAutoConfirm, ChatStillWaiting
  <2>3. CASE ChatFollowUp(h)
    <3>1. PICK k \in Tickets, msg \in Messages :
            /\ Exists(k) /\ tickets[k].category \in Resolvable
            /\ \E t \in Retrieved(Reading(k, tickets[k], msg, "compose")) :
                 turns' = [turns EXCEPT ![h] = t]
      BY <2>3 DEF ChatFollowUp
    <3>2. "compose" \in AwaitPoints /\ tickets[k].status # "absent"
          /\ tickets[k] \in TicketRows
      BY <1>1, <3>1 DEF AwaitPoints, Exists
    <3>3. /\ Reading(k, tickets[k], msg, "compose") \in TurnStates
          /\ Reading(k, tickets[k], msg, "compose").category \in Resolvable
      BY <3>1, <3>2, ReadingType DEF Reading
    <3> QED
      BY <1>3, <1>4, <3>1, <3>3
  <2> QED
    BY <1>5, <2>1, <2>2, <2>3 DEF TurnStarts
<1>6. ASSUME NEW h \in Turns, TurnResumes(h) PROVE turns'[g].category # Null
  <2>1. turns[h] \in TurnStates
    BY <1>1
  <2>2. CASE ClassifyReturns(h)
    <3>1. CASE \E pc \in {"out_of_scope", "unclear_escalated", "clarify"} :
                 turns' = [turns EXCEPT ![h].pc = pc]
      <4>1. PICK pc \in {"out_of_scope", "unclear_escalated", "clarify"} :
              turns' = [turns EXCEPT ![h] = [turns[h] EXCEPT !.pc = pc]]
        BY <3>1
      <4>2. [turns[h] EXCEPT !.pc = pc].pc # "compose"
        BY <2>1 DEF TurnStates
      <4> QED
        BY <1>4, <4>1, <4>2
    <3>2. CASE \E t \in UNION {Retrieved([turns[h] EXCEPT !.category = c])
                                 : c \in Resolvable} :
                 turns' = [turns EXCEPT ![h] = t]
      <4> DEFINE From(c) == Retrieved([turns[h] EXCEPT !.category = c])
      <4>1. PICK t \in UNION {From(c) : c \in Resolvable} :
              turns' = [turns EXCEPT ![h] = t]
        BY <3>2
      <4> HIDE DEF From
      <4>2. PICK c \in Resolvable : t \in From(c)
        BY <4>1
      <4>3. /\ [turns[h] EXCEPT !.category = c] \in TurnStates
            /\ [turns[h] EXCEPT !.category = c].category \in Resolvable
        BY <2>1 DEF TurnStates, StoredCategories
      <4>4. t.category # Null
        BY <1>3, <4>2, <4>3 DEF From
      <4> QED
        BY <1>4, <4>1, <4>4
    <3> QED
      BY <2>2, <3>1, <3>2 DEF ClassifyReturns
  <2>3. CASE ComposeRetry(h)
    <3>1. PICK t : t = [turns[h] EXCEPT !.attempt = @ + 1]
      OBVIOUS
    <3>2. t.pc = turns[h].pc /\ t.category = turns[h].category
      BY <2>1, <3>1 DEF TurnStates
    <3>3. turns' = [turns EXCEPT ![h] = t]
      BY <2>3, <3>1 DEF ComposeRetry
    <3> QED
      BY <1>4, <3>2, <3>3 DEF DatedInv
  <2>4. CASE Finish(h)
    BY <1>4, <2>4, IdleTypes DEF Finish
  <2> QED
    BY <1>6, <2>2, <2>3, <2>4
    DEF TurnResumes, PostEscalationReply, UnclearEscalated, ClarifyReply,
        OutOfScopeReply, NoTransactionReply, ComposeUnavailable,
        PolicyExhausted, QualityBarRaises, DeliverCard
<1>7. CASE \E h \in Turns : TurnFails(h)
  BY <1>4, <1>7, IdleTypes DEF TurnFails, Finish
<1>8. CASE Restart
  BY <1>8, IdleTypes DEF Restart
<1>9. CASE UNCHANGED turns
  BY <1>2, <1>9
<1> QED
  BY <1>5, <1>6, <1>7, <1>8, <1>9
  DEF Next, AnswerStarts, AnswerContinues, Stage2Response, Stage2Timeline,
      Stage2ResponseRows, Stage2TimelineResolve, Stage2TimelinePattern,
      StartAnswer, ContinueAnswer, Stage2Frame, FollowupContinues,
      FollowupSelect, FollowupCheck, FollowupInsert, FollowupMark,
      AutocloseSelect, AutocloseUpdate, JobFrame, Failure, AnswerFails,
      FollowupFails, AutocloseFails, Tick, vars

\* The job works on tickets whose deadline has passed.
LEMMA WorkStep ==
  ASSUME TypeInv, DatedInv, [Next]_vars, NEW q \in FollowupRunners, NEW k \in Tickets,
         \/ k \in followup'[q].work
         \/ followup'[q].pc \in {"insert", "mark"} /\ followup'[q].cur = k
  PROVE  tickets'[k].deadline # Null
<1>1. followup \in [FollowupRunners -> JobStates]
  BY DEF TypeInv, TypeOK
<1> SUFFICES tickets[k].deadline # Null
  BY DatesStay
<1>2. CASE followup'[q] = followup[q]
  BY <1>2 DEF DatedInv
<1>3. ASSUME NEW r \in FollowupRunners, NEW job,
             followup' = [followup EXCEPT ![r] = job],
             \A n \in Tickets :
               n \in job.work \/ (job.pc \in {"insert", "mark"} /\ job.cur = n) =>
                 tickets[n].deadline # Null
      PROVE  tickets[k].deadline # Null
  <2>1. CASE q # r
    <3>1. followup'[q] = followup[q]
      BY <1>1, <1>3, <2>1
    <3> QED
      BY <1>2, <3>1
  <2>2. CASE q = r
    <3>1. PICK same : same = followup'[q]
      OBVIOUS
    <3>2. same = job
      BY <1>1, <1>3, <2>2, <3>1
    <3>3. k \in job.work \/ (job.pc \in {"insert", "mark"} /\ job.cur = k)
      BY <3>1, <3>2
    <3> QED
      BY <1>3, <3>3
  <2> QED
    BY <2>1, <2>2
<1>4. ASSUME NEW r \in FollowupRunners, NEW rest,
             followup' = [followup EXCEPT ![r] = NextTicket(rest)],
             \A n \in rest : n \in Tickets => tickets[n].deadline # Null
      PROVE  tickets[k].deadline # Null
  <2>1. CASE rest = {}
    <3>1. PICK job : job = NextTicket(rest)
      OBVIOUS
    <3>2. job.work = {} /\ job.pc = "idle"
      BY <2>1, <3>1 DEF NextTicket, IdleJob
    <3>3. followup' = [followup EXCEPT ![r] = job]
      BY <1>4, <3>1
    <3> QED
      BY <1>3, <3>2, <3>3
  <2>2. CASE rest # {}
    <3>1. PICK job : job = NextTicket(rest)
      OBVIOUS
    <3>2. job.work = rest /\ job.pc = "scan"
      BY <2>2, <3>1 DEF NextTicket
    <3>3. followup' = [followup EXCEPT ![r] = job]
      BY <1>4, <3>1
    <3> QED
      BY <1>3, <1>4, <3>2, <3>3
  <2> QED
    BY <2>1, <2>2
<1>5. ASSUME NEW r \in FollowupRunners, FollowupSelect(r)
      PROVE  tickets[k].deadline # Null
  <2>1. \A n \in DueForFollowup : n \in Tickets => tickets[n].deadline # Null
    BY DEF DueForFollowup, Overdue
  <2>2. followup' = [followup EXCEPT ![r] = NextTicket(DueForFollowup)]
    BY <1>5 DEF FollowupSelect
  <2> QED
    BY <1>4, <2>1, <2>2
<1>6. ASSUME NEW r \in FollowupRunners, FollowupCheck(r)
      PROVE  tickets[k].deadline # Null
  <2>1. followup[r] \in JobStates /\ followup[r].work \subseteq Tickets
    BY <1>1 DEF JobStates
  <2>2. PICK n \in followup[r].work :
          \/ followup' = [followup EXCEPT ![r] = NextTicket(followup[r].work \ {n})]
          \/ followup' = [followup EXCEPT
                            ![r] = [pc |-> "insert", work |-> followup[r].work \ {n},
                                    cur |-> n]]
    BY <1>6 DEF FollowupCheck
  <2>3. \A m \in followup[r].work : tickets[m].deadline # Null
    BY <2>1 DEF DatedInv
  <2>4. CASE followup' = [followup EXCEPT ![r] = NextTicket(followup[r].work \ {n})]
    <3>1. \A m \in followup[r].work \ {n} : m \in Tickets => tickets[m].deadline # Null
      BY <2>3
    <3> QED
      BY <1>4, <2>4, <3>1
  <2>5. CASE followup' = [followup EXCEPT
                            ![r] = [pc |-> "insert", work |-> followup[r].work \ {n},
                                    cur |-> n]]
    <3>1. PICK job : job = [pc |-> "insert", work |-> followup[r].work \ {n}, cur |-> n]
      OBVIOUS
    <3>2. job.work \subseteq followup[r].work /\ job.cur \in followup[r].work
      BY <3>1
    <3>3. followup' = [followup EXCEPT ![r] = job]
      BY <2>5, <3>1
    <3>4. \A m \in Tickets :
            m \in job.work \/ (job.pc \in {"insert", "mark"} /\ job.cur = m) =>
              tickets[m].deadline # Null
      BY <2>3, <3>2
    <3> QED
      BY <1>3, <3>3, <3>4
  <2> QED
    BY <2>2, <2>4, <2>5
<1>7. ASSUME NEW r \in FollowupRunners, FollowupInsert(r)
      PROVE  tickets[k].deadline # Null
  <2>1. followup[r] \in JobStates /\ followup[r].pc = "insert"
    BY <1>1, <1>7 DEF FollowupInsert
  <2>2. PICK job : job = [followup[r] EXCEPT !.pc = "mark"]
    OBVIOUS
  <2>3. job.work = followup[r].work /\ job.cur = followup[r].cur
    BY <2>1, <2>2 DEF JobStates
  <2>4. followup' = [followup EXCEPT ![r] = job]
    BY <1>7, <2>2 DEF FollowupInsert
  <2>5. \A m \in Tickets :
          m \in job.work \/ (job.pc \in {"insert", "mark"} /\ job.cur = m) =>
            tickets[m].deadline # Null
    BY <2>1, <2>3 DEF DatedInv
  <2> QED
    BY <1>3, <2>4, <2>5
<1>8. ASSUME NEW r \in FollowupRunners, FollowupMark(r)
      PROVE  tickets[k].deadline # Null
  <2>1. \A n \in followup[r].work : n \in Tickets => tickets[n].deadline # Null
    BY DEF DatedInv
  <2>2. followup' = [followup EXCEPT ![r] = NextTicket(followup[r].work)]
    BY <1>8 DEF FollowupMark
  <2> QED
    BY <1>4, <2>1, <2>2
<1>9. ASSUME NEW r \in FollowupRunners, FollowupFails(r)
      PROVE  tickets[k].deadline # Null
  <2>1. PICK job : job = IdleJob
    OBVIOUS
  <2>2. job.work = {} /\ job.pc = "idle"
    BY <2>1 DEF IdleJob
  <2>3. followup' = [followup EXCEPT ![r] = job]
    BY <1>9, <2>1 DEF FollowupFails
  <2> QED
    BY <1>3, <2>2, <2>3
<1>10. CASE Restart
  BY <1>10 DEF Restart, IdleJob
<1>11. CASE UNCHANGED followup
  BY <1>2, <1>11
<1> QED
  BY <1>5, <1>6, <1>7, <1>8, <1>9, <1>10, <1>11
  DEF Next, TurnStarts, ChatNewTicket, ChatAutoConfirm, ChatStillWaiting,
      ChatEscalatedFollowUp, ChatClassify, ChatFollowUp, Receive, ChatFrame,
      TurnResumes, ClassifyReturns, PostEscalationReply, UnclearEscalated,
      ClarifyReply, OutOfScopeReply, NoTransactionReply, ComposeRetry,
      ComposeUnavailable, PolicyExhausted, QualityBarRaises, DeliverCard, Resume,
      AnswerStarts, AnswerContinues, Stage2Response, Stage2Timeline,
      Stage2ResponseRows, Stage2TimelineResolve, Stage2TimelinePattern,
      StartAnswer, ContinueAnswer, Stage2Frame, FollowupContinues,
      AutocloseSelect, AutocloseUpdate, Failure, TurnFails, AnswerFails,
      AutocloseFails, Tick, vars, jobs

\* A ticket that was only clarified or declined is never asked about money,
\* whatever turns, answers, jobs, failures and restarts come in between.
THEOREM OnlyDatedTicketsAreAsked == Spec => []FollowupsAreOfDatedTickets
<1>1. Init => DatedInv
  BY IdleTypes DEF Init, DatedInv, DatedRow, NoRow, FreshTicket, IdleTurn, IdleJob
<1>2. TypeInv /\ DatedInv /\ [Next]_vars => DatedInv'
  BY DatesStay, RowsCome, ComposeStep, WorkStep DEF DatedInv
<1>3. DatedInv => FollowupsAreOfDatedTickets
  BY DEF DatedInv, DatedRow, FollowupsAreOfDatedTickets
<1> QED
  BY <1>1, <1>2, <1>3, TypeInvariant, PTL DEF Spec

-----------------------------------------------------------------------------
(* Overlapping runs of the follow-up job.  A runner that is about to       *)
(* insert passed its check while the ticket had no row, and a ticket with  *)
(* a row is not passed again: the rows and the inserts still to come are   *)
(* together no more than the runners.                                      *)

AboutToInsert(k) ==
  {r \in FollowupRunners : followup[r].pc = "insert" /\ followup[r].cur = k}

RowsBounded(k) ==
  Len(followups[k]) + Cardinality(AboutToInsert(k)) <= Cardinality(FollowupRunners)

RunnersInv == \A k \in Tickets : RowsBounded(k)

\* There are finitely many runners, and so finitely many are about to insert.
LEMMA RunnersAreFinite ==
  /\ IsFiniteSet(FollowupRunners) /\ Cardinality(FollowupRunners) \in Nat
  /\ \A S : S \subseteq FollowupRunners =>
       /\ IsFiniteSet(S) /\ Cardinality(S) \in Nat
       /\ Cardinality(S) <= Cardinality(FollowupRunners)
<1>1. IsFiniteSet({"cron"}) /\ {"cron"} \cup {"trigger"} = {"cron", "trigger"}
  BY FS_Singleton
<1>2. IsFiniteSet({"cron", "trigger"})
  BY <1>1, FS_AddElement
<1>3. FollowupRunners \subseteq {"cron", "trigger"}
  BY RunnersAssumption
<1>4. IsFiniteSet(FollowupRunners)
  BY <1>2, <1>3, FS_Subset
<1> QED
  BY <1>4, FS_Subset, FS_CardinalityType

\* Nobody else gets ready to insert and no row is added: the bound stays.
LEMMA BoundStays ==
  ASSUME NEW k \in Tickets, RowsBounded(k),
         followups \in [Tickets -> Seq(FollowupRows)],
         Len(followups'[k]) = Len(followups[k]),
         AboutToInsert(k)' \subseteq AboutToInsert(k)
  PROVE  RowsBounded(k)'
<1>1. PICK before : before = AboutToInsert(k)
  OBVIOUS
<1>2. PICK after : after = AboutToInsert(k)'
  OBVIOUS
<1>3. before \subseteq FollowupRunners /\ after \subseteq before
  BY <1>1, <1>2 DEF AboutToInsert
<1>4. /\ Cardinality(after) <= Cardinality(before)
      /\ Cardinality(after) \in Nat /\ Cardinality(before) \in Nat
  BY <1>3, RunnersAreFinite, FS_Subset
<1>5. Len(followups[k]) \in Nat /\ Cardinality(FollowupRunners) \in Nat
  BY RunnersAreFinite
<1>6. Len(followups[k]) + Cardinality(before) <= Cardinality(FollowupRunners)
  BY <1>1 DEF RowsBounded
<1>7. Len(followups'[k]) + Cardinality(after) <= Cardinality(FollowupRunners)
  BY <1>4, <1>5, <1>6
<1> QED
  BY <1>2, <1>7 DEF RowsBounded

\* A runner that becomes idle or goes on to another step is one less.
LEMMA FewerInsert ==
  ASSUME TypeInv, NEW k \in Tickets, NEW r \in FollowupRunners, NEW job,
         followup' = [followup EXCEPT ![r] = job], job.pc # "insert"
  PROVE  AboutToInsert(k)' = AboutToInsert(k) \ {r}
<1>1. followup \in [FollowupRunners -> JobStates]
  BY DEF TypeInv, TypeOK
<1> QED
  BY <1>1 DEF AboutToInsert

\* An interval from 1 says where it ends.
LEMMA SameInterval ==
  ASSUME NEW m \in Nat, NEW n \in Nat, 1 .. m = 1 .. n
  PROVE  m = n
<1>1. CASE m < n
  <2>1. n \in 1 .. n /\ n \notin 1 .. m
    BY <1>1
  <2> QED
    BY <2>1
<1>2. CASE n < m
  <2>1. m \in 1 .. m /\ m \notin 1 .. n
    BY <1>2
  <2> QED
    BY <2>1
<1> QED
  BY <1>1, <1>2

\* The bound of each ticket is kept by every step.
LEMMA RunnersStep ==
  ASSUME TypeInv, RunnersInv, [Next]_vars, NEW k \in Tickets
  PROVE  RowsBounded(k)'
<1>1. /\ followups \in [Tickets -> Seq(FollowupRows)] /\ followups[k] \in Seq(FollowupRows)
      /\ followup \in [FollowupRunners -> JobStates]
      /\ RowsBounded(k)
  BY DEF TypeInv, TypeOK, RunnersInv
<1>2. ASSUME UNCHANGED followup, UNCHANGED followups
      PROVE  RowsBounded(k)'
  BY <1>1, <1>2, BoundStays DEF AboutToInsert
<1>3. ASSUME UNCHANGED followup, DOMAIN followups'[k] = DOMAIN followups[k]
      PROVE  RowsBounded(k)'
  <2>1. followups'[k] \in Seq(FollowupRows)
    BY TypeStep DEF TypeInv, TypeOK
  <2>2. Len(followups'[k]) = Len(followups[k])
    <3>1. ASSUME NEW one \in Seq(FollowupRows), NEW two \in Seq(FollowupRows),
                 DOMAIN one = DOMAIN two
          PROVE  Len(one) = Len(two)
      <4>1. DOMAIN one = 1 .. Len(one) /\ DOMAIN two = 1 .. Len(two)
            /\ Len(one) \in Nat /\ Len(two) \in Nat
        OBVIOUS
      <4>2. 1 .. Len(one) = 1 .. Len(two)
        BY <3>1, <4>1
      <4> QED
        BY <4>1, <4>2, SameInterval
    <3> QED
      BY <1>1, <1>3, <2>1, <3>1
  <2> QED
    BY <1>1, <1>3, <2>2, BoundStays DEF AboutToInsert
<1>4. ASSUME NEW r \in FollowupRunners, NEW job, job.pc # "insert",
             followup' = [followup EXCEPT ![r] = job], UNCHANGED followups
      PROVE  RowsBounded(k)'
  BY <1>1, <1>4, FewerInsert, BoundStays
<1>5. \A rest : NextTicket(rest).pc # "insert"
  BY DEF NextTicket, IdleJob
<1>6. ASSUME NEW r \in FollowupRunners, FollowupInsert(r) PROVE RowsBounded(k)'
  <2>1. PICK row : followups' =
          [followups EXCEPT ![followup[r].cur] = Append(@, row)]
    BY <1>6 DEF FollowupInsert
  <2>2. PICK job : job = [followup[r] EXCEPT !.pc = "mark"]
    OBVIOUS
  <2>3. followup' = [followup EXCEPT ![r] = job] /\ job.pc = "mark"
    BY <1>1, <1>6, <2>2 DEF FollowupInsert, JobStates
  <2>4. AboutToInsert(k)' = AboutToInsert(k) \ {r}
    BY <2>3, FewerInsert
  <2>5. CASE followup[r].cur # k
    <3>1. followups'[k] = followups[k]
      BY <1>1, <2>1, <2>5
    <3> QED
      BY <1>1, <2>4, <3>1, BoundStays
  <2>6. CASE followup[r].cur = k
    <3>1. PICK before : before = AboutToInsert(k)
      OBVIOUS
    <3>2. r \in before /\ before \subseteq FollowupRunners
      BY <1>6, <2>6, <3>1 DEF FollowupInsert, AboutToInsert
    <3>3. /\ Cardinality(before \ {r}) = Cardinality(before) - 1
          /\ Cardinality(before) \in Nat /\ Cardinality(FollowupRunners) \in Nat
      BY <3>2, RunnersAreFinite, FS_RemoveElement
    <3>4. followups'[k] = Append(followups[k], row)
      BY <1>1, <2>1, <2>6
    <3>5. Len(followups'[k]) = Len(followups[k]) + 1 /\ Len(followups[k]) \in Nat
      BY <1>1, <3>4
    <3>6. Len(followups[k]) + Cardinality(before) <= Cardinality(FollowupRunners)
      BY <1>1, <3>1 DEF RowsBounded
    <3>7. Len(followups'[k]) + Cardinality(before \ {r}) <= Cardinality(FollowupRunners)
      BY <3>3, <3>5, <3>6
    <3> QED
      BY <2>4, <3>1, <3>7 DEF RowsBounded
  <2> QED
    BY <2>5, <2>6
<1>7. ASSUME NEW r \in FollowupRunners, FollowupCheck(r) PROVE RowsBounded(k)'
  <2>1. PICK n \in followup[r].work :
          \/ followup' = [followup EXCEPT ![r] = NextTicket(followup[r].work \ {n})]
          \/ /\ followups[n] = <<>>
             /\ followup' = [followup EXCEPT
                               ![r] = [pc |-> "insert", work |-> followup[r].work \ {n},
                                       cur |-> n]]
    BY <1>7 DEF FollowupCheck
  <2>2. UNCHANGED followups
    BY <1>7 DEF FollowupCheck
  <2>3. CASE followup' = [followup EXCEPT ![r] = NextTicket(followup[r].work \ {n})]
    BY <1>4, <1>5, <2>2, <2>3
  <2>4. CASE /\ followups[n] = <<>>
             /\ followup' = [followup EXCEPT
                               ![r] = [pc |-> "insert", work |-> followup[r].work \ {n},
                                       cur |-> n]]
    <3>1. CASE n = k
      <4>1. PICK after : after = AboutToInsert(k)'
        OBVIOUS
      <4>2. after \subseteq FollowupRunners
        BY <4>1 DEF AboutToInsert
      <4>3. Len(followups'[k]) = 0
        BY <2>2, <2>4, <3>1
      <4>4. Len(followups'[k]) + Cardinality(after) <= Cardinality(FollowupRunners)
        BY <4>2, <4>3, RunnersAreFinite
      <4> QED
        BY <4>1, <4>4 DEF RowsBounded
    <3>2. CASE n # k
      <4>1. PICK job : job = [pc |-> "insert", work |-> followup[r].work \ {n}, cur |-> n]
        OBVIOUS
      <4>2. followup' = [followup EXCEPT ![r] = job] /\ job.cur # k
        BY <2>4, <3>2, <4>1
      <4>3. AboutToInsert(k)' \subseteq AboutToInsert(k)
        BY <1>1, <4>2 DEF AboutToInsert
      <4> QED
        BY <1>1, <2>2, <4>3, BoundStays
    <3> QED
      BY <3>1, <3>2
  <2> QED
    BY <2>1, <2>3, <2>4
<1>8. ASSUME NEW r \in FollowupRunners, FollowupSelect(r) \/ FollowupMark(r)
      PROVE  RowsBounded(k)'
  BY <1>4, <1>5, <1>8 DEF FollowupSelect, FollowupMark
<1>9. ASSUME NEW r \in FollowupRunners, FollowupFails(r) PROVE RowsBounded(k)'
  <2>1. PICK job : job = IdleJob
    OBVIOUS
  <2>2. job.pc # "insert"
    BY <2>1 DEF IdleJob
  <2>3. followup' = [followup EXCEPT ![r] = job] /\ UNCHANGED followups
    BY <1>9, <2>1 DEF FollowupFails, Fault, tables
  <2> QED
    BY <1>4, <2>2, <2>3
<1>10. CASE Restart
  <2>1. AboutToInsert(k)' = {}
    BY <1>10 DEF Restart, IdleJob, AboutToInsert
  <2>2. UNCHANGED followups
    BY <1>10 DEF Restart, Fault, tables
  <2> QED
    BY <1>1, <2>1, <2>2, BoundStays
<1>11. CASE Stage2ResponseRows
  <2>1. stage2.tid \in Tickets
    BY <1>11 DEF TypeInv, BusyWithTicket, Stage2ResponseRows, ContinueAnswer
  <2>2. DOMAIN followups'[k] = DOMAIN followups[k]
    BY <1>1, <1>11, <2>1 DEF Stage2ResponseRows
  <2> QED
    BY <1>3, <1>11, <2>2 DEF Stage2ResponseRows, ContinueAnswer, Stage2Frame
<1>12. CASE Stage2Timeline
  <2>1. DOMAIN followups'[k] = DOMAIN followups[k]
    BY <1>1, <1>12 DEF Stage2Timeline
  <2> QED
    BY <1>3, <1>12, <2>1 DEF Stage2Timeline, StartAnswer, Stage2Frame
<1>13. CASE Stage2Response \/ Stage2TimelineResolve \/ Stage2TimelinePattern
  BY <1>2, <1>13
  DEF Stage2Response, Stage2TimelineResolve, Stage2TimelinePattern,
      StartAnswer, ContinueAnswer, Stage2Frame
<1>14. CASE \E h \in Turns : TurnStarts(h) \/ TurnResumes(h)
  BY <1>2, <1>14
  DEF TurnStarts, ChatNewTicket, ChatAutoConfirm, ChatStillWaiting,
      ChatEscalatedFollowUp, ChatClassify, ChatFollowUp, Receive, ChatFrame,
      TurnResumes, ClassifyReturns, PostEscalationReply, UnclearEscalated,
      ClarifyReply, OutOfScopeReply, NoTransactionReply, ComposeRetry,
      ComposeUnavailable, PolicyExhausted, QualityBarRaises, DeliverCard, Resume,
      jobs
<1>15. CASE \E r \in AutocloseRunners :
              AutocloseSelect(r) \/ AutocloseUpdate(r) \/ AutocloseFails(r)
  BY <1>2, <1>15
  DEF AutocloseSelect, AutocloseUpdate, AutocloseFails, Fault, tables
<1>16. CASE (\E h \in Turns : TurnFails(h)) \/ AnswerFails \/ Tick \/ UNCHANGED vars
  BY <1>2, <1>16 DEF TurnFails, AnswerFails, Fault, Tick, tables, jobs, vars
<1> QED
  BY <1>6, <1>7, <1>8, <1>9, <1>10, <1>11, <1>12, <1>13, <1>14, <1>15, <1>16
  DEF Next, AnswerStarts, AnswerContinues, FollowupContinues, Failure

\* The check and the insert of a run are two calls, and runs of the scheduler
\* and of the admin endpoint overlap: a ticket still gets no more follow-ups
\* than there are runners, however often they run, fail and are restarted.
THEOREM FollowupsStayBounded == Spec => []FollowupsBoundedByRunners
<1>1. Init => RunnersInv
  <2> SUFFICES ASSUME Init, NEW k \in Tickets PROVE RowsBounded(k)
    BY DEF RunnersInv
  <2>1. Len(followups[k]) = 0
    BY DEF Init
  <2>2. AboutToInsert(k) \subseteq FollowupRunners
    BY DEF AboutToInsert
  <2> QED
    BY <2>1, <2>2, RunnersAreFinite DEF RowsBounded
<1>2. TypeInv /\ RunnersInv /\ [Next]_vars => RunnersInv'
  BY RunnersStep DEF RunnersInv
<1>3. TypeInv /\ RunnersInv => FollowupsBoundedByRunners
  <2> SUFFICES ASSUME TypeInv, RunnersInv, NEW k \in Tickets
               PROVE  Len(followups[k]) <= Cardinality(FollowupRunners)
    BY DEF FollowupsBoundedByRunners
  <2>1. Len(followups[k]) \in Nat
    BY DEF TypeInv, TypeOK
  <2>2. PICK many : many = AboutToInsert(k)
    OBVIOUS
  <2>3. many \subseteq FollowupRunners
    BY <2>2 DEF AboutToInsert
  <2>4. Len(followups[k]) + Cardinality(many) <= Cardinality(FollowupRunners)
    BY <2>2 DEF RunnersInv, RowsBounded
  <2> QED
    BY <2>1, <2>3, <2>4, RunnersAreFinite
<1> QED
  BY <1>1, <1>2, <1>3, TypeInvariant, PTL DEF Spec

\* With the scheduler's thread as the only runner, one follow-up per ticket.
THEOREM OneFollowup ==
  ASSUME FollowupRunners = {"cron"}
  PROVE  Spec => []OneFollowupPerTicket
<1>1. Cardinality(FollowupRunners) = 1
  BY FS_Singleton
<1>2. FollowupsBoundedByRunners => OneFollowupPerTicket
  BY <1>1 DEF FollowupsBoundedByRunners, OneFollowupPerTicket
<1> QED
  BY <1>2, FollowupsStayBounded, PTL

-----------------------------------------------------------------------------
(* Risky cards.  A step replies once; the reply is a card only when the    *)
(* same step writes the ticket's row.                                      *)

\* A step that sends a card to a customer at risk escalates the ticket.
LEMMA CardsEscalate ==
  ASSUME TypeInv, RiskyCardEscalates, [Next]_vars
  PROVE  RiskyCardEscalates'
<1>1. ASSUME Silent PROVE RiskyCardEscalates'
  BY <1>1 DEF Silent, NoReply, RiskyCardEscalates
<1>2. ASSUME NEW kind, kind # "card", NEW k, NEW risky, Say(kind, k, risky)
      PROVE  RiskyCardEscalates'
  BY <1>2 DEF Say, RiskyCardEscalates
<1>3. ASSUME NEW h \in Turns, DeliverCard(h) PROVE RiskyCardEscalates'
  <2>1. /\ turns[h] \in TurnStates /\ turns[h].tid \in Tickets
        /\ tickets \in [Tickets -> TicketRows]
    BY <1>3 DEF TypeInv, TypeOK, BusyWithTicket, DeliverCard, Resume
  <2>2. PICK card \in Cards, d \in Deadlines :
          /\ PolicyPassed(card, turns[h].risky)
          /\ tickets' = [tickets EXCEPT ![turns[h].tid] =
                           [status    |-> StatusAfter(card, turns[h]),
                            category  |-> turns[h].category,
                            deadline  |-> d,
                            exchanges |-> Extended(turns[h].exchanges)]]
    BY <1>3 DEF DeliverCard
  <2>3. tickets'[turns[h].tid].status = StatusAfter(card, turns[h])
    BY <2>1, <2>2
  <2>4. reply'.to = turns[h].tid /\ reply'.risky = turns[h].risky
    BY <1>3 DEF DeliverCard, Say
  <2>5. turns[h].risky => card.escalates
    BY <2>2 DEF PolicyPassed
  <2>6. turns[h].risky => StatusAfter(card, turns[h]) = "escalated"
    BY <2>5 DEF StatusAfter
  <2> QED
    BY <2>3, <2>4, <2>6 DEF RiskyCardEscalates
<1>4. ASSUME NEW h \in Turns, TurnStarts(h) PROVE RiskyCardEscalates'
  BY <1>1, <1>2, <1>4
  DEF TurnStarts, ChatNewTicket, ChatAutoConfirm, ChatStillWaiting,
      ChatEscalatedFollowUp, ChatClassify, ChatFollowUp
<1>5. ASSUME NEW h \in Turns, TurnResumes(h) PROVE RiskyCardEscalates'
  BY <1>1, <1>2, <1>3, <1>5
  DEF TurnResumes, ClassifyReturns, PostEscalationReply, UnclearEscalated,
      ClarifyReply, OutOfScopeReply, NoTransactionReply, ComposeRetry,
      ComposeUnavailable, PolicyExhausted, QualityBarRaises
<1>6. CASE AnswerStarts \/ AnswerContinues
  BY <1>1, <1>6
  DEF AnswerStarts, AnswerContinues, Stage2Response, Stage2Timeline,
      Stage2ResponseRows, Stage2TimelineResolve, Stage2TimelinePattern,
      StartAnswer, ContinueAnswer
<1>7. CASE \E r \in FollowupRunners : FollowupSelect(r) \/ FollowupContinues(r)
  BY <1>1, <1>7
  DEF FollowupContinues, FollowupSelect, FollowupCheck, FollowupInsert,
      FollowupMark, JobFrame
<1>8. CASE \E r \in AutocloseRunners : AutocloseSelect(r) \/ AutocloseUpdate(r)
  BY <1>1, <1>8 DEF AutocloseSelect, AutocloseUpdate, JobFrame
<1>9. CASE Failure \/ Tick
  BY <1>1, <1>2, <1>9
  DEF Failure, TurnFails, AnswerFails, FollowupFails, AutocloseFails, Restart, Tick
<1>10. CASE UNCHANGED vars
  BY <1>10 DEF vars, tables, RiskyCardEscalates
<1> QED
  BY <1>4, <1>5, <1>6, <1>7, <1>8, <1>9, <1>10 DEF Next

\* Whatever else runs between the model calls of a turn, a customer at risk
\* who is shown a card has an escalated ticket.
THEOREM RiskyCardsEscalate == Spec => []RiskyCardEscalates
<1>1. Init => RiskyCardEscalates
  BY DEF Init, NoReply, RiskyCardEscalates
<1>2. TypeInv /\ RiskyCardEscalates /\ [Next]_vars => RiskyCardEscalates'
  BY CardsEscalate
<1> QED
  BY <1>1, <1>2, TypeInvariant, PTL DEF Spec
=============================================================================
