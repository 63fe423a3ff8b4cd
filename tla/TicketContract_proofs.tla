------------------------ MODULE TicketContract_proofs ------------------------
(***************************************************************************)
(* Theorems about TicketLifecycle with Serialized = TRUE: what the turns,  *)
(* the answers and the jobs promise when no two of them overlap, and that  *)
(* together they implement TicketContract.                                 *)
(***************************************************************************)
EXTENDS TicketLifecycle_proofs

USE TicketsAssumption, CategoryAssumption, DeadlinesAssumption, NumbersAssumption

-----------------------------------------------------------------------------
(* One operation at a time.  Whoever is in flight is alone, and so sees    *)
(* the tables as they are.                                                 *)

TurnsIdle     == \A h \in Turns : turns[h].pc = "idle"
FollowupIdle  == \A r \in FollowupRunners : followup[r].pc = "idle"
AutocloseIdle == \A r \in AutocloseRunners : autoclose[r].pc = "idle"
JobsIdle      == FollowupIdle /\ AutocloseIdle /\ stage2.pc = "idle"

\* What a turn knows of its ticket: its row, that it may still be asked to
\* clarify, that it has no deadline, or that it has a settlement rule.
TurnSees(turn) ==
  /\ tickets[turn.tid].status = turn.status
  /\ tickets[turn.tid].exchanges = turn.exchanges
  /\ turn.pc = "clarify" => turn.exchanges < MaxUnclear
  /\ turn.pc \in {"classify", "out_of_scope"} => tickets[turn.tid].deadline = Null
  /\ turn.pc = "compose" => turn.category \in Resolvable

\* What a run of the follow-up job knows of the tickets it has still to handle.
AskSees(job) ==
  /\ \A k \in job.work : tickets[k].status = "open"
  /\ job.pc \in {"insert", "mark"} =>
       tickets[job.cur].status = "open" /\ job.cur \notin job.work
  /\ job.pc = "insert" => followups[job.cur] = <<>>
  /\ job.pc = "mark" => followups[job.cur] # <<>>

\* What a run of the auto-close job knows of them.
CloseSees(job) ==
  \A k \in job.work : tickets[k].status \in {"open", "pending_confirmation"}

Resting == TurnsIdle /\ JobsIdle

TurnAlone(h) ==
  /\ turns[h].pc # "idle" /\ TurnSees(turns[h])
  /\ \A g \in Turns \ {h} : turns[g].pc = "idle"
  /\ JobsIdle

AnswerAlone ==
  /\ stage2.pc # "idle" /\ Exists(stage2.tid) /\ loop = "stage2"
  /\ TurnsIdle /\ FollowupIdle /\ AutocloseIdle

FollowupAlone(r) ==
  /\ followup[r].pc # "idle" /\ AskSees(followup[r])
  /\ \A q \in FollowupRunners \ {r} : followup[q].pc = "idle"
  /\ TurnsIdle /\ AutocloseIdle /\ stage2.pc = "idle"

AutocloseAlone(r) ==
  /\ autoclose[r].pc # "idle" /\ CloseSees(autoclose[r])
  /\ \A q \in AutocloseRunners \ {r} : autoclose[q].pc = "idle"
  /\ TurnsIdle /\ FollowupIdle /\ stage2.pc = "idle"

AloneInv ==
  \/ Resting
  \/ \E h \in Turns : TurnAlone(h)
  \/ AnswerAlone
  \/ \E r \in FollowupRunners : FollowupAlone(r)
  \/ \E r \in AutocloseRunners : AutocloseAlone(r)

\* A new operation finds everybody idle.
LEMMA StartsAtRest ==
  ASSUME Serialized = TRUE, AloneInv, MayStart
  PROVE  Resting
BY DEF AloneInv, MayStart, Quiescent, Resting, TurnsIdle, JobsIdle, FollowupIdle,
       AutocloseIdle, TurnAlone, AnswerAlone, FollowupAlone, AutocloseAlone

\* Whoever is not idle is alone.
LEMMA BusyIsAlone ==
  ASSUME AloneInv
  PROVE  /\ \A h \in Turns : turns[h].pc # "idle" => TurnAlone(h)
         /\ stage2.pc # "idle" => AnswerAlone
         /\ \A r \in FollowupRunners : followup[r].pc # "idle" => FollowupAlone(r)
         /\ \A r \in AutocloseRunners : autoclose[r].pc # "idle" => AutocloseAlone(r)
<1>1. CASE Resting
  BY <1>1 DEF Resting, TurnsIdle, JobsIdle, FollowupIdle, AutocloseIdle
<1>2. ASSUME NEW g \in Turns, TurnAlone(g)
      PROVE  /\ \A h \in Turns : turns[h].pc # "idle" => h = g
             /\ JobsIdle
  BY <1>2 DEF TurnAlone
<1>3. CASE AnswerAlone
  BY <1>3 DEF AnswerAlone, TurnsIdle, FollowupIdle, AutocloseIdle
<1>4. ASSUME NEW q \in FollowupRunners, FollowupAlone(q)
      PROVE  /\ \A r \in FollowupRunners : followup[r].pc # "idle" => r = q
             /\ TurnsIdle /\ AutocloseIdle /\ stage2.pc = "idle"
  BY <1>4 DEF FollowupAlone
<1>5. ASSUME NEW q \in AutocloseRunners, AutocloseAlone(q)
      PROVE  /\ \A r \in AutocloseRunners : autoclose[r].pc # "idle" => r = q
             /\ TurnsIdle /\ FollowupIdle /\ stage2.pc = "idle"
  BY <1>5 DEF AutocloseAlone
<1> QED
  BY <1>1, <1>2, <1>3, <1>4, <1>5
  DEF AloneInv, TurnsIdle, JobsIdle, FollowupIdle, AutocloseIdle

\* A turn that starts, goes on or ends, with nobody else in flight.
LEMMA TurnGoesOn ==
  ASSUME TypeInv, NEW h \in Turns, NEW t, turns' = [turns EXCEPT ![h] = t],
         \A g \in Turns \ {h} : turns[g].pc = "idle", JobsIdle, UNCHANGED jobs,
         t.pc # "idle" => TurnSees(t)'
  PROVE  AloneInv'
<1>1. turns'[h] = t /\ \A g \in Turns \ {h} : turns'[g].pc = "idle"
  BY DEF TypeInv, TypeOK
<1>2. JobsIdle'
  BY DEF JobsIdle, FollowupIdle, AutocloseIdle, jobs
<1>3. CASE t.pc = "idle"
  BY <1>1, <1>2, <1>3 DEF AloneInv, Resting, TurnsIdle
<1>4. CASE t.pc # "idle"
  <2>1. TurnSees(turns[h])'
    BY <1>1, <1>4 DEF TurnSees
  <2> QED
    BY <1>1, <1>2, <1>4, <2>1 DEF AloneInv, TurnAlone
<1> QED
  BY <1>3, <1>4

\* The same for a run of the follow-up job.
LEMMA FollowupGoesOn ==
  ASSUME TypeInv, NEW r \in FollowupRunners, NEW job,
         followup' = [followup EXCEPT ![r] = job],
         \A q \in FollowupRunners \ {r} : followup[q].pc = "idle",
         TurnsIdle, AutocloseIdle, stage2.pc = "idle",
         UNCHANGED <<turns, autoclose, stage2>>,
         job.pc # "idle" => AskSees(job)'
  PROVE  AloneInv'
<1>1. followup'[r] = job /\ \A q \in FollowupRunners \ {r} : followup'[q].pc = "idle"
  BY DEF TypeInv, TypeOK
<1>2. TurnsIdle' /\ AutocloseIdle' /\ stage2'.pc = "idle"
  BY DEF TurnsIdle, AutocloseIdle
<1>3. CASE job.pc = "idle"
  BY <1>1, <1>2, <1>3 DEF AloneInv, Resting, JobsIdle, FollowupIdle
<1>4. CASE job.pc # "idle"
  <2>1. AskSees(followup[r])'
    BY <1>1, <1>4 DEF AskSees
  <2> QED
    BY <1>1, <1>2, <1>4, <2>1 DEF AloneInv, FollowupAlone
<1> QED
  BY <1>3, <1>4

\* And of the auto-close job.
LEMMA AutocloseGoesOn ==
  ASSUME TypeInv, NEW r \in AutocloseRunners, NEW job,
         autoclose' = [autoclose EXCEPT ![r] = job],
         \A q \in AutocloseRunners \ {r} : autoclose[q].pc = "idle",
         TurnsIdle, FollowupIdle, stage2.pc = "idle",
         UNCHANGED <<turns, followup, stage2>>,
         job.pc # "idle" => CloseSees(job)'
  PROVE  AloneInv'
<1>1. autoclose'[r] = job /\ \A q \in AutocloseRunners \ {r} : autoclose'[q].pc = "idle"
  BY DEF TypeInv, TypeOK
<1>2. TurnsIdle' /\ FollowupIdle' /\ stage2'.pc = "idle"
  BY DEF TurnsIdle, FollowupIdle
<1>3. CASE job.pc = "idle"
  BY <1>1, <1>2, <1>3 DEF AloneInv, Resting, JobsIdle, AutocloseIdle
<1>4. CASE job.pc # "idle"
  <2>1. CloseSees(autoclose[r])'
    BY <1>1, <1>4 DEF CloseSees
  <2> QED
    BY <1>1, <1>2, <1>4, <2>1 DEF AloneInv, AutocloseAlone
<1> QED
  BY <1>3, <1>4

-----------------------------------------------------------------------------
(* What a step does to a row, when nobody else is in flight.  Turns write  *)
(* back what they read, so that is what is there.                          *)

OneAtATime == TypeInv /\ AloneInv /\ DeadlineKeepsCategory

\* A turn that goes on finds the row it read.
LEMMA TurnReads ==
  ASSUME TypeInv, AloneInv, NEW h \in Turns, TurnResumes(h)
  PROVE  /\ turns[h].pc # "idle" /\ TurnAlone(h)
         /\ turns[h] \in TurnStates /\ turns[h].tid \in Tickets
         /\ Exists(turns[h].tid)
         /\ tickets[turns[h].tid].status = turns[h].status
         /\ tickets[turns[h].tid].exchanges = turns[h].exchanges
         /\ UNCHANGED <<followups, jobs>>
<1>1. turns[h].pc # "idle" /\ UNCHANGED <<followups, jobs>>
  BY DEF TurnResumes, ClassifyReturns, PostEscalationReply, UnclearEscalated,
         ClarifyReply, OutOfScopeReply, NoTransactionReply, ComposeRetry,
         ComposeUnavailable, PolicyExhausted, QualityBarRaises, DeliverCard,
         Resume, ChatFrame
<1>2. TurnAlone(h) /\ turns[h] \in TurnStates /\ turns[h].tid \in Tickets
  BY <1>1, BusyIsAlone DEF TypeInv, TypeOK, BusyWithTicket
<1>3. turns[h].status # "absent"
  BY <1>2 DEF TurnStates, Statuses
<1> QED
  BY <1>1, <1>2, <1>3 DEF TurnAlone, TurnSees, Exists

\* What may happen to ticket q in a step: nothing that the bounds are about,
\* its first row, or another exchange of its history.
Untouched(q) ==
  /\ UNCHANGED clarified
  /\ Exists(q)' = Exists(q)
  /\ tickets'[q].category = tickets[q].category
  /\ tickets'[q].deadline = tickets[q].deadline
  /\ tickets'[q].exchanges = tickets[q].exchanges

Opened(q) ==
  /\ UNCHANGED clarified
  /\ ~Exists(q)
  /\ tickets'[q] = FreshTicket

Answered(q) ==
  /\ Exists(q) /\ Exists(q)'
  /\ tickets'[q].exchanges = Extended(tickets[q].exchanges)
  /\ \/ UNCHANGED clarified
     \/ /\ tickets[q].exchanges < MaxUnclear
        /\ clarified' = [clarified EXCEPT ![q] = @ + 1]
  /\ \/ /\ tickets'[q].category = tickets[q].category
        /\ tickets'[q].deadline = tickets[q].deadline
     \/ tickets'[q].deadline = Null
     \/ tickets'[q].category \in Resolvable

RowStep(q) ==
  \/ Untouched(q) \/ Opened(q) \/ Answered(q)
  \/ tickets'[q] = tickets[q] /\ clarified'[q] = clarified[q]

\* A status is written without touching the rest of the row.
LEMMA StatusTouches ==
  ASSUME TypeInv, NEW k \in Tickets, NEW s, s # "absent", Exists(k),
         SetStatus(k, s), UNCHANGED clarified, NEW q \in Tickets
  PROVE  RowStep(q)
<1>1. tickets \in [Tickets -> TicketRows]
  BY DEF TypeInv, TypeOK
<1>2. CASE q = k
  <2>1. tickets'[q] = [tickets[q] EXCEPT !.status = s]
    BY <1>1, <1>2 DEF SetStatus
  <2> QED
    BY <1>1, <1>2, <2>1 DEF RowStep, Untouched, Exists, TicketRows
<1>3. CASE q # k
  BY <1>1, <1>3 DEF SetStatus, RowStep
<1> QED
  BY <1>2, <1>3

\* A turn that ends.
LEMMA TurnWrites ==
  ASSUME TypeInv, AloneInv, NEW h \in Turns, TurnResumes(h), NEW q \in Tickets
  PROVE  RowStep(q)
<1> DEFINE turn == turns[h]
           k    == turns[h].tid
<1>1. /\ turn \in TurnStates /\ k \in Tickets /\ Exists(k) /\ TurnSees(turn)
      /\ tickets[k].status = turn.status /\ tickets[k].exchanges = turn.exchanges
  BY TurnReads DEF TurnAlone
<1>2. /\ tickets \in [Tickets -> TicketRows] /\ clarified \in [Tickets -> Nat]
      /\ tickets[k] \in TicketRows
  BY <1>1 DEF TypeInv, TypeOK
<1>3. CASE UNCHANGED <<tickets, clarified>>
  BY <1>3 DEF RowStep
<1>4. CASE UnclearEscalated(h) \/ PolicyExhausted(h)
  BY <1>1, <1>4, StatusTouches DEF UnclearEscalated, PolicyExhausted
<1>5. CASE PostEscalationReply(h) \/ NoTransactionReply(h)
  <2>1. SaveHistory(k, turn) /\ UNCHANGED clarified
    BY <1>5 DEF PostEscalationReply, NoTransactionReply
  <2>2. CASE q = k
    <3>1. PICK n : n = Extended(turn.exchanges)
      OBVIOUS
    <3>2. tickets'[q] = [tickets[q] EXCEPT !.exchanges = n]
      BY <1>2, <2>1, <2>2, <3>1 DEF SaveHistory
    <3> QED
      BY <1>1, <1>2, <2>1, <2>2, <3>1, <3>2 DEF RowStep, Answered, Exists, TicketRows
  <2>3. CASE q # k
    BY <1>2, <2>1, <2>3 DEF SaveHistory, RowStep
  <2> QED
    BY <2>2, <2>3
<1>6. CASE ClarifyReply(h)
  <2>1. /\ SaveHistory(k, turn)
        /\ clarified' = [clarified EXCEPT ![k] = @ + 1]
        /\ turn.exchanges < MaxUnclear
    BY <1>1, <1>6 DEF ClarifyReply, Resume, TurnSees
  <2>2. CASE q = k
    <3>1. PICK n : n = Extended(turn.exchanges)
      OBVIOUS
    <3>2. tickets'[q] = [tickets[q] EXCEPT !.exchanges = n]
      BY <1>2, <2>1, <2>2, <3>1 DEF SaveHistory
    <3> QED
      BY <1>1, <1>2, <2>1, <2>2, <3>1, <3>2 DEF RowStep, Answered, Exists, TicketRows
  <2>3. CASE q # k
    BY <1>2, <2>1, <2>3 DEF SaveHistory, RowStep
  <2> QED
    BY <2>2, <2>3
<1>7. CASE OutOfScopeReply(h)
  <2>1. PICK n : n = Extended(turn.exchanges)
    OBVIOUS
  <2>2. /\ tickets' = [tickets EXCEPT ![k].category  = "OUT_OF_SCOPE",
                                      ![k].exchanges = n]
        /\ UNCHANGED clarified
        /\ tickets[k].deadline = Null
    BY <1>1, <1>7, <2>1 DEF OutOfScopeReply, Resume, TurnSees
  <2>3. CASE q = k
    <3>1. tickets'[q] = [tickets[q] EXCEPT !.category = "OUT_OF_SCOPE", !.exchanges = n]
      BY <1>2, <2>2, <2>3
    <3> QED
      BY <1>1, <1>2, <2>1, <2>2, <2>3, <3>1 DEF RowStep, Answered, Exists, TicketRows
  <2>4. CASE q # k
    BY <1>2, <2>2, <2>4 DEF RowStep
  <2> QED
    BY <2>3, <2>4
<1>8. CASE DeliverCard(h)
  <2>1. PICK s, n, d : /\ n = Extended(turn.exchanges) /\ s # "absent"
                       /\ tickets' = [tickets EXCEPT ![k] =
                            [status |-> s, category |-> turn.category,
                             deadline |-> d, exchanges |-> n]]
    <3>1. \A card \in Cards : StatusAfter(card, turn) # "absent"
      BY <1>1 DEF StatusAfter, TurnStates, Statuses
    <3> QED
      BY <1>8, <3>1 DEF DeliverCard
  <2>2. turn.category \in Resolvable /\ UNCHANGED clarified
    BY <1>1, <1>8 DEF DeliverCard, Resume, TurnSees
  <2>3. CASE q = k
    <3>1. tickets'[q] = [status |-> s, category |-> turn.category,
                         deadline |-> d, exchanges |-> n]
      BY <1>2, <2>1, <2>3
    <3> QED
      BY <1>1, <2>1, <2>2, <2>3, <3>1 DEF RowStep, Answered, Exists
  <2>4. CASE q # k
    BY <1>2, <2>1, <2>2, <2>4 DEF RowStep
  <2> QED
    BY <2>3, <2>4
<1> QED
  BY <1>3, <1>4, <1>5, <1>6, <1>7, <1>8
  DEF TurnResumes, ClassifyReturns, ComposeRetry, ComposeUnavailable,
      QualityBarRaises

\* Every step of every operation.
LEMMA RowSteps ==
  ASSUME TypeInv, AloneInv, [Next]_vars, NEW q \in Tickets
  PROVE  RowStep(q)
<1>1. CASE UNCHANGED <<tickets, clarified>>
  BY <1>1 DEF RowStep
<1>2. ASSUME NEW h \in Turns, TurnStarts(h) PROVE RowStep(q)
  <2>1. CASE ChatNewTicket(h)
    <3>1. PICK k \in Tickets : ~Exists(k) /\ tickets' = [tickets EXCEPT ![k] = FreshTicket]
      BY <2>1 DEF ChatNewTicket
    <3>2. tickets \in [Tickets -> TicketRows] /\ UNCHANGED clarified
      BY <2>1 DEF TypeInv, TypeOK, ChatNewTicket
    <3> QED
      BY <3>1, <3>2 DEF RowStep, Opened
  <2>2. CASE ChatAutoConfirm(h)
    BY <2>2, StatusTouches DEF ChatAutoConfirm
  <2> QED
    BY <1>1, <1>2, <2>1, <2>2
    DEF TurnStarts, ChatStillWaiting, ChatEscalatedFollowUp, ChatClassify,
        ChatFollowUp
<1>3. CASE AnswerStarts \/ AnswerContinues
  <2>1. CASE Stage2Response
    BY <2>1, StatusTouches DEF Stage2Response, StartAnswer
  <2>2. CASE Stage2TimelineResolve
    <3>1. stage2.tid \in Tickets /\ Exists(stage2.tid)
      BY <2>2, BusyIsAlone
      DEF Stage2TimelineResolve, ContinueAnswer, TypeInv, BusyWithTicket, AnswerAlone
    <3> QED
      BY <2>2, <3>1, StatusTouches DEF Stage2TimelineResolve, ContinueAnswer
  <2> QED
    BY <1>1, <1>3, <2>1, <2>2
    DEF AnswerStarts, AnswerContinues, Stage2Timeline, Stage2ResponseRows,
        Stage2TimelinePattern, StartAnswer, ContinueAnswer
<1>4. ASSUME NEW r \in FollowupRunners, FollowupMark(r) PROVE RowStep(q)
  <2>1. followup[r].cur \in Tickets /\ Exists(followup[r].cur)
    BY <1>4, BusyIsAlone
    DEF FollowupMark, TypeInv, BusyWithTicket, FollowupAlone, AskSees, Exists
  <2> QED
    BY <1>4, <2>1, StatusTouches DEF FollowupMark, JobFrame
<1>5. ASSUME NEW r \in AutocloseRunners, AutocloseUpdate(r) PROVE RowStep(q)
  <2>1. PICK k \in autoclose[r].work : SetStatus(k, "auto_closed")
    BY <1>5 DEF AutocloseUpdate
  <2>2. k \in Tickets
    BY DEF TypeInv, TypeOK, JobStates
  <2>3. Exists(k)
    BY <1>5, BusyIsAlone DEF AutocloseUpdate, AutocloseAlone, CloseSees, Exists
  <2> QED
    BY <1>5, <2>1, <2>2, <2>3, StatusTouches DEF AutocloseUpdate, JobFrame
<1>6. CASE \/ \E r \in FollowupRunners :
                FollowupSelect(r) \/ FollowupCheck(r) \/ FollowupInsert(r)
           \/ \E r \in AutocloseRunners : AutocloseSelect(r)
  BY <1>1, <1>6
  DEF FollowupSelect, FollowupCheck, FollowupInsert, AutocloseSelect, JobFrame
<1>7. CASE Failure \/ Tick \/ UNCHANGED vars
  BY <1>1, <1>7
  DEF Failure, TurnFails, AnswerFails, FollowupFails, AutocloseFails, Restart,
      Fault, Tick, tables, vars
<1> QED
  BY <1>2, <1>3, <1>4, <1>5, <1>6, <1>7, TurnWrites DEF Next, FollowupContinues

-----------------------------------------------------------------------------
(* One operation at a time, for ever.                                      *)

\* Retrieval changes nothing of what the turn knows of its ticket.
LEMMA RetrievedKeeps ==
  ASSUME NEW turn \in TurnStates, NEW t \in Retrieved(turn)
  PROVE  /\ t.tid = turn.tid /\ t.status = turn.status
         /\ t.category = turn.category /\ t.exchanges = turn.exchanges
         /\ t.pc \in {"no_transaction", "compose"}
<1>1. CASE t = [turn EXCEPT !.pc = "no_transaction"]
  BY <1>1 DEF TurnStates
<1>2. ASSUME NEW high \in BOOLEAN,
             t = [turn EXCEPT !.pc = "compose", !.risky = @ \/ high]
      PROVE  /\ t.tid = turn.tid /\ t.status = turn.status
             /\ t.category = turn.category /\ t.exchanges = turn.exchanges
             /\ t.pc \in {"no_transaction", "compose"}
  <2> DEFINE risk == turn.risky \/ high
  <2>1. t = [turn EXCEPT !.pc = "compose", !.risky = risk]
    BY <1>2
  <2> HIDE DEF risk
  <2> QED
    BY <2>1 DEF TurnStates
<1> QED
  BY <1>1, <1>2 DEF Retrieved

\* A turn that starts.
LEMMA TurnStartsAlone ==
  ASSUME Serialized = TRUE, OneAtATime, NEW h \in Turns, TurnStarts(h)
  PROVE  AloneInv'
<1>1. Resting /\ UNCHANGED jobs
  BY StartsAtRest
  DEF OneAtATime, TurnStarts, ChatNewTicket, ChatAutoConfirm, ChatStillWaiting,
      ChatEscalatedFollowUp, ChatClassify, ChatFollowUp, Receive, ChatFrame
<1>2. tickets \in [Tickets -> TicketRows]
  BY DEF OneAtATime, TypeInv, TypeOK
<1>3. ASSUME UNCHANGED turns PROVE AloneInv'
  BY <1>1, <1>3
  DEF AloneInv, Resting, TurnsIdle, JobsIdle, FollowupIdle, AutocloseIdle, jobs
<1>4. ASSUME NEW t, turns' = [turns EXCEPT ![h] = t],
             tickets'[t.tid].status = t.status,
             tickets'[t.tid].exchanges = t.exchanges,
             t.pc # "clarify",
             t.pc \in {"classify", "out_of_scope"} => tickets'[t.tid].deadline = Null,
             t.pc = "compose" => t.category \in Resolvable
      PROVE  AloneInv'
  <2>1. TurnSees(t)'
    BY <1>4 DEF TurnSees
  <2> QED
    BY <1>1, <1>4, <2>1, TurnGoesOn DEF Resting, TurnsIdle, OneAtATime
<1>5. CASE ChatNewTicket(h)
  <2>1. PICK k \in Tickets, msg \in Messages :
          /\ tickets' = [tickets EXCEPT ![k] = FreshTicket]
          /\ turns' = [turns EXCEPT ![h] = Reading(k, FreshTicket, msg, "classify")]
    BY <1>5 DEF ChatNewTicket
  <2>2. PICK t : t = Reading(k, FreshTicket, msg, "classify")
    OBVIOUS
  <2>3. tickets'[k] = FreshTicket
    BY <1>2, <2>1
  <2>4. /\ t.tid = k /\ t.pc = "classify"
        /\ tickets'[k].status = t.status /\ tickets'[k].exchanges = t.exchanges
        /\ tickets'[k].deadline = Null
    BY <2>2, <2>3 DEF Reading, FreshTicket
  <2> QED
    BY <1>4, <2>1, <2>2, <2>4
<1>6. CASE ChatEscalatedFollowUp(h)
  <2>1. PICK k \in Tickets, msg \in Messages :
          turns' = [turns EXCEPT ![h] = Reading(k, tickets[k], msg, "post_escalation")]
    BY <1>6 DEF ChatEscalatedFollowUp
  <2>2. PICK t : t = Reading(k, tickets[k], msg, "post_escalation")
    OBVIOUS
  <2>3. UNCHANGED tickets
    BY <1>6 DEF ChatEscalatedFollowUp
  <2>4. /\ t.tid = k /\ t.pc = "post_escalation"
        /\ tickets'[k].status = t.status /\ tickets'[k].exchanges = t.exchanges
    BY <2>2, <2>3 DEF Reading
  <2> QED
    BY <1>4, <2>1, <2>2, <2>4
<1>7. CASE ChatClassify(h)
  <2>1. PICK k \in Tickets, msg \in Messages :
          /\ tickets[k].category \notin Resolvable
          /\ turns' = [turns EXCEPT ![h] = Reading(k, tickets[k], msg, "classify")]
    BY <1>7 DEF ChatClassify
  <2>2. PICK t : t = Reading(k, tickets[k], msg, "classify")
    OBVIOUS
  <2>3. UNCHANGED tickets /\ tickets[k].deadline = Null
    BY <1>7, <2>1 DEF ChatClassify, OneAtATime, DeadlineKeepsCategory
  <2>4. /\ t.tid = k /\ t.pc = "classify"
        /\ tickets'[k].status = t.status /\ tickets'[k].exchanges = t.exchanges
        /\ tickets'[k].deadline = Null
    BY <2>2, <2>3 DEF Reading
  <2> QED
    BY <1>4, <2>1, <2>2, <2>4
<1>8. CASE ChatFollowUp(h)
  <2>1. PICK k \in Tickets, msg \in Messages :
          /\ Exists(k) /\ tickets[k].category \in Resolvable
          /\ \E t \in Retrieved(Reading(k, tickets[k], msg, "compose")) :
               turns' = [turns EXCEPT ![h] = t]
    BY <1>8 DEF ChatFollowUp
  <2>2. PICK turn : turn = Reading(k, tickets[k], msg, "compose")
    OBVIOUS
  <2>3. PICK t \in Retrieved(turn) : turns' = [turns EXCEPT ![h] = t]
    BY <2>1, <2>2
  <2>4. turn \in TurnStates
    BY <1>2, <2>1, <2>2, ReadingType DEF Exists, AwaitPoints
  <2>5. /\ turn.tid = k /\ turn.status = tickets[k].status
        /\ turn.category \in Resolvable /\ turn.exchanges = tickets[k].exchanges
    BY <2>1, <2>2 DEF Reading
  <2>6. UNCHANGED tickets
    BY <1>8 DEF ChatFollowUp
  <2> QED
    BY <1>4, <2>3, <2>4, <2>5, <2>6, RetrievedKeeps
<1> QED
  BY <1>3, <1>5, <1>6, <1>7, <1>8 DEF TurnStarts, ChatAutoConfirm, ChatStillWaiting

\* A turn that goes on or ends.
LEMMA TurnResumesAlone ==
  ASSUME TypeInv, AloneInv, NEW h \in Turns, TurnResumes(h)
  PROVE  AloneInv'
<1> DEFINE turn == turns[h]
<1>1. /\ turn \in TurnStates /\ TurnSees(turn) /\ UNCHANGED jobs /\ JobsIdle
      /\ \A g \in Turns \ {h} : turns[g].pc = "idle"
  BY TurnReads DEF TurnAlone
<1>2. ASSUME NEW t, turns' = [turns EXCEPT ![h] = t],
             t.pc # "idle" => TurnSees(t)'
      PROVE  AloneInv'
  BY <1>1, <1>2, TurnGoesOn
<1>3. ASSUME Finish(h) PROVE AloneInv'
  <2>1. PICK t : t = IdleTurn
    OBVIOUS
  <2> QED
    BY <1>2, <1>3, <2>1, IdleTypes DEF Finish
<1>4. CASE ClassifyReturns(h)
  <2>1. UNCHANGED tickets /\ turn.pc = "classify" /\ turns \in [Turns -> TurnStates]
    BY <1>4 DEF ClassifyReturns, Resume, TypeInv, TypeOK
  <2>2. /\ tickets[turn.tid].status = turn.status
        /\ tickets[turn.tid].exchanges = turn.exchanges
        /\ tickets[turn.tid].deadline = Null
    BY <1>1, <2>1 DEF TurnSees
  <2>3. CASE \E t \in UNION {Retrieved([turn EXCEPT !.category = c])
                               : c \in Resolvable} :
               turns' = [turns EXCEPT ![h] = t]
    <3>1. PICK c \in Resolvable :
            \E t \in Retrieved([turn EXCEPT !.category = c]) :
              turns' = [turns EXCEPT ![h] = t]
      BY <2>3
    <3>2. PICK read : read = [turn EXCEPT !.category = c]
      OBVIOUS
    <3>3. PICK t \in Retrieved(read) : turns' = [turns EXCEPT ![h] = t]
      BY <3>1, <3>2
    <3>4. /\ read \in TurnStates /\ read.category = c /\ read.tid = turn.tid
          /\ read.status = turn.status /\ read.exchanges = turn.exchanges
      BY <1>1, <3>2 DEF TurnStates, StoredCategories
    <3>5. /\ t.tid = turn.tid /\ t.status = turn.status /\ t.category = c
          /\ t.exchanges = turn.exchanges /\ t.pc \in {"no_transaction", "compose"}
      BY <3>4, RetrievedKeeps
    <3>6. TurnSees(t)'
      BY <2>1, <2>2, <3>5 DEF TurnSees
    <3> QED
      BY <1>2, <3>3, <3>6
  <2>4. ASSUME NEW pc, turns' = [turns EXCEPT ![h].pc = pc],
               pc \in {"out_of_scope", "unclear_escalated", "clarify"},
               pc = "clarify" => turn.exchanges < MaxUnclear
        PROVE  AloneInv'
    <3>1. PICK t : t = [turn EXCEPT !.pc = pc]
      OBVIOUS
    <3>2. turns' = [turns EXCEPT ![h] = t]
      BY <2>1, <2>4, <3>1
    <3>3. /\ t.tid = turn.tid /\ t.status = turn.status
          /\ t.exchanges = turn.exchanges /\ t.pc = pc
      BY <1>1, <3>1 DEF TurnStates
    <3>4. TurnSees(t)'
      BY <2>1, <2>2, <2>4, <3>3 DEF TurnSees
    <3> QED
      BY <1>2, <3>2, <3>4
  <2> QED
    BY <1>4, <2>3, <2>4 DEF ClassifyReturns
<1>5. CASE ComposeRetry(h)
  <2>1. PICK t : t = [turn EXCEPT !.attempt = @ + 1]
    OBVIOUS
  <2>2. /\ turns' = [turns EXCEPT ![h] = t] /\ UNCHANGED tickets
        /\ turn.pc = "compose"
    BY <1>5, <2>1 DEF ComposeRetry, Resume
  <2>3. /\ t.tid = turn.tid /\ t.status = turn.status /\ t.category = turn.category
        /\ t.exchanges = turn.exchanges /\ t.pc = turn.pc
    BY <1>1, <2>1 DEF TurnStates
  <2>4. TurnSees(t)'
    BY <1>1, <2>2, <2>3 DEF TurnSees
  <2> QED
    BY <1>2, <2>2, <2>4
<1> QED
  BY <1>3, <1>4, <1>5
  DEF TurnResumes, PostEscalationReply, UnclearEscalated, ClarifyReply,
      OutOfScopeReply, NoTransactionReply, ComposeUnavailable, PolicyExhausted,
      QualityBarRaises, DeliverCard

\* The answers of stage 2.
LEMMA AnswersAlone ==
  ASSUME Serialized = TRUE, TypeInv, AloneInv, AnswerStarts \/ AnswerContinues
  PROVE  AloneInv'
<1>1. UNCHANGED <<turns, followup, autoclose>>
  BY DEF AnswerStarts, AnswerContinues, Stage2Response, Stage2Timeline,
         Stage2ResponseRows, Stage2TimelineResolve, Stage2TimelinePattern,
         StartAnswer, ContinueAnswer, Stage2Frame
<1>2. TurnsIdle /\ FollowupIdle /\ AutocloseIdle
  <2>1. CASE AnswerStarts
    <3>1. MayStart
      BY <2>1 DEF AnswerStarts, Stage2Response, Stage2Timeline, StartAnswer
    <3> QED
      BY <3>1, StartsAtRest DEF Resting, JobsIdle
  <2>2. CASE AnswerContinues
    <3>1. stage2.pc # "idle"
      BY <2>2 DEF AnswerContinues, Stage2ResponseRows, Stage2TimelineResolve,
                  Stage2TimelinePattern, ContinueAnswer
    <3> QED
      BY <3>1, BusyIsAlone DEF AnswerAlone
  <2> QED
    BY <2>1, <2>2
<1>3. (TurnsIdle /\ FollowupIdle /\ AutocloseIdle)'
  BY <1>1, <1>2 DEF TurnsIdle, FollowupIdle, AutocloseIdle
<1>4. ASSUME EndAnswer PROVE AloneInv'
  BY <1>3, <1>4, IdleTypes DEF EndAnswer, AloneInv, Resting, JobsIdle
<1>5. ASSUME stage2'.pc # "idle", Exists(stage2.tid)', loop' = "stage2"
      PROVE  AloneInv'
  BY <1>3, <1>5 DEF AloneInv, AnswerAlone
<1>6. tickets \in [Tickets -> TicketRows]
  BY DEF TypeInv, TypeOK
<1>7. CASE Stage2Response
  <2>1. PICK k \in Tickets, a \in {"yes", "no"} :
          /\ SetStatus(k, IF a = "yes" THEN "awaiting_timeline" ELSE "escalated")
          /\ stage2' = [pc |-> "rows", tid |-> k, answer |-> a]
    BY <1>7 DEF Stage2Response
  <2>2. tickets'[k].status # "absent"
    BY <1>6, <2>1 DEF SetStatus, TicketRows
  <2> QED
    BY <1>5, <1>7, <2>1, <2>2 DEF Stage2Response, StartAnswer, Exists
<1>8. CASE Stage2Timeline
  <2>1. PICK k \in Tickets :
          Exists(k) /\ stage2' = [pc |-> "resolve", tid |-> k, answer |-> Null]
    BY <1>8 DEF Stage2Timeline
  <2> QED
    BY <1>5, <1>8, <2>1 DEF Stage2Timeline, StartAnswer, Exists
<1>9. CASE Stage2TimelineResolve
  <2>1. stage2 \in Stage2States /\ stage2.tid \in Tickets /\ loop = "stage2"
    BY <1>9, BusyIsAlone
    DEF Stage2TimelineResolve, ContinueAnswer, TypeInv, TypeOK, BusyWithTicket,
        AnswerAlone
  <2>2. stage2'.tid = stage2.tid /\ stage2'.pc = "pattern" /\ loop' = loop
    BY <1>9, <2>1 DEF Stage2TimelineResolve, Stage2States
  <2>3. tickets'[stage2.tid].status = "resolved"
    BY <1>6, <1>9, <2>1 DEF Stage2TimelineResolve, SetStatus, TicketRows
  <2> QED
    BY <1>5, <2>1, <2>2, <2>3 DEF Exists
<1> QED
  BY <1>4, <1>7, <1>8, <1>9
  DEF AnswerStarts, AnswerContinues, Stage2ResponseRows, Stage2TimelinePattern

\* The follow-up job.  Marking a ticket does not touch those still to handle.
LEMMA FollowupAlways ==
  ASSUME Serialized = TRUE, TypeInv, AloneInv, NEW r \in FollowupRunners,
         FollowupSelect(r) \/ FollowupContinues(r)
  PROVE  AloneInv'
<1> DEFINE job == followup[r]
<1>1. /\ UNCHANGED <<turns, autoclose, stage2>>
      /\ TurnsIdle /\ AutocloseIdle /\ stage2.pc = "idle"
      /\ \A q \in FollowupRunners \ {r} : followup[q].pc = "idle"
      /\ job.pc # "idle" => AskSees(job)
  <2>1. UNCHANGED <<turns, autoclose, stage2>>
    BY DEF FollowupContinues, FollowupSelect, FollowupCheck, FollowupInsert,
           FollowupMark, JobFrame
  <2>2. CASE FollowupSelect(r)
    BY <2>1, <2>2, StartsAtRest DEF FollowupSelect, CanStart, Resting, JobsIdle, FollowupIdle
  <2>3. CASE FollowupContinues(r)
    <3>1. job.pc # "idle"
      BY <2>3 DEF FollowupContinues, FollowupCheck, FollowupInsert, FollowupMark
    <3> QED
      BY <2>1, <3>1, BusyIsAlone DEF FollowupAlone
  <2> QED
    BY <2>2, <2>3
<1>2. /\ tickets \in [Tickets -> TicketRows] /\ followup \in [FollowupRunners -> JobStates]
      /\ followups \in [Tickets -> Seq(FollowupRows)]
      /\ job \in JobStates /\ job.work \subseteq Tickets
  BY DEF TypeInv, TypeOK, JobStates
<1>3. ASSUME NEW next, followup' = [followup EXCEPT ![r] = next],
             next.pc # "idle" => AskSees(next)'
      PROVE  AloneInv'
  BY <1>1, <1>3, FollowupGoesOn
<1>4. ASSUME NEW rest, followup' = [followup EXCEPT ![r] = NextTicket(rest)],
             \A k \in rest : tickets'[k].status = "open"
      PROVE  AloneInv'
  <2>1. PICK next : next = NextTicket(rest)
    OBVIOUS
  <2>2. CASE rest = {}
    BY <1>3, <1>4, <2>1, <2>2, IdleTypes DEF NextTicket
  <2>3. CASE rest # {}
    <3>1. next.pc = "scan" /\ next.work = rest
      BY <2>1, <2>3 DEF NextTicket
    <3>2. AskSees(next)'
      BY <1>4, <3>1 DEF AskSees
    <3> QED
      BY <1>3, <1>4, <2>1, <3>2
  <2> QED
    BY <2>2, <2>3
<1>5. CASE FollowupSelect(r)
  <2>1. PICK rest : rest = DueForFollowup
    OBVIOUS
  <2>2. /\ followup' = [followup EXCEPT ![r] = NextTicket(rest)]
        /\ UNCHANGED tickets
    BY <1>5, <2>1 DEF FollowupSelect
  <2>3. \A k \in rest : tickets[k].status = "open"
    BY <2>1 DEF DueForFollowup
  <2> QED
    BY <1>4, <2>2, <2>3
<1>6. CASE FollowupCheck(r)
  <2>1. UNCHANGED <<tickets, followups>> /\ \A k \in job.work : tickets[k].status = "open"
    BY <1>1, <1>6 DEF FollowupCheck, AskSees
  <2>2. PICK k, rest :
          /\ k \in job.work /\ rest = job.work \ {k}
          /\ \/ followup' = [followup EXCEPT ![r] = NextTicket(rest)]
             \/ /\ followups[k] = <<>>
                /\ followup' = [followup EXCEPT
                                  ![r] = [pc |-> "insert", work |-> rest, cur |-> k]]
    BY <1>6 DEF FollowupCheck
  <2>3. CASE followup' = [followup EXCEPT ![r] = NextTicket(rest)]
    <3>1. \A q \in rest : tickets'[q].status = "open"
      BY <2>1, <2>2
    <3> QED
      BY <1>4, <2>3, <3>1
  <2>4. CASE /\ followups[k] = <<>>
             /\ followup' = [followup EXCEPT
                               ![r] = [pc |-> "insert", work |-> rest, cur |-> k]]
    <3>1. PICK next : next = [pc |-> "insert", work |-> rest, cur |-> k]
      OBVIOUS
    <3>2. AskSees(next)'
      BY <2>1, <2>2, <2>4, <3>1 DEF AskSees
    <3> QED
      BY <1>3, <2>4, <3>1, <3>2
  <2> QED
    BY <2>2, <2>3, <2>4
<1>7. CASE FollowupInsert(r)
  <2>1. PICK row : followups' = [followups EXCEPT ![job.cur] = Append(@, row)]
    BY <1>7 DEF FollowupInsert
  <2>2. job.pc = "insert" /\ job.cur \in Tickets /\ UNCHANGED tickets
    BY <1>7 DEF FollowupInsert, TypeInv, BusyWithTicket
  <2>3. followups'[job.cur] # <<>>
    <3>1. PICK rows \in Seq(FollowupRows) : rows = followups[job.cur]
      BY <1>2, <2>2
    <3>2. Append(rows, row) # <<>>
      OBVIOUS
    <3>3. followups'[job.cur] = Append(rows, row)
      BY <1>2, <2>1, <2>2, <3>1
    <3> QED
      BY <3>2, <3>3
  <2>4. PICK next : next = [job EXCEPT !.pc = "mark"]
    OBVIOUS
  <2>5. next.pc = "mark" /\ next.work = job.work /\ next.cur = job.cur
    BY <1>2, <2>4 DEF JobStates
  <2>6. AskSees(next)'
    BY <1>1, <2>2, <2>3, <2>5 DEF AskSees
  <2>7. followup' = [followup EXCEPT ![r] = next]
    BY <1>2, <1>7, <2>4 DEF FollowupInsert
  <2> QED
    BY <1>3, <2>6, <2>7
<1>8. CASE FollowupMark(r)
  <2>1. PICK rest : rest = job.work
    OBVIOUS
  <2>2. /\ followup' = [followup EXCEPT ![r] = NextTicket(rest)]
        /\ SetStatus(job.cur, "pending_confirmation")
        /\ job.pc = "mark" /\ job.cur \in Tickets
    BY <1>8, <2>1 DEF FollowupMark, TypeInv, BusyWithTicket
  <2>3. \A k \in rest : k # job.cur /\ k \in Tickets /\ tickets[k].status = "open"
    BY <1>1, <1>2, <2>1, <2>2 DEF AskSees
  <2>4. \A k \in rest : tickets'[k].status = "open"
    BY <1>2, <2>2, <2>3 DEF SetStatus
  <2> QED
    BY <1>4, <2>2, <2>4
<1> QED
  BY <1>5, <1>6, <1>7, <1>8 DEF FollowupContinues

\* The auto-close job.
LEMMA AutocloseAlways ==
  ASSUME Serialized = TRUE, TypeInv, AloneInv, NEW r \in AutocloseRunners,
         AutocloseSelect(r) \/ AutocloseUpdate(r)
  PROVE  AloneInv'
<1> DEFINE job == autoclose[r]
<1>1. /\ UNCHANGED <<turns, followup, stage2>>
      /\ TurnsIdle /\ FollowupIdle /\ stage2.pc = "idle"
      /\ \A q \in AutocloseRunners \ {r} : autoclose[q].pc = "idle"
      /\ job.pc # "idle" => CloseSees(job)
  <2>1. UNCHANGED <<turns, followup, stage2>>
    BY DEF AutocloseSelect, AutocloseUpdate, JobFrame
  <2>2. CASE AutocloseSelect(r)
    BY <2>1, <2>2, StartsAtRest DEF AutocloseSelect, CanStart, Resting, JobsIdle, AutocloseIdle
  <2>3. CASE AutocloseUpdate(r)
    <3>1. job.pc # "idle"
      BY <2>3 DEF AutocloseUpdate
    <3> QED
      BY <2>1, <3>1, BusyIsAlone DEF AutocloseAlone
  <2> QED
    BY <2>2, <2>3
<1>2. /\ tickets \in [Tickets -> TicketRows] /\ job.work \subseteq Tickets
      /\ autoclose \in [AutocloseRunners -> JobStates]
  BY DEF TypeInv, TypeOK, JobStates
<1>3. ASSUME NEW rest, autoclose' = [autoclose EXCEPT ![r] = NextTicket(rest)],
             \A k \in rest : tickets'[k].status \in {"open", "pending_confirmation"}
      PROVE  AloneInv'
  <2>1. PICK next : next = NextTicket(rest)
    OBVIOUS
  <2>2. CASE rest = {}
    BY <1>1, <1>3, <2>1, <2>2, IdleTypes, AutocloseGoesOn DEF NextTicket
  <2>3. CASE rest # {}
    <3>1. next.pc = "scan" /\ next.work = rest
      BY <2>1, <2>3 DEF NextTicket
    <3>2. CloseSees(next)'
      BY <1>3, <3>1 DEF CloseSees
    <3> QED
      BY <1>1, <1>3, <2>1, <3>2, AutocloseGoesOn
  <2> QED
    BY <2>2, <2>3
<1>4. CASE AutocloseSelect(r)
  <2>1. PICK rest : rest = DueForClosing
    OBVIOUS
  <2>2. /\ autoclose' = [autoclose EXCEPT ![r] = NextTicket(rest)]
        /\ UNCHANGED tickets
    BY <1>4, <2>1 DEF AutocloseSelect
  <2>3. \A k \in rest : tickets[k].status \in {"open", "pending_confirmation"}
    BY <2>1 DEF DueForClosing
  <2> QED
    BY <1>3, <2>2, <2>3
<1>5. CASE AutocloseUpdate(r)
  <2>1. PICK k, rest :
          /\ k \in job.work /\ rest = job.work \ {k}
          /\ SetStatus(k, "auto_closed")
          /\ autoclose' = [autoclose EXCEPT ![r] = NextTicket(rest)]
    BY <1>5 DEF AutocloseUpdate
  <2>2. \A q \in rest : tickets'[q].status = tickets[q].status
    BY <1>2, <2>1 DEF SetStatus
  <2>3. CloseSees(job)
    BY <1>1, <1>5 DEF AutocloseUpdate
  <2> QED
    BY <1>3, <2>1, <2>2, <2>3 DEF CloseSees
<1> QED
  BY <1>4, <1>5

\* Failures free whoever was in flight.
LEMMA FailuresAlone ==
  ASSUME TypeInv, AloneInv, Failure
  PROVE  AloneInv'
<1>1. /\ turns \in [Turns -> TurnStates] /\ followup \in [FollowupRunners -> JobStates]
      /\ autoclose \in [AutocloseRunners -> JobStates]
  BY DEF TypeInv, TypeOK
<1>2. ASSUME NEW h \in Turns, TurnFails(h) PROVE AloneInv'
  <2>1. turns[h].pc # "idle" /\ Finish(h) /\ UNCHANGED jobs
    BY <1>2 DEF TurnFails
  <2>2. TurnAlone(h)
    BY <2>1, BusyIsAlone
  <2>3. PICK t : t = IdleTurn
    OBVIOUS
  <2> QED
    BY <2>1, <2>2, <2>3, IdleTypes, TurnGoesOn DEF Finish, TurnAlone
<1>3. CASE AnswerFails
  BY <1>3, BusyIsAlone, IdleTypes
  DEF AnswerFails, EndAnswer, AnswerAlone, AloneInv, Resting, TurnsIdle, JobsIdle,
      FollowupIdle, AutocloseIdle
<1>4. ASSUME NEW r \in FollowupRunners, FollowupFails(r) PROVE AloneInv'
  <2>1. /\ followup[r].pc # "idle" /\ followup' = [followup EXCEPT ![r] = IdleJob]
        /\ UNCHANGED <<turns, stage2, autoclose>>
    BY <1>4 DEF FollowupFails
  <2>2. FollowupAlone(r)
    BY <2>1, BusyIsAlone
  <2>3. PICK next : next = IdleJob
    OBVIOUS
  <2> QED
    BY <2>1, <2>2, <2>3, IdleTypes, FollowupGoesOn DEF FollowupAlone
<1>5. ASSUME NEW r \in AutocloseRunners, AutocloseFails(r) PROVE AloneInv'
  <2>1. /\ autoclose[r].pc # "idle" /\ autoclose' = [autoclose EXCEPT ![r] = IdleJob]
        /\ UNCHANGED <<turns, stage2, followup>>
    BY <1>5 DEF AutocloseFails
  <2>2. AutocloseAlone(r)
    BY <2>1, BusyIsAlone
  <2>3. PICK next : next = IdleJob
    OBVIOUS
  <2> QED
    BY <2>1, <2>2, <2>3, IdleTypes, AutocloseGoesOn DEF AutocloseAlone
<1>6. CASE Restart
  BY <1>6, IdleTypes
  DEF Restart, AloneInv, Resting, TurnsIdle, JobsIdle, FollowupIdle, AutocloseIdle
<1> QED
  BY <1>2, <1>3, <1>4, <1>5, <1>6 DEF Failure

\* Time passes, or nothing happens.
LEMMA WaitingAlone ==
  ASSUME AloneInv, Tick \/ UNCHANGED vars
  PROVE  AloneInv'
<1>1. UNCHANGED <<tickets, followups, turns, stage2, followup, autoclose, loop>>
  BY DEF Tick, vars, tables, jobs
<1>2. /\ UNCHANGED <<TurnsIdle, FollowupIdle, AutocloseIdle>>
      /\ \A t : TurnSees(t) => TurnSees(t)'
      /\ \A t : AskSees(t) => AskSees(t)'
      /\ \A t : CloseSees(t) => CloseSees(t)'
      /\ \A k : Exists(k)' = Exists(k)
  BY <1>1 DEF TurnsIdle, FollowupIdle, AutocloseIdle, TurnSees, AskSees, CloseSees, Exists
<1> QED
  BY <1>1 DEF AloneInv, Resting, TurnsIdle, JobsIdle, FollowupIdle, AutocloseIdle,
     TurnAlone, AnswerAlone, FollowupAlone, AutocloseAlone, TurnSees, AskSees,
     CloseSees, Exists

\* A ticket with a deadline has a settlement rule after the step too.
LEMMA DeadlineStep ==
  ASSUME TypeInv, AloneInv, DeadlineKeepsCategory, [Next]_vars
  PROVE  DeadlineKeepsCategory'
<1> SUFFICES ASSUME NEW q \in Tickets, tickets'[q].deadline # Null
             PROVE  tickets'[q].category \in Resolvable
  BY DEF DeadlineKeepsCategory
<1>1. RowStep(q)
  BY RowSteps
<1>2. FreshTicket.deadline = Null
  BY DEF FreshTicket
<1> QED
  BY <1>1, <1>2 DEF DeadlineKeepsCategory, RowStep, Untouched, Opened, Answered

LEMMA AloneStep ==
  ASSUME Serialized = TRUE, OneAtATime, [Next]_vars
  PROVE  OneAtATime'
<1>1. TypeInv' /\ DeadlineKeepsCategory'
  BY TypeStep, DeadlineStep DEF OneAtATime
<1>2. AloneInv'
  BY TurnStartsAlone, TurnResumesAlone, AnswersAlone, FollowupAlways,
     AutocloseAlways, FailuresAlone, WaitingAlone
  DEF OneAtATime, Next
<1> QED
  BY <1>1, <1>2 DEF OneAtATime

LEMMA AloneInit == Init => OneAtATime
<1> SUFFICES ASSUME Init PROVE OneAtATime
  OBVIOUS
<1>1. TypeInv
  BY TypeInit
<1>2. AloneInv
  BY IdleTypes DEF Init, AloneInv, Resting, TurnsIdle, JobsIdle, FollowupIdle, AutocloseIdle
<1>3. DeadlineKeepsCategory
  BY DEF Init, NoRow, FreshTicket, DeadlineKeepsCategory
<1> QED
  BY <1>1, <1>2, <1>3 DEF OneAtATime

LEMMA AloneInvariant ==
  ASSUME Serialized = TRUE
  PROVE  Spec => []OneAtATime
<1>1. Init => OneAtATime
  BY AloneInit
<1>2. OneAtATime /\ [Next]_vars => OneAtATime'
  BY AloneStep
<1> QED
  BY <1>1, <1>2, PTL DEF Spec

\* With one operation at a time, a ticket that has a deadline keeps a category
\* with a settlement rule, so its later turns never reach the classifier.
THEOREM DatedTicketsKeepTheirCategory ==
  ASSUME Serialized = TRUE
  PROVE  Spec => []DeadlineKeepsCategory
<1>1. OneAtATime => DeadlineKeepsCategory
  BY DEF OneAtATime
<1> QED
  BY <1>1, AloneInvariant, PTL

-----------------------------------------------------------------------------
(* The count of clarifying questions.  It is read off a history that keeps *)
(* the last KeepExchanges exchanges, so it is exact below that only.       *)

ClarifiedRow(q) ==
  /\ clarified[q] <= MaxUnclear
  /\ ~Exists(q) => clarified[q] = 0
  /\ tickets[q].exchanges < KeepExchanges => clarified[q] <= tickets[q].exchanges

ClarifiedInv == \A q \in Tickets : ClarifiedRow(q)

LEMMA ClarifiedStep ==
  ASSUME MaxUnclear <= KeepExchanges, TypeInv, AloneInv, ClarifiedInv, [Next]_vars
  PROVE  ClarifiedInv'
<1> SUFFICES ASSUME NEW q \in Tickets PROVE ClarifiedRow(q)'
  BY DEF ClarifiedInv
<1>1. RowStep(q) /\ ClarifiedRow(q)
  BY RowSteps DEF ClarifiedInv
<1>2. /\ clarified \in [Tickets -> Nat] /\ clarified[q] \in Nat
      /\ MaxUnclear \in Nat /\ KeepExchanges \in Nat
      /\ tickets[q].exchanges \in Nat
  <2>1. tickets[q] \in TicketRows /\ clarified \in [Tickets -> Nat]
    BY DEF TypeInv, TypeOK
  <2> QED
    BY <2>1 DEF TicketRows
<1>3. CASE Untouched(q)
  BY <1>1, <1>3 DEF Untouched, ClarifiedRow
<1>4. CASE Opened(q)
  BY <1>1, <1>2, <1>4 DEF Opened, ClarifiedRow, FreshTicket
<1>5. CASE tickets'[q] = tickets[q] /\ clarified'[q] = clarified[q]
  BY <1>1, <1>5 DEF ClarifiedRow, Exists
<1>6. CASE Answered(q)
  <2>1. Exists(q)'
    BY <1>6 DEF Answered
  <2>2. PICK n, m : n = tickets[q].exchanges /\ m = tickets'[q].exchanges
    OBVIOUS
  <2>3. m = IF n < KeepExchanges THEN n + 1 ELSE KeepExchanges
    BY <1>6, <2>2 DEF Answered, Extended
  <2>4. \/ clarified'[q] = clarified[q]
        \/ n < MaxUnclear /\ clarified'[q] = clarified[q] + 1
    BY <1>2, <1>6, <2>2 DEF Answered
  <2> QED
    BY <1>1, <1>2, <2>1, <2>2, <2>3, <2>4 DEF ClarifiedRow
<1> QED
  BY <1>1, <1>3, <1>4, <1>5, <1>6 DEF RowStep

\* With one operation at a time and a history long enough to count in, an
\* unclear customer is asked to clarify at most MaxUnclear times.
THEOREM ClarifyingEnds ==
  ASSUME Serialized = TRUE, MaxUnclear <= KeepExchanges
  PROVE  Spec => []ClarifiedAtMost
<1>1. Init => ClarifiedInv
  BY DEF Init, NoRow, FreshTicket, ClarifiedInv, ClarifiedRow
<1>2. OneAtATime /\ ClarifiedInv /\ [Next]_vars => ClarifiedInv'
  BY ClarifiedStep DEF OneAtATime
<1>3. ClarifiedInv => ClarifiedAtMost
  BY DEF ClarifiedInv, ClarifiedRow, ClarifiedAtMost
<1> QED
  BY <1>1, <1>2, <1>3, AloneInvariant, PTL DEF Spec

-----------------------------------------------------------------------------
(* The refinement: what the contract sees of the tables.                   *)

StatusOf == [k \in Tickets |-> tickets[k].status]
AskedOf  == [k \in Tickets |-> followups[k] # <<>>]

\* Writing the status of a ticket changes what the contract sees in one place.
LEMMA StatusSeen ==
  ASSUME TypeInv, NEW k \in Tickets, NEW s, SetStatus(k, s)
  PROVE  StatusOf' = [StatusOf EXCEPT ![k] = s]
<1>1. tickets \in [Tickets -> TicketRows]
  BY DEF TypeInv, TypeOK
<1>2. \A q \in Tickets : tickets'[q].status = IF q = k THEN s ELSE tickets[q].status
  BY <1>1 DEF SetStatus, TicketRows
<1> QED
  BY <1>2 DEF StatusOf

\* A person takes over, or the customer says that the money arrived.
LEMMA StatusMoves ==
  ASSUME TypeInv, NEW k \in Tickets, Exists(k), UNCHANGED followups,
         NEW s \in {"escalated", "resolved", "awaiting_timeline"}, SetStatus(k, s)
  PROVE  Contract!Next
<1>1. tickets[k].status \in Contract!Live
  BY DEF TypeInv, TypeOK, TicketRows, Statuses, Exists, Contract!Live
<1>2. StatusOf[k] \in Contract!Live /\ StatusOf' = [StatusOf EXCEPT ![k] = s]
  BY <1>1, StatusSeen DEF StatusOf
<1>3. AskedOf' = AskedOf
  BY DEF AskedOf
<1> QED
  BY <1>2, <1>3
  DEF StatusOf, AskedOf, Contract!Next, Contract!Escalate,
      Contract!CustomerConfirms, Contract!Move

\* The contract sees nothing of a step that keeps every status and every row.
LEMMA Unseen ==
  ASSUME StatusOf' = StatusOf, AskedOf' = AskedOf
  PROVE  UNCHANGED Contract!vars
BY DEF StatusOf, AskedOf, Contract!vars

LEMMA ContractInit == Init => Contract!Init
<1> SUFFICES ASSUME Init PROVE Contract!Init
  OBVIOUS
<1>1. \A k \in Tickets : tickets[k].status = "absent" /\ followups[k] = <<>>
  BY DEF Init, NoRow, FreshTicket
<1>2. [k \in Tickets |-> tickets[k].status] = [k \in Tickets |-> "absent"]
  BY <1>1
<1>3. [k \in Tickets |-> followups[k] # <<>>] = [k \in Tickets |-> FALSE]
  BY <1>1
<1> QED
  BY <1>2, <1>3 DEF Contract!Init

\* The steps of a turn.
LEMMA TurnKeepsContract ==
  ASSUME TypeInv, AloneInv, NEW h \in Turns, TurnStarts(h) \/ TurnResumes(h)
  PROVE  Contract!Next \/ UNCHANGED Contract!vars
<1>1. tickets \in [Tickets -> TicketRows]
  BY DEF TypeInv, TypeOK
<1>2. UNCHANGED followups
  BY DEF TurnStarts, ChatNewTicket, ChatAutoConfirm, ChatStillWaiting,
         ChatEscalatedFollowUp, ChatClassify, ChatFollowUp, Receive, ChatFrame,
         TurnResumes, ClassifyReturns, PostEscalationReply, UnclearEscalated,
         ClarifyReply, OutOfScopeReply, NoTransactionReply, ComposeRetry,
         ComposeUnavailable, PolicyExhausted, QualityBarRaises, DeliverCard, Resume
<1>3. ASSUME \A q \in Tickets : tickets'[q].status = tickets[q].status
      PROVE  UNCHANGED Contract!vars
  BY <1>2, <1>3, Unseen DEF StatusOf, AskedOf
<1>4. CASE UNCHANGED tickets
  BY <1>3, <1>4
<1>5. CASE ChatNewTicket(h)
  <2>1. PICK k \in Tickets : ~Exists(k) /\ tickets' = [tickets EXCEPT ![k] = FreshTicket]
    BY <1>5 DEF ChatNewTicket
  <2>2. \A q \in Tickets :
          tickets'[q].status = IF q = k THEN "open" ELSE tickets[q].status
    BY <1>1, <2>1 DEF FreshTicket
  <2>3. StatusOf' = [StatusOf EXCEPT ![k] = "open"] /\ StatusOf[k] = "absent"
    BY <2>1, <2>2 DEF StatusOf, Exists
  <2>4. AskedOf' = AskedOf
    BY <1>2 DEF AskedOf
  <2> QED
    BY <2>3, <2>4 DEF StatusOf, AskedOf, Contract!Next, Contract!Open, Contract!Move
<1>6. CASE ChatAutoConfirm(h)
  BY <1>2, <1>6, StatusMoves DEF ChatAutoConfirm
<1>7. CASE TurnResumes(h)
  <2> DEFINE turn == turns[h]
             k    == turns[h].tid
  <2>1. /\ turn \in TurnStates /\ k \in Tickets /\ Exists(k)
        /\ tickets[k].status = turn.status
    BY <1>7, TurnReads
  <2>2. CASE UnclearEscalated(h) \/ PolicyExhausted(h)
    BY <1>2, <2>1, <2>2, StatusMoves DEF UnclearEscalated, PolicyExhausted
  <2>3. CASE PostEscalationReply(h) \/ ClarifyReply(h) \/ NoTransactionReply(h)
    <3>1. SaveHistory(k, turn)
      BY <2>3 DEF PostEscalationReply, ClarifyReply, NoTransactionReply
    <3>2. \A q \in Tickets : tickets'[q].status = tickets[q].status
      BY <1>1, <2>1, <3>1 DEF SaveHistory, TicketRows
    <3> QED
      BY <1>3, <3>2
  <2>4. CASE OutOfScopeReply(h)
    <3>1. PICK n : tickets' = [tickets EXCEPT ![k].category  = "OUT_OF_SCOPE",
                                              ![k].exchanges = n]
      BY <2>4 DEF OutOfScopeReply
    <3>2. \A q \in Tickets : tickets'[q].status = tickets[q].status
      BY <1>1, <2>1, <3>1 DEF TicketRows
    <3> QED
      BY <1>3, <3>2
  <2>5. CASE DeliverCard(h)
    <3>1. PICK card \in Cards, d \in Deadlines :
            tickets' = [tickets EXCEPT ![k] =
                          [status    |-> StatusAfter(card, turn),
                           category  |-> turn.category,
                           deadline  |-> d,
                           exchanges |-> Extended(turn.exchanges)]]
      BY <2>5 DEF DeliverCard
    <3>2. PICK s : s = StatusAfter(card, turn)
      OBVIOUS
    <3>3. s \in {"escalated", turn.status}
      BY <3>2 DEF StatusAfter
    <3>4. PICK row : row = [status    |-> s,
                            category  |-> turn.category,
                            deadline  |-> d,
                            exchanges |-> Extended(turn.exchanges)]
      OBVIOUS
    <3>5. tickets' = [tickets EXCEPT ![k] = row]
      BY <3>1, <3>2, <3>4
    <3>6. \A q \in Tickets : tickets'[q].status = IF q = k THEN s ELSE tickets[q].status
      <4>1. row.status = s
        BY <3>4
      <4> QED
        BY <1>1, <3>5, <4>1
    <3>7. CASE s = turn.status
      BY <1>3, <2>1, <3>6, <3>7
    <3>8. CASE s = "escalated"
      <4>1. StatusOf' = [StatusOf EXCEPT ![k] = "escalated"]
        BY <3>6, <3>8 DEF StatusOf
      <4>2. StatusOf[k] \in Contract!Live
        BY <1>1, <2>1 DEF StatusOf, TicketRows, Statuses, Exists, Contract!Live
      <4>3. AskedOf' = AskedOf
        BY <1>2 DEF AskedOf
      <4> QED
        BY <2>1, <4>1, <4>2, <4>3
        DEF StatusOf, AskedOf, Contract!Next, Contract!Escalate, Contract!Move
    <3> QED
      BY <3>3, <3>7, <3>8
  <2> QED
    BY <1>4, <1>7, <2>2, <2>3, <2>4, <2>5
    DEF TurnResumes, ClassifyReturns, ComposeRetry, ComposeUnavailable, QualityBarRaises
<1> QED
  BY <1>4, <1>5, <1>6, <1>7
  DEF TurnStarts, ChatStillWaiting, ChatEscalatedFollowUp, ChatClassify, ChatFollowUp

\* Rewriting every row of a ticket leaves it as much asked as it was.
LEMMA RewrittenSeen ==
  ASSUME NEW rows \in Seq(FollowupRows), NEW new \in Seq(FollowupRows),
         DOMAIN new = DOMAIN rows
  PROVE  (new # <<>>) = (rows # <<>>)
BY RewrittenNonEmpty

\* The steps of an answer.
LEMMA AnswerKeepsContract ==
  ASSUME TypeInv, AloneInv, AnswerStarts \/ AnswerContinues, [Next]_vars
  PROVE  Contract!Next \/ UNCHANGED Contract!vars
<1>1. followups \in [Tickets -> Seq(FollowupRows)] /\ followups' \in [Tickets -> Seq(FollowupRows)]
  BY TypeStep DEF TypeInv, TypeOK
<1>2. ASSUME UNCHANGED tickets, \A q \in Tickets : DOMAIN followups'[q] = DOMAIN followups[q]
      PROVE  UNCHANGED Contract!vars
  BY <1>1, <1>2, RewrittenSeen, Unseen DEF StatusOf, AskedOf
<1>3. CASE Stage2Response
  <2>1. PICK k \in Tickets, s \in {"awaiting_timeline", "escalated"} :
          Exists(k) /\ SetStatus(k, s)
    BY <1>3 DEF Stage2Response
  <2> QED
    BY <1>3, <2>1, StatusMoves DEF Stage2Response
<1>4. CASE Stage2ResponseRows
  <2>1. stage2.tid \in Tickets
    BY <1>4 DEF TypeInv, BusyWithTicket, Stage2ResponseRows, ContinueAnswer
  <2> QED
    BY <1>1, <1>2, <1>4, <2>1 DEF Stage2ResponseRows
<1>5. CASE Stage2Timeline
  BY <1>1, <1>2, <1>5 DEF Stage2Timeline
<1>6. CASE Stage2TimelineResolve
  <2>1. stage2.tid \in Tickets /\ Exists(stage2.tid)
    BY <1>6, BusyIsAlone
    DEF Stage2TimelineResolve, ContinueAnswer, TypeInv, BusyWithTicket, AnswerAlone
  <2> QED
    BY <1>6, <2>1, StatusMoves DEF Stage2TimelineResolve
<1>7. CASE Stage2TimelinePattern
  BY <1>2, <1>7 DEF Stage2TimelinePattern
<1> QED
  BY <1>3, <1>4, <1>5, <1>6, <1>7 DEF AnswerStarts, AnswerContinues

\* The steps of the jobs.
LEMMA JobKeepsContract ==
  ASSUME TypeInv, AloneInv,
         \/ \E r \in FollowupRunners : FollowupSelect(r) \/ FollowupContinues(r)
         \/ \E r \in AutocloseRunners : AutocloseSelect(r) \/ AutocloseUpdate(r)
  PROVE  Contract!Next \/ UNCHANGED Contract!vars
<1>1. /\ tickets \in [Tickets -> TicketRows] /\ followup \in [FollowupRunners -> JobStates]
      /\ followups \in [Tickets -> Seq(FollowupRows)]
  BY DEF TypeInv, TypeOK
<1>2. ASSUME UNCHANGED <<tickets, followups>> PROVE UNCHANGED Contract!vars
  BY <1>2, Unseen DEF StatusOf, AskedOf
<1>3. ASSUME NEW r \in FollowupRunners, FollowupInsert(r) PROVE Contract!Next
  <2>1. PICK k \in Tickets : /\ k = followup[r].cur
                             /\ tickets[k].status = "open" /\ followups[k] = <<>>
    BY <1>3, BusyIsAlone
    DEF FollowupInsert, TypeInv, BusyWithTicket, FollowupAlone, AskSees
  <2>2. PICK row : followups' = [followups EXCEPT ![k] = Append(@, row)]
    BY <1>3, <2>1 DEF FollowupInsert
  <2>3. followups'[k] # <<>>
    <3>1. PICK rows \in Seq(FollowupRows) : rows = followups[k]
      BY <1>1
    <3>2. Append(rows, row) # <<>>
      OBVIOUS
    <3> QED
      BY <1>1, <2>2, <3>1, <3>2
  <2>4. AskedOf' = [AskedOf EXCEPT ![k] = TRUE] /\ ~AskedOf[k]
    BY <1>1, <2>1, <2>2, <2>3 DEF AskedOf
  <2>5. StatusOf' = StatusOf /\ StatusOf[k] = "open"
    BY <1>3, <2>1 DEF FollowupInsert, StatusOf
  <2> QED
    BY <2>4, <2>5 DEF StatusOf, AskedOf, Contract!Next, Contract!RecordQuestion
<1>4. ASSUME NEW r \in FollowupRunners, FollowupMark(r) PROVE Contract!Next
  <2>1. PICK k \in Tickets : /\ k = followup[r].cur
                             /\ tickets[k].status = "open" /\ followups[k] # <<>>
    BY <1>4, BusyIsAlone
    DEF FollowupMark, TypeInv, BusyWithTicket, FollowupAlone, AskSees
  <2>2. SetStatus(k, "pending_confirmation") /\ UNCHANGED followups
    BY <1>4, <2>1 DEF FollowupMark
  <2>3. StatusOf' = [StatusOf EXCEPT ![k] = "pending_confirmation"] /\ StatusOf[k] = "open"
    BY <2>1, <2>2, StatusSeen DEF StatusOf
  <2>4. AskedOf' = AskedOf /\ AskedOf[k]
    BY <2>1, <2>2 DEF AskedOf
  <2> QED
    BY <2>3, <2>4
    DEF StatusOf, AskedOf, Contract!Next, Contract!AwaitAnswer, Contract!Move
<1>5. ASSUME NEW r \in AutocloseRunners, AutocloseUpdate(r) PROVE Contract!Next
  <2>1. PICK k \in autoclose[r].work : SetStatus(k, "auto_closed") /\ UNCHANGED followups
    BY <1>5 DEF AutocloseUpdate
  <2>2. k \in Tickets
    BY DEF TypeInv, TypeOK, JobStates
  <2>3. tickets[k].status \in {"open", "pending_confirmation"}
    BY <1>5, BusyIsAlone DEF AutocloseUpdate, AutocloseAlone, CloseSees
  <2>4. /\ StatusOf' = [StatusOf EXCEPT ![k] = "auto_closed"]
        /\ StatusOf[k] \in {"open", "pending_confirmation"}
    BY <2>1, <2>2, <2>3, StatusSeen DEF StatusOf
  <2>5. AskedOf' = AskedOf
    BY <2>1 DEF AskedOf
  <2> QED
    BY <2>2, <2>4, <2>5 DEF StatusOf, AskedOf, Contract!Next, Contract!Close, Contract!Move
<1> QED
  BY <1>2, <1>3, <1>4, <1>5
  DEF FollowupContinues, FollowupSelect, FollowupCheck, AutocloseSelect

\* Every step of the lifecycle is a step of the contract, or none.
LEMMA ContractStep ==
  ASSUME OneAtATime, [Next]_vars
  PROVE  [Contract!Next]_(Contract!vars)
<1>1. CASE Failure \/ Tick \/ UNCHANGED vars
  <2>1. UNCHANGED <<tickets, followups>>
    BY <1>1
    DEF Failure, TurnFails, AnswerFails, FollowupFails, AutocloseFails, Restart,
        Fault, Tick, tables, vars
  <2> QED
    BY <2>1, Unseen DEF StatusOf, AskedOf
<1> QED
  BY <1>1, TurnKeepsContract, AnswerKeepsContract, JobKeepsContract DEF OneAtATime, Next

\* With one operation at a time the chat turns, the answers and the two jobs,
\* failures and restarts included, keep the contract of the ticket table: only
\* a customer resolves, a question is put on record once and before its ticket
\* waits for an answer, and only open or waiting tickets are closed.
THEOREM LifecycleKeepsContract ==
  ASSUME Serialized = TRUE
  PROVE  Spec => ContractSpec
<1>1. Init => Contract!Init
  BY ContractInit
<1>2. OneAtATime /\ [Next]_vars => [Contract!Next]_(Contract!vars)
  BY ContractStep
<1> QED
  BY <1>1, <1>2, AloneInvariant, PTL DEF Spec, ContractSpec, Contract!Spec

\* The contract moves an escalated ticket only on the customer's word.
LEMMA ContractKeepsEscalation ==
  ASSUME TypeInv, [Contract!Next]_(Contract!vars), NEW k \in Tickets,
         tickets[k].status = "escalated"
  PROVE  tickets'[k].status \in {"escalated", "resolved", "awaiting_timeline"}
<1>1. StatusOf[k] = "escalated" /\ StatusOf \in [Tickets -> Statuses \cup {"absent"}]
  BY DEF StatusOf, TypeInv, TypeOK, TicketRows, Statuses
<1>2. SUFFICES StatusOf'[k] \in {"escalated", "resolved", "awaiting_timeline"}
  BY DEF StatusOf
<1>3. ASSUME NEW j \in Tickets, NEW from, NEW to, Contract!Move(j, from, to),
             "escalated" \notin from \/ to \in {"escalated", "resolved", "awaiting_timeline"}
      PROVE  StatusOf'[k] \in {"escalated", "resolved", "awaiting_timeline"}
  BY <1>1, <1>3 DEF Contract!Move, StatusOf
<1>4. CASE StatusOf' = StatusOf
  BY <1>1, <1>4
<1>5. ASSUME NEW j \in Tickets,
             \/ Contract!Open(j) \/ Contract!Escalate(j) \/ Contract!CustomerConfirms(j)
             \/ Contract!AwaitAnswer(j) \/ Contract!Close(j)
      PROVE  StatusOf'[k] \in {"escalated", "resolved", "awaiting_timeline"}
  <2>1. \/ Contract!Move(j, {"absent"}, "open")
        \/ \E to \in {"escalated", "resolved", "awaiting_timeline"} :
             Contract!Move(j, Contract!Live, to)
        \/ Contract!Move(j, {"open"}, "pending_confirmation")
        \/ Contract!Move(j, {"open", "pending_confirmation"}, "auto_closed")
    BY <1>5 DEF Contract!Open, Contract!Escalate, Contract!CustomerConfirms,
                Contract!AwaitAnswer, Contract!Close
  <2> QED
    BY <1>3, <2>1
<1> QED
  BY <1>4, <1>5 DEF Contract!Next, Contract!RecordQuestion, Contract!vars, StatusOf

\* With one operation at a time a ticket that was escalated stays escalated
\* until its customer says that the money arrived: no turn writes back a status
\* that it read before the escalation, and no job moves the ticket.
THEOREM EscalationsStick ==
  ASSUME Serialized = TRUE
  PROVE  Spec => EscalationSticks
<1>1. ASSUME OneAtATime, [Next]_vars, NEW k \in Tickets, tickets[k].status = "escalated"
      PROVE  tickets'[k].status \in {"escalated", "resolved", "awaiting_timeline"}
  <2>1. TypeInv
    BY <1>1 DEF OneAtATime
  <2>2. [Contract!Next]_(Contract!vars)
    BY <1>1, ContractStep
  <2> QED
    BY <1>1, <2>1, <2>2, ContractKeepsEscalation
<1>2. OneAtATime /\ [Next]_vars =>
        [\A k \in Tickets : tickets[k].status = "escalated" =>
           tickets'[k].status \in {"escalated", "resolved", "awaiting_timeline"}]_vars
  BY <1>1
<1> QED
  BY <1>2, AloneInvariant, PTL DEF Spec, EscalationSticks

-----------------------------------------------------------------------------
(* The two tables agree on a "yes".  Between the two writes of an answer   *)
(* they do not, so the invariant says whose rows are still to be written.  *)

Confirmed(k) == \A i \in DOMAIN followups[k] : followups[k][i].confirmed

\* The first write of the answer, which the second one is about to follow.
AnswerWritten ==
  stage2.pc = "rows" =>
    tickets[stage2.tid].status =
      IF stage2.answer = "yes" THEN "awaiting_timeline" ELSE "escalated"

YesKept ==
  \A k \in Tickets : tickets[k].status = "awaiting_timeline" =>
    Confirmed(k) \/ (stage2.pc = "rows" /\ stage2.tid = k)

YesInv == AnswerWritten /\ (spent.faults = 0 => YesKept)

\* A failure is counted, and the count is never reset.
LEMMA FaultsAreCounted ==
  ASSUME TypeInv, [Next]_vars, spent'.faults = 0
  PROVE  spent.faults = 0 /\ ~Failure
<1>1. spent \in [requests : 0 .. MaxRequests, answers : 0 .. MaxAnswers,
                 faults : 0 .. MaxFaults]
  BY DEF TypeInv, TypeOK
<1>2. spent.faults \in Nat
  BY <1>1
<1>3. CASE Failure
  <2>1. spent' = [spent EXCEPT !.faults = @ + 1]
    BY <1>3 DEF Failure, TurnFails, AnswerFails, FollowupFails, AutocloseFails,
                Restart, Fault
  <2> QED
    BY <1>1, <1>2, <2>1
<1>4. CASE ~Failure
  <2>1. \/ UNCHANGED spent
        \/ spent' = [spent EXCEPT !.requests = @ + 1]
        \/ spent' = [spent EXCEPT !.answers = @ + 1]
    BY <1>4
    DEF Next, TurnStarts, ChatNewTicket, ChatAutoConfirm, ChatStillWaiting,
        ChatEscalatedFollowUp, ChatClassify, ChatFollowUp, Receive,
        TurnResumes, ClassifyReturns, PostEscalationReply, UnclearEscalated,
        ClarifyReply, OutOfScopeReply, NoTransactionReply, ComposeRetry,
        ComposeUnavailable, PolicyExhausted, QualityBarRaises, DeliverCard, Resume,
        AnswerStarts, AnswerContinues, Stage2Response, Stage2Timeline,
        Stage2ResponseRows, Stage2TimelineResolve, Stage2TimelinePattern,
        StartAnswer, ContinueAnswer, FollowupContinues, FollowupSelect,
        FollowupCheck, FollowupInsert, FollowupMark, AutocloseSelect,
        AutocloseUpdate, JobFrame, Tick, vars
  <2> QED
    BY <1>1, <1>4, <2>1
<1> QED
  BY <1>3, <1>4

\* Turns, jobs and failures make no ticket wait for the timeline answer.
LEMMA OthersKeepYes ==
  ASSUME TypeInv, AloneInv, YesInv, [Next]_vars, stage2.pc = "idle",
         UNCHANGED stage2,
         \A k \in Tickets : tickets'[k].status = "awaiting_timeline" =>
           tickets[k].status = "awaiting_timeline" /\ followups'[k] = followups[k]
  PROVE  YesInv'
BY FaultsAreCounted DEF YesInv, AnswerWritten, YesKept, Confirmed

LEMMA TurnKeepsYes ==
  ASSUME TypeInv, AloneInv, YesInv, [Next]_vars,
         NEW h \in Turns, TurnStarts(h) \/ TurnResumes(h), Serialized = TRUE
  PROVE  YesInv'
<1>1. tickets \in [Tickets -> TicketRows]
  BY DEF TypeInv, TypeOK
<1>2. UNCHANGED <<followups, stage2>>
  BY DEF TurnStarts, ChatNewTicket, ChatAutoConfirm, ChatStillWaiting,
         ChatEscalatedFollowUp, ChatClassify, ChatFollowUp, Receive, ChatFrame, jobs,
         TurnResumes, ClassifyReturns, PostEscalationReply, UnclearEscalated,
         ClarifyReply, OutOfScopeReply, NoTransactionReply, ComposeRetry,
         ComposeUnavailable, PolicyExhausted, QualityBarRaises, DeliverCard, Resume
<1>3. stage2.pc = "idle"
  <2>1. CASE TurnStarts(h)
    BY <2>1, StartsAtRest
    DEF TurnStarts, ChatNewTicket, ChatAutoConfirm, ChatStillWaiting,
        ChatEscalatedFollowUp, ChatClassify, ChatFollowUp, Receive, Resting, JobsIdle
  <2>2. CASE TurnResumes(h)
    BY <2>2, TurnReads DEF TurnAlone, JobsIdle
  <2> QED
    BY <2>1, <2>2
<1>4. ASSUME NEW q \in Tickets, tickets'[q].status = "awaiting_timeline"
      PROVE  tickets[q].status = "awaiting_timeline"
  <2>1. CASE UNCHANGED tickets
    BY <1>4, <2>1
  <2>2. ASSUME NEW k \in Tickets, NEW s, s # "awaiting_timeline", SetStatus(k, s)
        PROVE  tickets[q].status = "awaiting_timeline"
    BY <1>1, <1>4, <2>2 DEF SetStatus, TicketRows
  <2>3. CASE ChatNewTicket(h)
    BY <1>1, <1>4, <2>3 DEF ChatNewTicket, FreshTicket
  <2>4. CASE ChatAutoConfirm(h)
    BY <2>2, <2>4 DEF ChatAutoConfirm
  <2>5. CASE TurnResumes(h)
    <3> DEFINE turn == turns[h]
               k    == turns[h].tid
    <3>1. k \in Tickets /\ tickets[k].status = turn.status
      BY <2>5, TurnReads
    <3>2. CASE UnclearEscalated(h) \/ PolicyExhausted(h)
      BY <2>2, <3>1, <3>2 DEF UnclearEscalated, PolicyExhausted
    <3>3. CASE PostEscalationReply(h) \/ ClarifyReply(h) \/ NoTransactionReply(h)
      <4>1. SaveHistory(k, turn)
        BY <3>3 DEF PostEscalationReply, ClarifyReply, NoTransactionReply
      <4> QED
        BY <1>1, <1>4, <3>1, <4>1 DEF SaveHistory, TicketRows
    <3>4. CASE OutOfScopeReply(h)
      <4>1. PICK n : tickets' = [tickets EXCEPT ![k].category  = "OUT_OF_SCOPE",
                                                ![k].exchanges = n]
        BY <3>4 DEF OutOfScopeReply
      <4> QED
        BY <1>1, <1>4, <3>1, <4>1 DEF TicketRows
    <3>5. CASE DeliverCard(h)
      <4>1. PICK card \in Cards, d \in Deadlines :
              tickets' = [tickets EXCEPT ![k] =
                            [status    |-> StatusAfter(card, turn),
                             category  |-> turn.category,
                             deadline  |-> d,
                             exchanges |-> Extended(turn.exchanges)]]
        BY <3>5 DEF DeliverCard
      <4>2. StatusAfter(card, turn) = "awaiting_timeline" =>
              turn.status = "awaiting_timeline"
        BY DEF StatusAfter
      <4> QED
        BY <1>1, <1>4, <3>1, <4>1, <4>2
    <3> QED
      BY <2>1, <2>5, <3>2, <3>3, <3>4, <3>5
      DEF TurnResumes, ClassifyReturns, ComposeRetry, ComposeUnavailable,
          QualityBarRaises
  <2> QED
    BY <2>1, <2>3, <2>4, <2>5
    DEF TurnStarts, ChatStillWaiting, ChatEscalatedFollowUp, ChatClassify, ChatFollowUp
<1> QED
  BY <1>2, <1>3, <1>4, OthersKeepYes

LEMMA JobsKeepYes ==
  ASSUME TypeInv, AloneInv, YesInv, [Next]_vars, Serialized = TRUE,
         \/ \E r \in FollowupRunners : FollowupSelect(r) \/ FollowupContinues(r)
         \/ \E r \in AutocloseRunners : AutocloseSelect(r) \/ AutocloseUpdate(r)
  PROVE  YesInv'
<1>1. tickets \in [Tickets -> TicketRows] /\ followups \in [Tickets -> Seq(FollowupRows)]
  BY DEF TypeInv, TypeOK
<1>2. UNCHANGED stage2
  BY DEF FollowupContinues, FollowupSelect, FollowupCheck, FollowupInsert,
         FollowupMark, AutocloseSelect, AutocloseUpdate, JobFrame
<1>3. stage2.pc = "idle"
  <2>1. CASE \/ \E r \in FollowupRunners : FollowupSelect(r)
             \/ \E r \in AutocloseRunners : AutocloseSelect(r)
    BY <2>1, StartsAtRest DEF FollowupSelect, AutocloseSelect, CanStart, Resting, JobsIdle
  <2>2. ASSUME NEW r \in FollowupRunners, FollowupContinues(r)
        PROVE  stage2.pc = "idle"
    <3>1. followup[r].pc # "idle"
      BY <2>2 DEF FollowupContinues, FollowupCheck, FollowupInsert, FollowupMark
    <3> QED
      BY <3>1, BusyIsAlone DEF FollowupAlone
  <2>3. ASSUME NEW r \in AutocloseRunners, AutocloseUpdate(r)
        PROVE  stage2.pc = "idle"
    BY <2>3, BusyIsAlone DEF AutocloseUpdate, AutocloseAlone
  <2> QED
    BY <2>1, <2>2, <2>3
<1>4. ASSUME UNCHANGED followups, NEW k \in Tickets, NEW s, s # "awaiting_timeline",
             SetStatus(k, s)
      PROVE  YesInv'
  <2>1. \A q \in Tickets : tickets'[q].status = "awaiting_timeline" =>
          tickets[q].status = "awaiting_timeline" /\ followups'[q] = followups[q]
    BY <1>1, <1>4 DEF SetStatus, TicketRows
  <2> QED
    BY <1>2, <1>3, <2>1, OthersKeepYes
<1>5. CASE UNCHANGED <<tickets, followups>>
  BY <1>2, <1>3, <1>5, OthersKeepYes
<1>6. ASSUME NEW r \in FollowupRunners, FollowupInsert(r)
      PROVE  YesInv'
  <2>1. PICK k \in Tickets : k = followup[r].cur /\ tickets[k].status = "open"
    BY <1>6, BusyIsAlone
    DEF FollowupInsert, TypeInv, BusyWithTicket, FollowupAlone, AskSees
  <2>2. PICK row : followups' = [followups EXCEPT ![k] = Append(@, row)]
    BY <1>6, <2>1 DEF FollowupInsert
  <2>3. \A q \in Tickets : tickets'[q].status = "awaiting_timeline" =>
          tickets[q].status = "awaiting_timeline" /\ followups'[q] = followups[q]
    BY <1>1, <1>6, <2>1, <2>2 DEF FollowupInsert
  <2> QED
    BY <1>2, <1>3, <2>3, OthersKeepYes
<1>7. ASSUME NEW r \in FollowupRunners, FollowupMark(r)
      PROVE  YesInv'
  BY <1>4, <1>7 DEF FollowupMark, TypeInv, BusyWithTicket
<1>8. ASSUME NEW r \in AutocloseRunners, AutocloseUpdate(r)
      PROVE  YesInv'
  <2>1. autoclose[r].work \subseteq Tickets
    BY DEF TypeInv, TypeOK, JobStates
  <2> QED
    BY <1>4, <1>8, <2>1 DEF AutocloseUpdate
<1> QED
  BY <1>5, <1>6, <1>7, <1>8
  DEF FollowupContinues, FollowupSelect, FollowupCheck, AutocloseSelect

LEMMA AnswersKeepYes ==
  ASSUME TypeInv, AloneInv, YesInv, [Next]_vars, Serialized = TRUE,
         AnswerStarts \/ AnswerContinues
  PROVE  YesInv'
<1>1. /\ tickets \in [Tickets -> TicketRows] /\ followups \in [Tickets -> Seq(FollowupRows)]
      /\ stage2 \in Stage2States
  BY DEF TypeInv, TypeOK
<1>2. spent'.faults = 0 => YesKept
  BY FaultsAreCounted DEF YesInv
<1>3. AnswerStarts => stage2.pc = "idle"
  BY StartsAtRest
  DEF AnswerStarts, Stage2Response, Stage2Timeline, StartAnswer, Resting, JobsIdle
<1>4. CASE Stage2Response
  <2>0. PICK k \in Tickets, a \in {"yes", "no"} :
          /\ SetStatus(k, IF a = "yes" THEN "awaiting_timeline" ELSE "escalated")
          /\ stage2' = [pc |-> "rows", tid |-> k, answer |-> a]
    BY <1>4 DEF Stage2Response
  <2>1. PICK s : /\ s = IF a = "yes" THEN "awaiting_timeline" ELSE "escalated"
                 /\ SetStatus(k, s)
    BY <2>0
  <2>2. \A q \in Tickets : tickets'[q].status = IF q = k THEN s ELSE tickets[q].status
    BY <1>1, <2>1 DEF SetStatus, TicketRows
  <2>3. UNCHANGED followups /\ stage2.pc = "idle"
    BY <1>3, <1>4 DEF Stage2Response, AnswerStarts
  <2> QED
    BY <1>2, <2>0, <2>1, <2>2, <2>3 DEF YesInv, AnswerWritten, YesKept, Confirmed
<1>5. CASE Stage2ResponseRows
  <2>1. PICK k \in Tickets : k = stage2.tid
    BY <1>5 DEF TypeInv, BusyWithTicket, Stage2ResponseRows, ContinueAnswer
  <2>2. PICK yes \in BOOLEAN : yes = (stage2.answer = "yes")
    OBVIOUS
  <2>3. /\ followups' = [followups EXCEPT ![k] =
             [i \in DOMAIN @ |-> [followups[k][i] EXCEPT !.confirmed = yes]]]
        /\ stage2.pc = "rows" /\ stage2' = IdleStage2 /\ UNCHANGED tickets
    BY <1>5, <2>1, <2>2 DEF Stage2ResponseRows, ContinueAnswer, EndAnswer
  <2>4. tickets[k].status = "awaiting_timeline" => yes
    BY <2>1, <2>2, <2>3 DEF YesInv, AnswerWritten
  <2>5. yes => Confirmed(k)'
    <3>1. \A i \in DOMAIN followups[k] : followups[k][i] \in FollowupRows
      BY <1>1
    <3>2. followups'[k] = [i \in DOMAIN followups[k] |->
                             [followups[k][i] EXCEPT !.confirmed = yes]]
      BY <1>1, <2>3
    <3> QED
      BY <3>1, <3>2 DEF Confirmed, FollowupRows
  <2>6. \A q \in Tickets : q # k => followups'[q] = followups[q]
    BY <1>1, <2>3
  <2>7. stage2'.pc = "idle"
    BY <2>3, IdleTypes
  <2>8. spent'.faults = 0 => YesKept'
    BY <1>2, <2>1, <2>3, <2>4, <2>5, <2>6 DEF YesKept, Confirmed
  <2> QED
    BY <2>7, <2>8 DEF YesInv, AnswerWritten
<1>6. CASE Stage2Timeline
  <2>1. PICK k \in Tickets, a \in TimelineAnswers :
          /\ followups' = [followups EXCEPT ![k] =
               [i \in DOMAIN @ |-> [followups[k][i] EXCEPT !.timeline = a]]]
          /\ stage2' = [pc |-> "resolve", tid |-> k, answer |-> Null]
    BY <1>6 DEF Stage2Timeline
  <2>2. UNCHANGED tickets /\ stage2.pc = "idle"
    BY <1>3, <1>6 DEF Stage2Timeline, AnswerStarts
  <2>3. Confirmed(k) => Confirmed(k)'
    <3>1. \A i \in DOMAIN followups[k] : followups[k][i] \in FollowupRows
      BY <1>1
    <3>2. followups'[k] = [i \in DOMAIN followups[k] |->
                             [followups[k][i] EXCEPT !.timeline = a]]
      BY <1>1, <2>1
    <3> QED
      BY <3>1, <3>2 DEF Confirmed, FollowupRows
  <2>4. \A q \in Tickets : q # k => followups'[q] = followups[q]
    BY <1>1, <2>1
  <2> QED
    BY <1>2, <2>1, <2>2, <2>3, <2>4 DEF YesInv, AnswerWritten, YesKept, Confirmed
<1>7. CASE Stage2TimelineResolve
  <2>1. PICK k \in Tickets : k = stage2.tid /\ SetStatus(k, "resolved")
    BY <1>7 DEF TypeInv, BusyWithTicket, Stage2TimelineResolve, ContinueAnswer
  <2>2. stage2'.pc = "pattern" /\ stage2.pc = "resolve" /\ UNCHANGED followups
    BY <1>1, <1>7 DEF Stage2TimelineResolve, ContinueAnswer, Stage2States
  <2>3. \A q \in Tickets : tickets'[q].status = "awaiting_timeline" =>
          tickets[q].status = "awaiting_timeline"
    BY <1>1, <2>1 DEF SetStatus, TicketRows
  <2> QED
    BY <1>2, <2>2, <2>3 DEF YesInv, AnswerWritten, YesKept, Confirmed
<1>8. CASE Stage2TimelinePattern
  <2>1. /\ stage2'.pc = "idle" /\ stage2.pc = "pattern"
        /\ UNCHANGED <<tickets, followups>>
    BY <1>8, IdleTypes DEF Stage2TimelinePattern, ContinueAnswer, EndAnswer
  <2> QED
    BY <1>2, <2>1 DEF YesInv, AnswerWritten, YesKept, Confirmed
<1> QED
  BY <1>4, <1>5, <1>6, <1>7, <1>8 DEF AnswerStarts, AnswerContinues

LEMMA YesStep ==
  ASSUME Serialized = TRUE, OneAtATime, YesInv, [Next]_vars
  PROVE  YesInv'
<1>1. CASE Failure
  <2>1. spent'.faults # 0
    BY <1>1, FaultsAreCounted DEF OneAtATime
  <2>2. UNCHANGED tickets /\ (UNCHANGED stage2 \/ stage2'.pc = "idle")
    BY <1>1, IdleTypes
    DEF Failure, TurnFails, AnswerFails, FollowupFails, AutocloseFails, Restart,
        Fault, EndAnswer, tables, jobs
  <2> QED
    BY <2>1, <2>2 DEF YesInv, AnswerWritten
<1>2. CASE Tick \/ UNCHANGED vars
  <2>1. UNCHANGED <<tickets, followups, stage2, spent>>
    BY <1>2 DEF Tick, vars, tables, jobs
  <2> QED
    BY <2>1 DEF YesInv, AnswerWritten, YesKept, Confirmed
<1> QED
  BY <1>1, <1>2, TurnKeepsYes, JobsKeepYes, AnswersKeepYes DEF OneAtATime, Next

\* With one operation at a time and no failure between the two writes of an
\* answer, a ticket that waits for the timeline answer has all its follow-up
\* rows confirmed.
THEOREM TablesAgreeOnYes ==
  ASSUME Serialized = TRUE
  PROVE  Spec => []AwaitingMeansYes
<1>1. Init => YesInv
  BY IdleTypes DEF Init, NoRow, FreshTicket, YesInv, AnswerWritten, YesKept
<1>2. OneAtATime /\ YesInv /\ [Next]_vars => YesInv'
  BY YesStep
<1>3. YesInv => AwaitingMeansYes
  BY DEF YesInv, YesKept, Confirmed, AwaitingMeansYes
<1> QED
  BY <1>1, <1>2, <1>3, AloneInvariant, PTL DEF Spec
=============================================================================
