--------------------------- MODULE TicketLifecycle ---------------------------
(***************************************************************************)
(* The life of a support ticket: chat turns (app/lifecycle/chat_handler),  *)
(* the stage 2 endpoints and the follow-up job (followup_cron), and the    *)
(* auto-close job (autoclose_cron), over the tables `tickets` and          *)
(* `eval_queue`.                                                           *)
(*                                                                         *)
(* Everything but the scheduled jobs runs on one asyncio event loop and    *)
(* the database client is synchronous, so a handler gives up the loop only *)
(* where it awaits a language model: a chat turn is one action per stretch *)
(* between two awaits.  The scheduled jobs run on a worker thread, so they *)
(* interleave with the loop at every database call and are one action per  *)
(* call; so are the loop handlers that make several writes, which keep     *)
(* `loop` from their first call to their last.                             *)
(***************************************************************************)
EXTENDS Naturals, Sequences, FiniteSets

CONSTANTS
  Tickets,           \* ticket_id values the table can come to hold
  Turns,             \* chat requests that can be in flight at the same time
  Resolvable,        \* {"UPI_FAILURE", "POT_WITHDRAWAL"}
  FollowupRunners,   \* who runs run_followup_check: "cron", "trigger" or both
  AutocloseRunners,  \* who runs run_autoclose_check
  Deadlines,         \* what _calculate_deadline can return
  Grace,             \* the 48 hours of the auto-close job
  PatternWindow,     \* the 7 days of _check_timeline_pattern
  PatternThreshold,  \* the 3 answers of _check_timeline_pattern
  MaxUnclear,        \* _MAX_UNCLEAR_TURNS
  MaxAttempts,       \* range(3) of the compose loop
  KeepExchanges,     \* history[-20:], counted in user/assistant pairs
  Serialized,        \* TRUE: no operation starts while another is in flight
  Horizon, MaxRequests, MaxAnswers, MaxFaults, \* bounds of the exploration
  Null

ASSUME TicketsAssumption   == Null \notin Tickets
ASSUME CategoryAssumption  ==
  Resolvable \cap {"OUT_OF_SCOPE", "UNCLEAR", Null} = {} /\ Null # "OUT_OF_SCOPE"
ASSUME RunnersAssumption   ==
  FollowupRunners \cup AutocloseRunners \subseteq {"cron", "trigger"}
ASSUME DeadlinesAssumption == Deadlines \subseteq Nat /\ Null \notin Deadlines
ASSUME NumbersAssumption   ==
  /\ {Grace, PatternWindow, PatternThreshold, MaxUnclear} \subseteq Nat
  /\ {MaxAttempts, KeepExchanges} \subseteq Nat \ {0}
  /\ {Horizon, MaxRequests, MaxAnswers, MaxFaults} \subseteq Nat
  /\ Serialized \in BOOLEAN

VARIABLES
  tickets,      \* table tickets: status, category, deadline, length of history
  followups,    \* per ticket, its eval_queue rows with resolution_confirmed set
  calibrations, \* policy_suggestions rows of _check_timeline_pattern
  turns,        \* per slot, the chat request it serves and its local variables
  stage2,       \* the stage 2 endpoint that is between two of its writes
  followup,     \* per runner, the progress of run_followup_check
  autoclose,    \* per runner, the progress of run_autoclose_check
  loop,         \* who holds the event loop between two database calls
  now,          \* the clock the deadlines are compared with
  spent,        \* how much of the exploration's bounds is used
  reply,        \* the chat response sent by the last step, if it sent one
  clarified     \* per ticket, the clarifying questions it has been sent

tables == <<tickets, followups, calibrations>>
jobs   == <<stage2, followup, autoclose, loop>>
vars   == <<tables, turns, jobs, now, spent, reply, clarified>>

-----------------------------------------------------------------------------
(* The rows and the local variables.                                       *)

Statuses == {"open", "pending_confirmation", "awaiting_timeline",
             "escalated", "resolved", "auto_closed"}

StoredCategories == Resolvable \cup {"OUT_OF_SCOPE", Null}

\* "absent" marks a ticket_id with no row yet.
TicketRows == [status    : Statuses \cup {"absent"},
               category  : StoredCategories,
               deadline  : Deadlines \cup {Null},
               exchanges : 0 .. KeepExchanges]

FreshTicket == [status |-> "open", category |-> Null,
                deadline |-> Null, exchanges |-> 0]

NoRow == [FreshTicket EXCEPT !.status = "absent"]

Exists(k)  == tickets[k].status # "absent"

\* Mutant: a ticket without a deadline counts as overdue.
OverdueWithoutDeadline(k) ==
  tickets[k].deadline = Null \/ tickets[k].deadline < now

Overdue(k) == tickets[k].deadline # Null /\ tickets[k].deadline < now
Expired(k) == tickets[k].deadline # Null /\ tickets[k].deadline + Grace < now

TimelineAnswers == {"yes_as_expected", "roughly", "no_took_longer"}

FollowupRows == [confirmed : BOOLEAN,
                 timeline  : TimelineAnswers \cup {Null},
                 created   : 0 .. Horizon]

\* What the message says, as far as the handler tells messages apart:
\* auto_confirm_keywords without a blocker, still_not_credited_keywords,
\* a distress keyword, or none of them.
Messages == {"arrived", "still_waiting", "distress", "plain"}

\* Where a turn waits: for the classifier, for a conversational reply (by the
\* branch that asked for it) or for a response card.
AwaitPoints == {"classify", "post_escalation", "unclear_escalated", "clarify",
                "out_of_scope", "no_transaction", "compose"}

\* status, category and exchanges are the ticket as the turn read it.
TurnStates == [pc        : AwaitPoints \cup {"idle"},
               tid       : Tickets \cup {Null},
               status    : Statuses,
               category  : StoredCategories,
               exchanges : 0 .. KeepExchanges,
               risky     : BOOLEAN,
               attempt   : 0 .. MaxAttempts - 1]

IdleTurn == [pc |-> "idle", tid |-> Null, status |-> "open", category |-> Null,
             exchanges |-> 0, risky |-> FALSE, attempt |-> 0]

Stage2States == [pc     : {"idle", "rows", "resolve", "pattern"},
                 tid    : Tickets \cup {Null},
                 answer : {"yes", "no", Null}]

IdleStage2 == [pc |-> "idle", tid |-> Null, answer |-> Null]

JobStates == [pc   : {"idle", "scan", "insert", "mark"},
              work : SUBSET Tickets,
              cur  : Tickets \cup {Null}]

IdleJob == [pc |-> "idle", work |-> {}, cur |-> Null]

ReplyKinds == {"confirmed", "specialist", "post_escalation",
               "unclear_escalated", "clarify", "out_of_scope",
               "no_transaction", "card", "flagged", "http_500"}

Replies == [kind : ReplyKinds, to : Tickets, risky : BOOLEAN]
           \cup {[kind |-> "none", to |-> Null, risky |-> FALSE]}

NoReply == [kind |-> "none", to |-> Null, risky |-> FALSE]

TypeOK ==
  /\ tickets      \in [Tickets -> TicketRows]
  /\ followups    \in [Tickets -> Seq(FollowupRows)]
  /\ calibrations \in Nat
  /\ turns        \in [Turns -> TurnStates]
  /\ stage2       \in Stage2States
  /\ followup     \in [FollowupRunners -> JobStates]
  /\ autoclose    \in [AutocloseRunners -> JobStates]
  /\ loop         \in {"free", "stage2", "followup", "autoclose"}
  /\ now          \in 0 .. Horizon
  /\ spent        \in [requests : 0 .. MaxRequests, answers : 0 .. MaxAnswers,
                       faults : 0 .. MaxFaults]
  /\ reply        \in Replies
  /\ clarified    \in [Tickets -> Nat]

Init ==
  /\ tickets      = [k \in Tickets |-> NoRow]
  /\ followups    = [k \in Tickets |-> <<>>]
  /\ calibrations = 0
  /\ turns        = [h \in Turns |-> IdleTurn]
  /\ stage2       = IdleStage2
  /\ followup     = [r \in FollowupRunners |-> IdleJob]
  /\ autoclose    = [r \in AutocloseRunners |-> IdleJob]
  /\ loop         = "free"
  /\ now          = 0
  /\ spent        = [requests |-> 0, answers |-> 0, faults |-> 0]
  /\ reply        = NoReply
  /\ clarified    = [k \in Tickets |-> 0]

-----------------------------------------------------------------------------
(* What the operations share.                                              *)

Quiescent ==
  /\ loop = "free"
  /\ \A h \in Turns : turns[h].pc = "idle"
  /\ \A r \in FollowupRunners : followup[r].pc = "idle"
  /\ \A r \in AutocloseRunners : autoclose[r].pc = "idle"

\* An operation of the event loop can start or resume.
LoopFree == loop = "free"

\* No other operation stands in the way of a new one (only if Serialized).
MayStart == Serialized => Quiescent

SetStatus(k, s) == tickets' = [tickets EXCEPT ![k].status = s]

Say(kind, k, risky) == reply' = [kind |-> kind, to |-> k, risky |-> risky]

Silent == reply' = NoReply

\* Mutant: the history is not truncated.
ExtendedForEver(n) == n + 1

\* _append_conversation for the user's message and then for the reply.
Extended(n) == IF n < KeepExchanges THEN n + 1 ELSE KeepExchanges

-----------------------------------------------------------------------------
(* Chat turns: handle_chat up to its first await.                          *)

ChatFrame == UNCHANGED <<followups, calibrations, jobs, now>>

Receive(h) ==
  /\ turns[h].pc = "idle" /\ LoopFree /\ MayStart
  /\ spent.requests < MaxRequests
  /\ spent' = [spent EXCEPT !.requests = @ + 1]
  /\ ChatFrame

\* The local variables of a turn that read `row` and waits at `pc`.
Reading(k, row, msg, pc) ==
  [pc |-> pc, tid |-> k, status |-> row.status, category |-> row.category,
   exchanges |-> row.exchanges, risky |-> msg = "distress", attempt |-> 0]

\* The auto-confirm test: a known category and a confirming message.
AutoConfirms(k, msg) == tickets[k].category \in Resolvable /\ msg = "arrived"

\* get_transaction and the branch on its result.  The transaction is found or
\* not; its amount may be above the escalation threshold.
Retrieved(turn) ==
  {[turn EXCEPT !.pc = "no_transaction"]}
  \cup {[turn EXCEPT !.pc = "compose", !.risky = @ \/ high] : high \in BOOLEAN}

ChatNewTicket(h) ==
  /\ Receive(h)
  /\ \E k \in Tickets, msg \in Messages :
       /\ ~Exists(k)
       /\ tickets' = [tickets EXCEPT ![k] = FreshTicket]
       /\ turns' = [turns EXCEPT ![h] = Reading(k, FreshTicket, msg, "classify")]
  /\ Silent
  /\ UNCHANGED clarified

ChatAutoConfirm(h) ==
  /\ Receive(h)
  /\ \E k \in Tickets :
       /\ Exists(k) /\ AutoConfirms(k, "arrived")
       /\ SetStatus(k, "resolved")
       /\ Say("confirmed", k, FALSE)
  /\ UNCHANGED <<turns, clarified>>

ChatStillWaiting(h) ==
  /\ Receive(h)
  /\ \E k \in Tickets :
       /\ tickets[k].status = "escalated"
       /\ Say("specialist", k, FALSE)
  /\ UNCHANGED <<tickets, turns, clarified>>

ChatEscalatedFollowUp(h) ==
  /\ Receive(h)
  /\ \E k \in Tickets, msg \in Messages \ {"still_waiting"} :
       /\ tickets[k].status = "escalated" /\ ~AutoConfirms(k, msg)
       /\ turns' = [turns EXCEPT
                      ![h] = Reading(k, tickets[k], msg, "post_escalation")]
  /\ Silent
  /\ UNCHANGED <<tickets, clarified>>

\* Mutant: the classifier runs on every turn, a known category or not.
ChatClassifyAlways(h) ==
  /\ Receive(h)
  /\ \E k \in Tickets, msg \in Messages :
       /\ Exists(k) /\ tickets[k].status # "escalated"
       /\ turns' = [turns EXCEPT ![h] = Reading(k, tickets[k], msg, "classify")]
  /\ Silent
  /\ UNCHANGED <<tickets, clarified>>

\* is_follow_up is false: the classifier decides.
ChatClassify(h) ==
  /\ Receive(h)
  /\ \E k \in Tickets, msg \in Messages :
       /\ Exists(k) /\ tickets[k].status # "escalated"
       /\ tickets[k].category \notin Resolvable
       /\ turns' = [turns EXCEPT ![h] = Reading(k, tickets[k], msg, "classify")]
  /\ Silent
  /\ UNCHANGED <<tickets, clarified>>

\* is_follow_up is true: the ticket's category stands and retrieval follows.
ChatFollowUp(h) ==
  /\ Receive(h)
  /\ \E k \in Tickets, msg \in Messages :
       /\ Exists(k) /\ tickets[k].status # "escalated"
       /\ tickets[k].category \in Resolvable /\ ~AutoConfirms(k, msg)
       /\ \E t \in Retrieved(Reading(k, tickets[k], msg, "compose")) :
            turns' = [turns EXCEPT ![h] = t]
  /\ Silent
  /\ UNCHANGED <<tickets, clarified>>

-----------------------------------------------------------------------------
(* Chat turns: what happens when an awaited model call returns.            *)

Resume(h, pc) ==
  /\ turns[h].pc = pc /\ LoopFree
  /\ ChatFrame
  /\ UNCHANGED spent

Finish(h) == turns' = [turns EXCEPT ![h] = IdleTurn]

\* Mutant: the exchange is not appended before the history is written.
SaveHistoryAsRead(k, turn) ==
  tickets' = [tickets EXCEPT ![k].exchanges = turn.exchanges]

\* _update_ticket with conversation_json: computed from the history the turn
\* read at its start, whatever has been written since.
SaveHistory(k, turn) ==
  tickets' = [tickets EXCEPT ![k].exchanges = Extended(turn.exchanges)]

ClassifyReturns(h) ==
  /\ Resume(h, "classify")
  /\ LET turn == turns[h] IN
     \/ \E t \in UNION {Retrieved([turn EXCEPT !.category = c])
                          : c \in Resolvable} :
          turns' = [turns EXCEPT ![h] = t]
     \/ turns' = [turns EXCEPT ![h].pc = "out_of_scope"]
     \/ /\ turn.exchanges >= MaxUnclear
        /\ turns' = [turns EXCEPT ![h].pc = "unclear_escalated"]
     \/ /\ turn.exchanges < MaxUnclear
        /\ turns' = [turns EXCEPT ![h].pc = "clarify"]
  /\ Silent
  /\ UNCHANGED <<tickets, clarified>>

PostEscalationReply(h) ==
  /\ Resume(h, "post_escalation")
  /\ LET turn == turns[h] IN
       /\ SaveHistory(turn.tid, turn)
       /\ Say("post_escalation", turn.tid, turn.risky)
  /\ Finish(h)
  /\ UNCHANGED clarified

UnclearEscalated(h) ==
  /\ Resume(h, "unclear_escalated")
  /\ LET turn == turns[h] IN
       /\ SetStatus(turn.tid, "escalated")
       /\ Say("unclear_escalated", turn.tid, turn.risky)
  /\ Finish(h)
  /\ UNCHANGED clarified

ClarifyReply(h) ==
  /\ Resume(h, "clarify")
  /\ LET turn == turns[h] IN
       /\ SaveHistory(turn.tid, turn)
       /\ Say("clarify", turn.tid, turn.risky)
       /\ clarified' = [clarified EXCEPT ![turn.tid] = @ + 1]
  /\ Finish(h)

OutOfScopeReply(h) ==
  /\ Resume(h, "out_of_scope")
  /\ LET turn == turns[h] IN
       /\ tickets' = [tickets EXCEPT
                        ![turn.tid].category  = "OUT_OF_SCOPE",
                        ![turn.tid].exchanges = Extended(turn.exchanges)]
       /\ Say("out_of_scope", turn.tid, turn.risky)
  /\ Finish(h)
  /\ UNCHANGED clarified

NoTransactionReply(h) ==
  /\ Resume(h, "no_transaction")
  /\ LET turn == turns[h] IN
       /\ SaveHistory(turn.tid, turn)
       /\ Say("no_transaction", turn.tid, turn.risky)
  /\ Finish(h)
  /\ UNCHANGED clarified

-----------------------------------------------------------------------------
(* The compose loop.  A card is what the handler and the policy checker    *)
(* can tell of it: whether the wording checks pass, whether it mentions a  *)
(* senior colleague, and whether it has the four fields and the category   *)
(* of the turn.                                                            *)

Cards == [clean : BOOLEAN, escalates : BOOLEAN, shaped : BOOLEAN]

\* run_policy_checks: the wording rules, and ESCALATE_HIGH_AMOUNT and
\* ESCALATE_DISTRESS, which ask a risky turn's card to escalate.
PolicyPassed(card, risky) == card.clean /\ (risky => card.escalates)

LastAttempt(turn) == turn.attempt = MaxAttempts - 1

\* Mutant: the attempts are counted round and round.
ComposeRetryForEver(h) ==
  /\ Resume(h, "compose")
  /\ turns' = [turns EXCEPT ![h].attempt = (@ + 1) % MaxAttempts]
  /\ Silent
  /\ UNCHANGED <<tickets, clarified>>

\* No card (unparsable reply) or a card with violations, attempts left.
ComposeRetry(h) ==
  /\ Resume(h, "compose")
  /\ ~LastAttempt(turns[h])
  /\ turns' = [turns EXCEPT ![h].attempt = @ + 1]
  /\ Silent
  /\ UNCHANGED <<tickets, clarified>>

\* The last attempt gave no card: an apology, and no write.
ComposeUnavailable(h) ==
  /\ Resume(h, "compose")
  /\ LastAttempt(turns[h])
  /\ Say("flagged", turns[h].tid, turns[h].risky)
  /\ Finish(h)
  /\ UNCHANGED <<tickets, clarified>>

\* The last attempt's card still violates the policy.
PolicyExhausted(h) ==
  /\ Resume(h, "compose")
  /\ LastAttempt(turns[h])
  /\ \E card \in Cards : ~PolicyPassed(card, turns[h].risky)
  /\ SetStatus(turns[h].tid, "escalated")
  /\ Say("specialist", turns[h].tid, turns[h].risky)
  /\ Finish(h)
  /\ UNCHANGED clarified

\* The quality bar is not met: `logger` is not defined in chat_handler, so
\* the warning raises and the request ends there.
QualityBarRaises(h) ==
  /\ Resume(h, "compose")
  /\ \E card \in Cards : PolicyPassed(card, turns[h].risky) /\ ~card.shaped
  /\ Say("http_500", turns[h].tid, turns[h].risky)
  /\ Finish(h)
  /\ UNCHANGED <<tickets, clarified>>

\* Mutant: the card's wording does not escalate the ticket.
StatusKept(card, turn) == turn.status

\* The status of a card that does not escalate is the one read at the start.
StatusAfter(card, turn) == IF card.escalates THEN "escalated" ELSE turn.status

DeliverCard(h) ==
  /\ Resume(h, "compose")
  /\ LET turn == turns[h] IN
       /\ \E card \in Cards, d \in Deadlines :
            /\ PolicyPassed(card, turn.risky) /\ card.shaped
            /\ tickets' = [tickets EXCEPT ![turn.tid] =
                             [status    |-> StatusAfter(card, turn),
                              category  |-> turn.category,
                              deadline  |-> d,
                              exchanges |-> Extended(turn.exchanges)]]
       /\ Say("card", turn.tid, turn.risky)
  /\ Finish(h)
  /\ UNCHANGED clarified

-----------------------------------------------------------------------------
(* The stage 2 endpoints.  They write two tables one after the other, and  *)
(* have no condition on the ticket's status.                               *)

Stage2Frame == UNCHANGED <<turns, followup, autoclose, now>>

StartAnswer ==
  /\ LoopFree /\ MayStart /\ spent.answers < MaxAnswers
  /\ spent' = [spent EXCEPT !.answers = @ + 1]
  /\ loop' = "stage2"
  /\ Silent
  /\ Stage2Frame /\ UNCHANGED <<calibrations, clarified>>

ContinueAnswer(pc) ==
  /\ stage2.pc = pc
  /\ Silent
  /\ Stage2Frame /\ UNCHANGED <<spent, clarified>>

EndAnswer == stage2' = IdleStage2 /\ loop' = "free"

Stage2Response ==
  /\ StartAnswer
  /\ \E k \in Tickets, a \in {"yes", "no"} :
       /\ Exists(k)
       /\ SetStatus(k, IF a = "yes" THEN "awaiting_timeline" ELSE "escalated")
       /\ stage2' = [pc |-> "rows", tid |-> k, answer |-> a]
  /\ UNCHANGED followups

\* Mutant: the second table is not updated.
Stage2ResponseRowsForgotten ==
  /\ ContinueAnswer("rows")
  /\ EndAnswer
  /\ UNCHANGED tables

Stage2ResponseRows ==
  /\ ContinueAnswer("rows")
  /\ followups' = [followups EXCEPT ![stage2.tid] =
       [i \in DOMAIN @ |->
          [followups[stage2.tid][i] EXCEPT !.confirmed = (stage2.answer = "yes")]]]
  /\ EndAnswer
  /\ UNCHANGED <<tickets, calibrations>>

Stage2Timeline ==
  /\ StartAnswer
  /\ \E k \in Tickets, a \in TimelineAnswers :
       /\ Exists(k)
       /\ followups' = [followups EXCEPT ![k] =
            [i \in DOMAIN @ |-> [followups[k][i] EXCEPT !.timeline = a]]]
       /\ stage2' = [pc |-> "resolve", tid |-> k, answer |-> Null]
  /\ UNCHANGED tickets

Stage2TimelineResolve ==
  /\ ContinueAnswer("resolve")
  /\ SetStatus(stage2.tid, "resolved")
  /\ stage2' = [stage2 EXCEPT !.pc = "pattern"]
  /\ UNCHANGED <<followups, calibrations, loop>>

\* The answers that count: every row of every ticket, duplicates included.
TookLonger ==
  {p \in UNION {{k} \X DOMAIN followups[k] : k \in Tickets} :
     LET row == followups[p[1]][p[2]] IN
       row.timeline = "no_took_longer" /\ row.created + PatternWindow >= now}

Stage2TimelinePattern ==
  /\ ContinueAnswer("pattern")
  /\ calibrations' = IF /\ tickets[stage2.tid].category # Null
                        /\ Cardinality(TookLonger) >= PatternThreshold
                     THEN calibrations + 1 ELSE calibrations
  /\ EndAnswer
  /\ UNCHANGED <<tickets, followups>>

-----------------------------------------------------------------------------
(* The jobs.  Runner "cron" is the scheduler's worker thread; "trigger" is *)
(* the admin endpoint, which runs the same function on the event loop.     *)
(* A runner is a single instance of its job.                               *)

JobFrame == Silent /\ UNCHANGED <<calibrations, turns, stage2, now, spent, clarified>>

\* The loop while runner r of `job` has `rest` still to do.
LoopDuring(r, job, rest) ==
  loop' = IF r # "trigger" THEN loop ELSE IF rest = {} THEN "free" ELSE job

CanStart(r) == MayStart /\ (r = "trigger" => LoopFree)

NextTicket(rest) ==
  IF rest = {} THEN IdleJob ELSE [pc |-> "scan", work |-> rest, cur |-> Null]

DueForFollowup == {k \in Tickets : tickets[k].status = "open" /\ Overdue(k)}

\* A run that selects no ticket changes nothing and is left out.
FollowupSelect(r) ==
  /\ followup[r].pc = "idle" /\ CanStart(r) /\ DueForFollowup # {}
  /\ followup' = [followup EXCEPT ![r] = NextTicket(DueForFollowup)]
  /\ LoopDuring(r, "followup", DueForFollowup)
  /\ JobFrame /\ UNCHANGED <<tickets, followups, autoclose>>

\* Mutant: no check for a follow-up already sent.
FollowupCheckBlind(r) ==
  /\ followup[r].pc = "scan"
  /\ \E k \in followup[r].work :
       followup' = [followup EXCEPT ![r] =
                      [pc |-> "insert", work |-> followup[r].work \ {k}, cur |-> k]]
  /\ JobFrame /\ UNCHANGED <<tickets, followups, autoclose, loop>>

\* Mutant: the ticket is marked before its row is inserted.
FollowupCheckMarks(r) ==
  /\ followup[r].pc = "scan"
  /\ \E k \in followup[r].work :
       LET rest == followup[r].work \ {k} IN
       IF followups[k] # <<>>
       THEN /\ followup' = [followup EXCEPT ![r] = NextTicket(rest)]
            /\ LoopDuring(r, "followup", rest) /\ UNCHANGED tickets
       ELSE /\ followup' = [followup EXCEPT
                              ![r] = [pc |-> "insert", work |-> rest, cur |-> k]]
            /\ SetStatus(k, "pending_confirmation") /\ UNCHANGED loop
  /\ JobFrame /\ UNCHANGED <<followups, autoclose>>

\* "Check if we already sent a followup": skip the ticket, or go on with it.
FollowupCheck(r) ==
  /\ followup[r].pc = "scan"
  /\ \E k \in followup[r].work :
       LET rest == followup[r].work \ {k} IN
       \/ /\ followups[k] # <<>>
          /\ followup' = [followup EXCEPT ![r] = NextTicket(rest)]
          /\ LoopDuring(r, "followup", rest)
       \/ /\ followups[k] = <<>>
          /\ followup' = [followup EXCEPT
                            ![r] = [pc |-> "insert", work |-> rest, cur |-> k]]
          /\ UNCHANGED loop
  /\ JobFrame /\ UNCHANGED <<tickets, followups, autoclose>>

FollowupInsert(r) ==
  /\ followup[r].pc = "insert"
  /\ followups' = [followups EXCEPT ![followup[r].cur] = Append(@,
                     [confirmed |-> FALSE, timeline |-> Null, created |-> now])]
  /\ followup' = [followup EXCEPT ![r].pc = "mark"]
  /\ JobFrame /\ UNCHANGED <<tickets, autoclose, loop>>

FollowupMark(r) ==
  /\ followup[r].pc = "mark"
  /\ SetStatus(followup[r].cur, "pending_confirmation")
  /\ followup' = [followup EXCEPT ![r] = NextTicket(followup[r].work)]
  /\ LoopDuring(r, "followup", followup[r].work)
  /\ JobFrame /\ UNCHANGED <<followups, autoclose>>

\* Mutant: the status of the ticket is not looked at.
DueForClosingAny == {k \in Tickets : Expired(k)}

\* Mutant: only the tickets that were asked about are closed.
DueForClosingAsked ==
  {k \in Tickets : tickets[k].status = "pending_confirmation" /\ Expired(k)}

DueForClosing ==
  {k \in Tickets : /\ tickets[k].status \in {"open", "pending_confirmation"}
                   /\ Expired(k)}

AutocloseSelect(r) ==
  /\ autoclose[r].pc = "idle" /\ CanStart(r) /\ DueForClosing # {}
  /\ autoclose' = [autoclose EXCEPT ![r] = NextTicket(DueForClosing)]
  /\ LoopDuring(r, "autoclose", DueForClosing)
  /\ JobFrame /\ UNCHANGED <<tickets, followups, followup>>

AutocloseUpdate(r) ==
  /\ autoclose[r].pc = "scan"
  /\ \E k \in autoclose[r].work :
       LET rest == autoclose[r].work \ {k} IN
       /\ SetStatus(k, "auto_closed")
       /\ autoclose' = [autoclose EXCEPT ![r] = NextTicket(rest)]
       /\ LoopDuring(r, "autoclose", rest)
  /\ JobFrame /\ UNCHANGED <<followups, followup>>

-----------------------------------------------------------------------------
(* Failures.  Any call to the database or to a model can raise; a restart  *)
(* loses everything that is not in a table.                                *)

Fault ==
  /\ spent.faults < MaxFaults
  /\ spent' = [spent EXCEPT !.faults = @ + 1]
  /\ UNCHANGED <<tables, now, clarified>>

\* An exception ends the request with a 500.
TurnFails(h) ==
  /\ Fault
  /\ turns[h].pc # "idle" /\ LoopFree
  /\ Say("http_500", turns[h].tid, turns[h].risky)
  /\ Finish(h)
  /\ UNCHANGED jobs

AnswerFails ==
  /\ Fault
  /\ stage2.pc # "idle"
  /\ EndAnswer /\ Silent
  /\ UNCHANGED <<turns, followup, autoclose>>

\* The job catches the exception and logs it; the tickets it had still to
\* handle wait for the next run.
FollowupFails(r) ==
  /\ Fault
  /\ followup[r].pc # "idle"
  /\ followup' = [followup EXCEPT ![r] = IdleJob]
  /\ LoopDuring(r, "followup", {}) /\ Silent
  /\ UNCHANGED <<turns, stage2, autoclose>>

AutocloseFails(r) ==
  /\ Fault
  /\ autoclose[r].pc # "idle"
  /\ autoclose' = [autoclose EXCEPT ![r] = IdleJob]
  /\ LoopDuring(r, "autoclose", {}) /\ Silent
  /\ UNCHANGED <<turns, stage2, followup>>

Restart ==
  /\ Fault
  /\ turns'     = [h \in Turns |-> IdleTurn]
  /\ stage2'    = IdleStage2
  /\ followup'  = [r \in FollowupRunners |-> IdleJob]
  /\ autoclose' = [r \in AutocloseRunners |-> IdleJob]
  /\ loop'      = "free"
  /\ Silent

Tick ==
  /\ now < Horizon
  /\ now' = now + 1
  /\ Silent
  /\ UNCHANGED <<tables, turns, jobs, spent, clarified>>

-----------------------------------------------------------------------------
(* The specification.                                                      *)

TurnStarts(h) ==
  \/ ChatNewTicket(h) \/ ChatAutoConfirm(h) \/ ChatStillWaiting(h)
  \/ ChatEscalatedFollowUp(h) \/ ChatClassify(h) \/ ChatFollowUp(h)

TurnResumes(h) ==
  \/ ClassifyReturns(h) \/ PostEscalationReply(h) \/ UnclearEscalated(h)
  \/ ClarifyReply(h) \/ OutOfScopeReply(h) \/ NoTransactionReply(h)
  \/ ComposeRetry(h) \/ ComposeUnavailable(h) \/ PolicyExhausted(h)
  \/ QualityBarRaises(h) \/ DeliverCard(h)

AnswerStarts    == Stage2Response \/ Stage2Timeline
AnswerContinues == Stage2ResponseRows \/ Stage2TimelineResolve
                   \/ Stage2TimelinePattern

FollowupContinues(r) == FollowupCheck(r) \/ FollowupInsert(r) \/ FollowupMark(r)

Failure ==
  \/ \E h \in Turns : TurnFails(h)
  \/ AnswerFails
  \/ \E r \in FollowupRunners : FollowupFails(r)
  \/ \E r \in AutocloseRunners : AutocloseFails(r)
  \/ Restart

Next ==
  \/ \E h \in Turns : TurnStarts(h) \/ TurnResumes(h)
  \/ AnswerStarts \/ AnswerContinues
  \/ \E r \in FollowupRunners : FollowupSelect(r) \/ FollowupContinues(r)
  \/ \E r \in AutocloseRunners : AutocloseSelect(r) \/ AutocloseUpdate(r)
  \/ Failure
  \/ Tick

Spec == Init /\ [][Next]_vars

\* Model calls return or raise (the client has a timeout) and a turn that is
\* ready to resume is not passed over for ever (the ready queue of asyncio is
\* first in, first out: strong fairness).  The scheduler keeps firing the two
\* jobs, a job or an answer that has started goes on, and time passes.  Nobody
\* is obliged to call the trigger endpoints.
Fairness ==
  /\ \A h \in Turns : SF_vars(TurnResumes(h))
  /\ WF_vars(AnswerContinues)
  /\ \A r \in FollowupRunners : WF_vars(FollowupContinues(r))
  /\ \A r \in AutocloseRunners : WF_vars(AutocloseUpdate(r))
  /\ \A r \in FollowupRunners \ {"trigger"} : WF_vars(FollowupSelect(r))
  /\ \A r \in AutocloseRunners \ {"trigger"} : WF_vars(AutocloseSelect(r))
  /\ WF_vars(Tick)

FairSpec == Spec /\ Fairness

-----------------------------------------------------------------------------
(* Properties.                                                             *)

\* A ticket waits for the customer's confirmation only when a follow-up row
\* is on record for it: the job inserts the row before it marks the ticket,
\* and neither a failure between the two nor a turn that writes back the
\* status it read earlier leaves a ticket waiting for a question never sent.
PendingHasFollowup ==
  \A k \in Tickets :
    tickets[k].status = "pending_confirmation" => followups[k] # <<>>

\* A ticket is sent one follow-up, however often the job runs, fails or is
\* restarted between its insert and its update (one runner of the job).
OneFollowupPerTicket == \A k \in Tickets : Len(followups[k]) <= 1

\* With several runners of the job at once (the thread and the trigger) the
\* check and the insert are not atomic, and a ticket is sent at most one
\* follow-up per runner: no failure or rerun adds to that.
FollowupsBoundedByRunners ==
  \A k \in Tickets : Len(followups[k]) <= Cardinality(FollowupRunners)

\* Follow-ups are only ever sent for tickets with a category and a deadline:
\* a ticket the agent only clarified, or declined, is never asked about money.
FollowupsAreOfDatedTickets ==
  \A k \in Tickets : followups[k] # <<>> =>
    tickets[k].deadline # Null /\ tickets[k].category # Null

\* A customer in distress, or with an amount above the threshold, who gets a
\* card has at that moment a ticket marked escalated, whatever ran meanwhile.
RiskyCardEscalates ==
  reply.kind = "card" /\ reply.risky => tickets[reply.to].status = "escalated"

\* Once a ticket has a deadline its category stays one with a settlement
\* rule: later turns skip the classifier (operations one at a time).
DeadlineKeepsCategory ==
  \A k \in Tickets : tickets[k].deadline # Null => tickets[k].category \in Resolvable

\* An unclear customer is asked to clarify at most MaxUnclear times before a
\* person takes over, although the count is read off the truncated history
\* (operations one at a time).
ClarifiedAtMost == \A k \in Tickets : clarified[k] <= MaxUnclear

\* The two tables agree on a "yes": a ticket that waits for the timeline
\* answer has all its follow-up rows confirmed (operations one at a time and
\* no failure between the two writes).
AwaitingMeansYes ==
  spent.faults = 0 /\ stage2.pc = "idle" =>
    \A k \in Tickets : tickets[k].status = "awaiting_timeline" =>
      \A i \in DOMAIN followups[k] : followups[k][i].confirmed

\* The lifecycle implements the contract of the ticket table (operations one
\* at a time).
Contract == INSTANCE TicketContract WITH
              status <- [k \in Tickets |-> tickets[k].status],
              asked  <- [k \in Tickets |-> followups[k] # <<>>]

ContractSpec == Contract!Spec

\* A ticket with a deadline does not stay open for ever: the follow-up job or
\* the auto-close job gets to it, also after a failed run, after a follow-up
\* row without its status update, and after a turn that reopened the ticket.
OverdueLeavesOpen ==
  \A k \in Tickets :
    (tickets[k].status = "open" /\ tickets[k].deadline # Null)
      ~> tickets[k].status # "open"

\* Every chat request is answered: the compose loop and the waits for the
\* event loop end, whatever the models reply.
TurnsEnd == \A h \in Turns : turns[h].pc # "idle" ~> turns[h].pc = "idle"

-----------------------------------------------------------------------------
(* What a comment or a document says and the code does not do.             *)

\* "mark the ticket escalated so the next follow-up turn triggers
\* _POST_ESCALATION_ACK" (chat_handler): an escalated ticket stays escalated
\* until its customer says that the money arrived.  A turn that read the
\* ticket before the escalation writes the old status back.
EscalationSticks ==
  [][\A k \in Tickets : tickets[k].status = "escalated" =>
       tickets'[k].status \in {"escalated", "resolved", "awaiting_timeline"}]_vars
=============================================================================
