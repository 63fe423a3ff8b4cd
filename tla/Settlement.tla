----------------------------- MODULE Settlement -----------------------------
(***************************************************************************)
(* Which payment a card is about, and until when the customer is told to   *)
(* wait: core/retriever, the deadlines of knowledge/policy_loader and of   *)
(* chat_handler, and the retrieval check of verification/structural_evals. *)
(*                                                                         *)
(* Payments are made and settled by the bank while customers write.  Time  *)
(* is counted in minutes from midnight of a Monday, in the time zone that  *)
(* timestamps are stored in, and passes from one of Instants to a later    *)
(* one.                                                                    *)
(***************************************************************************)
EXTENDS Integers, Sequences, FiniteSets

CONSTANTS
  Tickets,
  Users,
  Amounts,    \* the amounts of payments
  Mentions,   \* the numbers that a message can contain
  Instants,   \* the times at which something can happen
  MaxTxns,    \* bound
  Null

ASSUME InstantsAssumption == Instants \subseteq Nat /\ Instants # {}
ASSUME AmountsAssumption  == Amounts \subseteq Nat /\ Mentions \subseteq Nat
ASSUME NullAssumption     == Null \notin Users \cup Mentions \cup Nat
ASSUME BoundAssumption    == MaxTxns \in Nat

VARIABLES
  now,
  txns,     \* transactions, by the number of the TXN id
  tickets   \* the tickets, with what their last card was about

vars == <<now, txns, tickets>>

-----------------------------------------------------------------------------
(* Time.                                                                   *)

Day    == 24 * 60
Month  == 30 * Day
DayOf(t)    == t \div Day
Hour(t)     == (t % Day) \div 60
Minute(t)   == t % 60
Business(d) == d % 7 < 5

\* policy_rules.json
LateCutoffHour       == 23
LateCutoffMinute     == 0
ReversalBusinessDays == 5

FirstBatchOf(d) == d * Day + 30

\* Mutant: a payment made on a full half hour goes with the batch of that time.
BatchAtOrAfter(t) ==
  IF Hour(t) >= LateCutoffHour /\ Minute(t) >= LateCutoffMinute
  THEN FirstBatchOf(DayOf(t) + 1)
  ELSE t + ((30 - (t % 30)) % 30)

\* calculate_next_neft_batch.
NextBatch(t) ==
  IF Hour(t) >= LateCutoffHour /\ Minute(t) >= LateCutoffMinute
  THEN FirstBatchOf(DayOf(t) + 1)
  ELSE IF Minute(t) < 30 THEN t - Minute(t) + 30 ELSE t - Minute(t) + 60

\* Mutant: a business day on the way is a business day.
AddDays(d, n) == IF Business(d + n) THEN d + n ELSE d + n + 2

\* add_business_days: one day after the other, and only some of them count.
NextBusinessDay(d) ==
  IF Business(d + 1) THEN d + 1 ELSE IF Business(d + 2) THEN d + 2 ELSE d + 3

AddBusinessDays(d, n) ==
  LET after[k \in 0 .. n] == IF k = 0 THEN d ELSE NextBusinessDay(after[k - 1])
  IN  after[n]

\* The last minute of the day.
UpiDeadline(t) == (AddBusinessDays(DayOf(t), ReversalBusinessDays) + 1) * Day - 1

-----------------------------------------------------------------------------
Categories == {"UPI_FAILURE", "POT_WITHDRAWAL"}

\* type: UPI payments are stored under another name than their category.
\* open: FAILED or PENDING.
Payments == [owner : Users, type : Categories, open : BOOLEAN,
             amount : Amounts, initiated : Instants]

\* user: whoever opened the ticket.  asker: whose message the last card answered.
\* named: the message had a TXN id.  sure: match_confidence is "high".
\* relevant: the evaluation RETRIEVAL_RELEVANCE passed.
TicketStates == [user : Users \cup {Null}, asker : Users \cup {Null},
                 category : Categories \cup {Null},
                 txn : 0 .. MaxTxns, deadline : Nat \cup {Null},
                 named : BOOLEAN, sure : BOOLEAN, relevant : BOOLEAN]

NoTicket == [user |-> Null, asker |-> Null, category |-> Null, txn |-> 0,
             deadline |-> Null, named |-> FALSE, sure |-> FALSE, relevant |-> FALSE]

TypeOK ==
  /\ now     \in Instants
  /\ txns    \in Seq(Payments) /\ Len(txns) <= MaxTxns
  /\ tickets \in [Tickets -> TicketStates]
  /\ \A k \in Tickets :
       /\ tickets[k].txn \in 0 .. Len(txns)
       /\ tickets[k].txn = 0 <=> tickets[k].deadline = Null

Init ==
  /\ now     \in Instants
  /\ txns    = <<>>
  /\ tickets = [k \in Tickets |-> NoTicket]

-----------------------------------------------------------------------------
(* get_transaction.                                                        *)

Distance(a, b) == IF a > b THEN a - b ELSE b - a

\* Mutant: any transaction with the id.
ByIdAlone(u, id) == {x \in DOMAIN txns : x = id}

ById(u, id) == {x \in DOMAIN txns : x = id /\ txns[x].owner = u}

\* Failed or pending payments of the last thirty days.
Candidates(u, c) ==
  {x \in DOMAIN txns : txns[x].owner = u /\ txns[x].type = c /\ txns[x].open
                       /\ txns[x].initiated + Month >= now}

\* Of payments made at the same time, either can come first.
Newest(found) ==
  {x \in found : \A y \in found : txns[y].initiated <= txns[x].initiated}

Closest(found, amount) ==
  {x \in found : \A y \in found :
     Distance(txns[x].amount, amount) <= Distance(txns[y].amount, amount)}

\* A message without a number, or with a zero, is no mention.
Mentioned(amount) == amount \notin {Null, 0}

\* The transactions that can be returned; id is 0 if the message has none.
Retrieved(u, c, amount, id) ==
  IF id # 0 THEN ById(u, id)
  ELSE LET found == Candidates(u, c)
       IN  Newest(IF Mentioned(amount) THEN Closest(found, amount) ELSE found)

Denominator(amount) == IF amount > 1 THEN amount ELSE 1

\* Mutant: the amounts are compared by what was paid.
WithinPaid(x, amount) ==
  10 * Distance(txns[x].amount, amount) <= Denominator(txns[x].amount)

\* RETRIEVAL_RELEVANCE.
Within10Percent(x, amount) ==
  10 * Distance(txns[x].amount, amount) <= Denominator(amount)

\* _match_confidence.  A number 0 was mentioned all the same.
SureOf(x, amount) ==
  amount # Null => 10 * Distance(txns[x].amount, amount) <= Denominator(amount)

-----------------------------------------------------------------------------
\* Mutant: there is no deadline but for UPI payments.
DeadlineOfUpi(c, t) == IF c = "UPI_FAILURE" THEN UpiDeadline(t) ELSE Null

\* _calculate_deadline.
DeadlineOf(c, t) == IF c = "UPI_FAILURE" THEN UpiDeadline(t) ELSE NextBatch(t)

Initiate(u) ==
  /\ Len(txns) < MaxTxns
  /\ \E c \in Categories, a \in Amounts :
       txns' = Append(txns, [owner |-> u, type |-> c, open |-> TRUE,
                             amount |-> a, initiated |-> now])
  /\ UNCHANGED <<now, tickets>>

Settles(x) ==
  /\ txns[x].open
  /\ txns' = [txns EXCEPT ![x].open = FALSE]
  /\ UNCHANGED <<now, tickets>>

Passes ==
  /\ \E t \in Instants : t > now /\ now' = t
  /\ UNCHANGED <<txns, tickets>>

\* _get_or_create_ticket loads a ticket by its id alone, so the ticket that a
\* message names can be another user's, and stays it.
UserOf(k, u) == IF tickets[k].user = Null THEN u ELSE tickets[k].user

\* handle_chat, of a message whose card passes the policy checks.  The category
\* of a ticket is the one that its first card had, and stays; without a
\* transaction there is no card, and the ticket keeps what it has.
Message(k, u) ==
  /\ \E c \in Categories, amount \in Mentions \cup {Null}, id \in 0 .. MaxTxns :
       /\ tickets[k].category \in {c, Null}
       /\ LET found == Retrieved(u, c, amount, id) IN
          \/ /\ found = {}
             /\ tickets' = [tickets EXCEPT ![k].user = UserOf(k, u)]
          \/ \E x \in found :
               tickets' = [tickets EXCEPT ![k] =
                 [user     |-> UserOf(k, u), asker |-> u, category |-> c, txn |-> x,
                  deadline |-> DeadlineOf(c, txns[x].initiated),
                  named    |-> id # 0,
                  sure     |-> id # 0 \/ SureOf(x, amount),
                  relevant |-> ~Mentioned(amount) \/ Within10Percent(x, amount)]]
  /\ UNCHANGED <<now, txns>>

Next ==
  \/ \E u \in Users : Initiate(u) \/ \E k \in Tickets : Message(k, u)
  \/ \E x \in DOMAIN txns : Settles(x)
  \/ Passes

Spec == Init /\ [][Next]_vars

-----------------------------------------------------------------------------
(* Properties.                                                             *)

CardsOf(c) == {k \in Tickets : tickets[k].txn # 0 /\ tickets[k].category = c}

Initiated(k) == txns[tickets[k].txn].initiated

\* "user_id filter prevents a user from fetching another user's transaction"
\* (retriever.py:39): whosever the ticket is, and on whichever way the payment was
\* found, a card answers a user about a payment of that user.
OwnTransactions ==
  \A k \in Tickets : tickets[k].txn # 0 =>
    txns[tickets[k].txn].owner = tickets[k].asker

\* The rule counts in IST, 5:30 ahead of the zone that timestamps are stored in.
IST == 5 * 60 + 30

LastHour(t) == t % Day >= 23 * 60

\* NEFT_RULE_BATCH_WINDOW and skills/POT_WITHDRAWAL.md:27-32: the next half hour
\* or, from 23:00 IST on, 00:30 IST of the next day.
RuleBatch(t) ==
  IF LastHour(t + IST) THEN FirstBatchOf(DayOf(t + IST) + 1) - IST
  ELSE t - (t % 30) + 30

\* A pot withdrawal is expected with the batch that the rule names, unless it was
\* made in the last hour of a day.  The code tests that hour in the zone of the
\* timestamp: in the last hour of a day in IST the customer is told a time up to
\* an hour too early, and in the last hour of a stored day one up to an hour too
\* late.  No deadline is further off than that, and each is a batch to come.
BatchDeadlines ==
  \A k \in CardsOf("POT_WITHDRAWAL") :
    LET t     == Initiated(k)
        early == RuleBatch(t) - tickets[k].deadline
    IN  /\ tickets[k].deadline > t /\ tickets[k].deadline % 30 = 0
        /\ IF LastHour(t + IST) THEN early \in {30, 60}
           ELSE IF LastHour(t) THEN early \in {-30, -60}
           ELSE early = 0

\* A failed payment is expected back by the end of a business day, the fifth
\* after the day it was made, whichever day of the week that was.
ReversalDeadlines ==
  \A k \in CardsOf("UPI_FAILURE") :
    LET last == DayOf(tickets[k].deadline)
        days == {d \in DayOf(Initiated(k)) + 1 .. last : Business(d)}
    IN  /\ last \in days /\ Cardinality(days) = 5
        /\ (tickets[k].deadline + 1) % Day = 0

\* The retriever and the evaluation measure the distance of the amounts each by
\* itself.  A payment found by amount that is reported as a sure match is never
\* one that the evaluation calls irrelevant.
SureIsRelevant ==
  \A k \in Tickets : tickets[k].sure /\ ~tickets[k].named => tickets[k].relevant

\* FINDING.  "Ticket tracks from first message until payment confirmed resolved"
\* (FEATURES.md:17): as long as the payment of a ticket is open, a message that
\* names no payment does not make the ticket one about a payment of another time.
TracksOnePayment ==
  [][\A k \in Tickets :
       tickets[k].txn # 0 /\ txns[tickets[k].txn].open /\ ~tickets'[k].named
         => txns[tickets'[k].txn].initiated = Initiated(k)]_vars
=============================================================================
