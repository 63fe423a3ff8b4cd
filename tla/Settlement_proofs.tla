------------------------- MODULE Settlement_proofs -------------------------
(***************************************************************************)
(* Theorems about Settlement for any number of customers and payments, any *)
(* amounts, and payments made in any minute.                               *)
(***************************************************************************)
EXTENDS Settlement, FiniteSetTheorems, TLAPS

USE InstantsAssumption, AmountsAssumption, NullAssumption, BoundAssumption

-----------------------------------------------------------------------------
(* The calendar.                                                           *)

\* A batch comes after the payment, on a half hour: the next one or, from 23:00 on,
\* half past midnight.
LEMMA NextBatchIsNext ==
  ASSUME NEW t \in Nat
  PROVE  /\ NextBatch(t) \in Nat
         /\ NextBatch(t) > t /\ NextBatch(t) % 30 = 0
         /\ t % Day < 23 * 60 => NextBatch(t) = t - (t % 30) + 30
         /\ t % Day >= 23 * 60 => NextBatch(t) = (DayOf(t) + 1) * Day + 30
<1>1. PICK d \in Nat, h \in 0 .. 23, m \in 0 .. 59 : t = 1440 * d + 60 * h + m
  <2>1. \E q \in Nat, r \in 0 .. 1439 : t = 1440 * q + r
    <3>1. t \div 1440 \in Nat /\ t % 1440 \in 0 .. 1439
      OBVIOUS
    <3>2. t % 1440 = t - 1440 * (t \div 1440)
      BY SMTT(30)
    <3> QED
      BY <3>1, <3>2
  <2>2. ASSUME NEW r \in 0 .. 1439
        PROVE  \E h \in 0 .. 23, m \in 0 .. 59 : r = 60 * h + m
    <3>1. r \div 60 \in 0 .. 23 /\ r % 60 \in 0 .. 59
      OBVIOUS
    <3>2. r % 60 = r - 60 * (r \div 60)
      BY SMTT(30)
    <3> QED
      BY <3>1, <3>2
  <2>3. PICK q \in Nat, r \in 0 .. 1439 : t = 1440 * q + r
    BY <2>1
  <2>4. PICK h \in 0 .. 23, m \in 0 .. 59 : r = 60 * h + m
    BY <2>2
  <2> QED
    BY <2>3, <2>4
<1>2. Day = 1440
  BY DEF Day
<1>3. DayOf(t) = d /\ t % Day = 60 * h + m
  BY <1>1, <1>2 DEF DayOf
<1>4. Hour(t) = h /\ Minute(t) = m
  BY <1>1, <1>2, <1>3 DEF Hour, Minute
<1>5. CASE h = 23
  BY <1>1, <1>2, <1>3, <1>4, <1>5
     DEF NextBatch, FirstBatchOf, LateCutoffHour, LateCutoffMinute
<1>6. CASE h < 23 /\ m < 30
  <2>1. NextBatch(t) = 1440 * d + 60 * h + 30
    BY <1>1, <1>4, <1>6 DEF NextBatch, LateCutoffHour, LateCutoffMinute
  <2>2. t % 30 = m
    BY <1>1, <1>6
  <2> QED
    BY <1>1, <1>2, <1>3, <1>6, <2>1, <2>2
<1>7. CASE h < 23 /\ m >= 30
  <2>1. NextBatch(t) = 1440 * d + 60 * h + 60
    BY <1>1, <1>4, <1>7 DEF NextBatch, LateCutoffHour, LateCutoffMinute
  <2>2. t % 30 = m - 30
    BY <1>1, <1>7
  <2> QED
    BY <1>1, <1>2, <1>3, <1>7, <2>1, <2>2
<1> QED
  BY <1>5, <1>6, <1>7

\* The batch of the code against the batch of the rule: in IST it is half past five
\* in the morning when a stored day begins.
LEMMA NextBatchAgainstRule ==
  ASSUME NEW t \in Nat
  PROVE  LET early == RuleBatch(t) - NextBatch(t) IN
         IF LastHour(t + IST) THEN early \in {30, 60}
         ELSE IF LastHour(t) THEN early \in {-30, -60}
         ELSE early = 0
<1>1. PICK d \in Nat, m \in 0 .. 1439 : t = 1440 * d + m
  <2>1. t \div 1440 \in Nat /\ t % 1440 \in 0 .. 1439
    OBVIOUS
  <2>2. t % 1440 = t - 1440 * (t \div 1440)
    BY SMTT(30)
  <2> QED
    BY <2>1, <2>2
<1>2. IST = 330 /\ Day = 1440
  BY DEF IST, Day
<1>3. DayOf(t) = d /\ t % Day = m
  BY <1>1, <1>2 DEF DayOf
<1>4. m < 1110 => DayOf(t + IST) = d /\ (t + IST) % Day = m + 330
  BY <1>1, <1>2 DEF DayOf
<1>5. m >= 1110 => DayOf(t + IST) = d + 1 /\ (t + IST) % Day = m - 1110
  BY <1>1, <1>2 DEF DayOf
<1>6. /\ LastHour(t) <=> m >= 1380
      /\ LastHour(t + IST) <=> m \in 1050 .. 1109
  BY <1>1, <1>3, <1>4, <1>5 DEF LastHour
<1>7. /\ m < 1380 => NextBatch(t) = t - (t % 30) + 30
      /\ m >= 1380 => NextBatch(t) = 1440 * d + 1470
  <2>1. /\ m < 23 * 60 => NextBatch(t) = t - (t % 30) + 30
        /\ m >= 23 * 60 => NextBatch(t) = (d + 1) * Day + 30
    BY <1>3, NextBatchIsNext, Zenon
  <2>2. (d + 1) * Day + 30 = 1440 * d + 1470
    BY <1>2
  <2> QED
    BY <2>1, <2>2
<1>8. CASE m \in 1050 .. 1109
  <2>1. RuleBatch(t) = 1440 * d + 1140
    BY <1>1, <1>2, <1>4, <1>6, <1>8 DEF RuleBatch, FirstBatchOf
  <2>2. t - (t % 30) + 30 \in {1440 * d + 1080, 1440 * d + 1110}
    BY <1>1, <1>8
  <2> QED
    BY <1>6, <1>7, <1>8, <2>1, <2>2
<1>9. CASE m >= 1380
  <2>1. RuleBatch(t) = t - (t % 30) + 30
    BY <1>6, <1>9 DEF RuleBatch
  <2>2. t - (t % 30) + 30 \in {1440 * d + 1410, 1440 * d + 1440}
    BY <1>1, <1>9
  <2> QED
    BY <1>6, <1>7, <1>9, <2>1, <2>2
<1>10. CASE m < 1380 /\ m \notin 1050 .. 1109
  <2>1. RuleBatch(t) = t - (t % 30) + 30
    BY <1>6, <1>10 DEF RuleBatch
  <2> QED
    BY <1>6, <1>7, <1>10, <2>1
<1> QED
  BY <1>8, <1>9, <1>10

\* The step to the next business day skips no business day.
LEMMA NextBusinessDayIsNext ==
  ASSUME NEW d \in Nat
  PROVE  /\ NextBusinessDay(d) \in Nat /\ NextBusinessDay(d) > d
         /\ Business(NextBusinessDay(d))
         /\ \A e \in d + 1 .. NextBusinessDay(d) :
              Business(e) => e = NextBusinessDay(d)
BY DEF NextBusinessDay, Business

\* The day after the last of five steps: the recursion is unfolded by giving the
\* function that it stands for.
LEMMA FiveBusinessDays ==
  ASSUME NEW d \in Nat
  PROVE  AddBusinessDays(d, 5) =
           NextBusinessDay(NextBusinessDay(NextBusinessDay(
             NextBusinessDay(NextBusinessDay(d)))))
<1> DEFINE F(g) == [k \in 0 .. 5 |-> IF k = 0 THEN d ELSE NextBusinessDay(g[k - 1])]
           after == CHOOSE g : g = F(g)
<1>1. \E g : g = F(g)
  <2> DEFINE d1 == NextBusinessDay(d)
             d2 == NextBusinessDay(d1)
             d3 == NextBusinessDay(d2)
             d4 == NextBusinessDay(d3)
             d5 == NextBusinessDay(d4)
             g == [k \in 0 .. 5 |-> IF k = 0 THEN d ELSE IF k = 1 THEN d1
                     ELSE IF k = 2 THEN d2 ELSE IF k = 3 THEN d3
                     ELSE IF k = 4 THEN d4 ELSE d5]
  <2>1. ASSUME NEW k \in 0 .. 5
        PROVE  g[k] = IF k = 0 THEN d ELSE NextBusinessDay(g[k - 1])
    <3>1. k = 0 \/ k = 1 \/ k = 2 \/ k = 3 \/ k = 4 \/ k = 5
      OBVIOUS
    <3> QED
      BY <3>1
  <2>2. g = F(g)
    <3> HIDE DEF d1, d2, d3, d4, d5
    <3> QED
      BY <2>1
  <2> QED
    BY <2>2
<1>2. after = F(after)
  BY <1>1
<1>3. AddBusinessDays(d, 5) = after[5]
  BY DEF AddBusinessDays
<1> HIDE DEF after
<1>4. /\ after[0] = d /\ after[1] = NextBusinessDay(after[0])
      /\ after[2] = NextBusinessDay(after[1]) /\ after[3] = NextBusinessDay(after[2])
      /\ after[4] = NextBusinessDay(after[3]) /\ after[5] = NextBusinessDay(after[4])
  BY <1>2
<1> QED
  BY <1>3, <1>4

BusinessDays(a, b) == {d \in a + 1 .. b : Business(d)}

\* One step of the calendar adds one business day.
LEMMA OneMoreBusinessDay ==
  ASSUME NEW a \in Nat, NEW b \in Nat, a <= b, IsFiniteSet(BusinessDays(a, b))
  PROVE  LET next == NextBusinessDay(b) IN
         /\ next \in Nat /\ a <= next
         /\ next \in BusinessDays(a, next) /\ IsFiniteSet(BusinessDays(a, next))
         /\ Cardinality(BusinessDays(a, next)) = Cardinality(BusinessDays(a, b)) + 1
<1> DEFINE next == NextBusinessDay(b)
<1>1. /\ next \in Nat /\ next > b /\ Business(next)
      /\ \A d \in b + 1 .. next : Business(d) => d = next
  BY NextBusinessDayIsNext
<1> HIDE DEF next
<1>2. BusinessDays(a, next) = BusinessDays(a, b) \cup {next}
  BY <1>1 DEF BusinessDays
<1>3. next \notin BusinessDays(a, b)
  BY <1>1 DEF BusinessDays
<1>4. /\ IsFiniteSet(BusinessDays(a, next))
      /\ Cardinality(BusinessDays(a, next)) = Cardinality(BusinessDays(a, b)) + 1
  BY <1>2, <1>3, FS_AddElement
<1>5. next \in BusinessDays(a, next)
  BY <1>2
<1> QED
  BY <1>1, <1>4, <1>5 DEF next

\* So five steps add five.
LEMMA FifthBusinessDay ==
  ASSUME NEW d \in Nat
  PROVE  LET last == AddBusinessDays(d, ReversalBusinessDays) IN
         /\ last \in Nat /\ last \in BusinessDays(d, last)
         /\ Cardinality(BusinessDays(d, last)) = 5
<1> DEFINE Counts(b, n) == /\ b \in Nat /\ d <= b /\ IsFiniteSet(BusinessDays(d, b))
                           /\ Cardinality(BusinessDays(d, b)) = n
<1>1. Counts(d, 0)
  <2>1. BusinessDays(d, d) = {}
    BY DEF BusinessDays
  <2> QED
    BY <2>1, FS_EmptySet
<1>2. ASSUME NEW b, NEW n \in Nat, Counts(b, n)
      PROVE  /\ Counts(NextBusinessDay(b), n + 1)
             /\ NextBusinessDay(b) \in BusinessDays(d, NextBusinessDay(b))
  BY <1>2, OneMoreBusinessDay
<1> HIDE DEF Counts
<1> DEFINE d1 == NextBusinessDay(d)
           d2 == NextBusinessDay(d1)
           d3 == NextBusinessDay(d2)
           d4 == NextBusinessDay(d3)
           d5 == NextBusinessDay(d4)
<1>3. Counts(d1, 1)
  <2>1. Counts(d1, 0 + 1)
    BY <1>1, <1>2
  <2> QED
    BY <2>1
<1>4. Counts(d2, 2)
  <2>1. Counts(d2, 1 + 1)
    BY <1>2, <1>3
  <2> QED
    BY <2>1
<1>5. Counts(d3, 3)
  <2>1. Counts(d3, 2 + 1)
    BY <1>2, <1>4
  <2> QED
    BY <2>1
<1>6. Counts(d4, 4)
  <2>1. Counts(d4, 3 + 1)
    BY <1>2, <1>5
  <2> QED
    BY <2>1
<1>7. Counts(d5, 5) /\ d5 \in BusinessDays(d, d5)
  <2>1. Counts(d5, 4 + 1) /\ d5 \in BusinessDays(d, d5)
    BY <1>2, <1>6
  <2> QED
    BY <2>1
<1>8. AddBusinessDays(d, ReversalBusinessDays) = d5
  BY FiveBusinessDays DEF ReversalBusinessDays
<1> HIDE DEF d5
<1> QED
  BY <1>7, <1>8 DEF Counts

\* The deadline is the last minute of the fifth business day.
LEMMA UpiDeadlineIsFifthDay ==
  ASSUME NEW t \in Nat
  PROVE  LET last == DayOf(UpiDeadline(t)) IN
         /\ UpiDeadline(t) \in Nat /\ (UpiDeadline(t) + 1) % Day = 0
         /\ last \in BusinessDays(DayOf(t), last)
         /\ Cardinality(BusinessDays(DayOf(t), last)) = 5
<1> DEFINE d == DayOf(t)
           last == AddBusinessDays(d, ReversalBusinessDays)
<1>1. Day = 1440
  BY DEF Day
<1>2. d \in Nat
  BY <1>1 DEF DayOf
<1> HIDE DEF d
<1>3. /\ last \in Nat /\ last \in BusinessDays(d, last)
      /\ Cardinality(BusinessDays(d, last)) = 5
  BY <1>2, FifthBusinessDay
<1>4. UpiDeadline(t) = (last + 1) * Day - 1
  BY DEF UpiDeadline, d
<1> HIDE DEF last
<1>5. UpiDeadline(t) = 1440 * last + 1439
  BY <1>1, <1>3, <1>4
<1>6. UpiDeadline(t) \in Nat /\ DayOf(UpiDeadline(t)) = last
      /\ (UpiDeadline(t) + 1) % Day = 0
  BY <1>1, <1>3, <1>5 DEF DayOf
<1> QED
  BY <1>3, <1>6 DEF d

-----------------------------------------------------------------------------
(* The inductive invariant: what a ticket knows follows from the payment   *)
(* that its card was about, as that payment is stored now.                 *)

DeadlinesFollow ==
  \A k \in Tickets : tickets[k].txn # 0 =>
    /\ tickets[k].category \in Categories
    /\ tickets[k].deadline = DeadlineOf(tickets[k].category, Initiated(k))

CardsInv == TypeOK /\ DeadlinesFollow /\ OwnTransactions /\ SureIsRelevant

LEMMA DeadlineType ==
  ASSUME NEW c, NEW t \in Nat
  PROVE  DeadlineOf(c, t) \in Nat
BY NextBatchIsNext, UpiDeadlineIsFifthDay DEF DeadlineOf

LEMMA CardsInit == Init => CardsInv
<1> SUFFICES ASSUME Init PROVE CardsInv
  OBVIOUS
<1>1. TypeOK
  BY DEF Init, TypeOK, NoTicket, TicketStates
<1> QED
  BY <1>1 DEF Init, CardsInv, DeadlinesFollow, OwnTransactions, SureIsRelevant, NoTicket

\* Whatever is retrieved is a payment of the user.
LEMMA RetrievedIsOwn ==
  ASSUME TypeOK, NEW u, NEW c, NEW amount, NEW id, NEW x \in Retrieved(u, c, amount, id)
  PROVE  x \in DOMAIN txns /\ txns[x].owner = u
BY DEF Retrieved, ById, Candidates, Newest, Closest

\* A payment that is added or settled keeps what tickets know of the others.
LEMMA CardsKept ==
  ASSUME CardsInv, UNCHANGED tickets, now' \in Instants,
         txns' \in Seq(Payments), Len(txns') <= MaxTxns, Len(txns) <= Len(txns'),
         \A x \in DOMAIN txns : /\ txns'[x].owner = txns[x].owner
                                /\ txns'[x].initiated = txns[x].initiated
  PROVE  CardsInv'
<1>1. \A k \in Tickets : tickets[k].txn # 0 => tickets[k].txn \in DOMAIN txns
  BY DEF CardsInv, TypeOK
<1>2. TypeOK'
  BY DEF CardsInv, TypeOK
<1>3. DeadlinesFollow'
  BY <1>1 DEF CardsInv, DeadlinesFollow, Initiated
<1>4. OwnTransactions'
  BY <1>1 DEF CardsInv, OwnTransactions
<1>5. SureIsRelevant'
  BY DEF CardsInv, SureIsRelevant
<1> QED
  BY <1>2, <1>3, <1>4, <1>5 DEF CardsInv

LEMMA CardsMessage ==
  ASSUME CardsInv, NEW k \in Tickets, NEW u \in Users, Message(k, u)
  PROVE  CardsInv'
<1>1. PICK c \in Categories, amount \in Mentions \cup {Null}, id \in 0 .. MaxTxns :
        /\ tickets[k].category \in {c, Null}
        /\ \/ tickets' = [tickets EXCEPT ![k].user = UserOf(k, u)]
           \/ \E x \in Retrieved(u, c, amount, id) :
                tickets' = [tickets EXCEPT ![k] =
                  [user     |-> UserOf(k, u), asker |-> u, category |-> c, txn |-> x,
                   deadline |-> DeadlineOf(c, txns[x].initiated),
                   named    |-> id # 0,
                   sure     |-> id # 0 \/ SureOf(x, amount),
                   relevant |-> ~Mentioned(amount) \/ Within10Percent(x, amount)]]
  BY DEF Message
<1>2. UNCHANGED <<now, txns>>
  BY DEF Message
<1>3. tickets \in [Tickets -> TicketStates] /\ txns \in Seq(Payments)
      /\ now \in Instants /\ Len(txns) <= MaxTxns
  BY DEF CardsInv, TypeOK
<1>a. UserOf(k, u) \in Users \cup {Null}
  BY <1>3 DEF UserOf, TicketStates
<1>4. CASE tickets' = [tickets EXCEPT ![k].user = UserOf(k, u)]
  <2> DEFINE owned == [tickets[k] EXCEPT !.user = UserOf(k, u)]
  <2>1. /\ owned \in TicketStates
        /\ owned.txn = tickets[k].txn /\ owned.asker = tickets[k].asker
        /\ owned.category = tickets[k].category
        /\ owned.deadline = tickets[k].deadline
        /\ owned.named = tickets[k].named /\ owned.sure = tickets[k].sure
        /\ owned.relevant = tickets[k].relevant
    <3>1. tickets[k] \in TicketStates
      BY <1>3
    <3> HIDE DEF UserOf
    <3> QED
      BY <3>1, <1>a DEF TicketStates
  <2> tickets' = [tickets EXCEPT ![k] = owned]
    BY <1>4
  <2> HIDE DEF owned
  <2>2. /\ tickets' \in [Tickets -> TicketStates]
        /\ \A l \in Tickets :
             /\ tickets'[l].txn = tickets[l].txn
             /\ tickets'[l].asker = tickets[l].asker
             /\ tickets'[l].category = tickets[l].category
             /\ tickets'[l].deadline = tickets[l].deadline
             /\ tickets'[l].named = tickets[l].named
             /\ tickets'[l].sure = tickets[l].sure
             /\ tickets'[l].relevant = tickets[l].relevant
    BY <1>3, <2>1
  <2>3. TypeOK'
    BY <1>2, <1>3, <2>2 DEF CardsInv, TypeOK
  <2>4. DeadlinesFollow'
    BY <1>2, <2>2 DEF CardsInv, DeadlinesFollow, Initiated
  <2>5. OwnTransactions'
    BY <1>2, <2>2 DEF CardsInv, OwnTransactions
  <2>6. SureIsRelevant'
    BY <2>2 DEF CardsInv, SureIsRelevant
  <2> QED
    BY <2>3, <2>4, <2>5, <2>6 DEF CardsInv
<1>5. ASSUME NEW x \in Retrieved(u, c, amount, id),
             tickets' = [tickets EXCEPT ![k] =
               [user     |-> UserOf(k, u), asker |-> u, category |-> c, txn |-> x,
                deadline |-> DeadlineOf(c, txns[x].initiated),
                named    |-> id # 0,
                sure     |-> id # 0 \/ SureOf(x, amount),
                relevant |-> ~Mentioned(amount) \/ Within10Percent(x, amount)]]
      PROVE  CardsInv'
  <2> DEFINE card == [user     |-> UserOf(k, u), asker |-> u, category |-> c, txn |-> x,
                      deadline |-> DeadlineOf(c, txns[x].initiated),
                      named    |-> id # 0,
                      sure     |-> id # 0 \/ SureOf(x, amount),
                      relevant |-> ~Mentioned(amount) \/ Within10Percent(x, amount)]
  <2>1. x \in DOMAIN txns /\ txns[x].owner = u
    BY RetrievedIsOwn DEF CardsInv
  <2>2. txns[x].initiated \in Nat /\ x \in 1 .. Len(txns) /\ x \in 0 .. MaxTxns
    <3>1. x \in 1 .. Len(txns) /\ Len(txns) \in Nat /\ txns[x] \in Payments
      BY <1>3, <2>1
    <3>2. txns[x].initiated \in Instants
      BY <3>1 DEF Payments
    <3>3. txns[x].initiated \in Nat
      BY <3>2
    <3>4. x \in 0 .. MaxTxns
      BY <1>3, <3>1
    <3> QED
      BY <3>1, <3>3, <3>4
  <2>3. DeadlineOf(c, txns[x].initiated) \in Nat
    BY <2>2, DeadlineType
  <2>4. SureOf(x, amount) \in BOOLEAN /\ Within10Percent(x, amount) \in BOOLEAN
        /\ Mentioned(amount) \in BOOLEAN
    BY DEF SureOf, Within10Percent, Mentioned
  <2>5. card \in TicketStates
    <3> HIDE DEF UserOf
    <3> QED
      BY <1>a, <2>2, <2>3, <2>4 DEF TicketStates
  <2>6. card.sure /\ ~card.named => card.relevant
    BY DEF SureOf, Within10Percent, Mentioned
  <2>7. /\ card.txn = x /\ card.category = c /\ card.asker = u
        /\ card.deadline = DeadlineOf(c, txns[x].initiated)
    OBVIOUS
  <2>8. tickets' = [tickets EXCEPT ![k] = card]
    BY <1>5
  <2> HIDE DEF card
  <2>9. tickets'[k] = card /\ \A l \in Tickets \ {k} : tickets'[l] = tickets[l]
    BY <1>3, <2>8
  <2>10. TypeOK'
    <3>1. tickets' \in [Tickets -> TicketStates]
      BY <1>3, <2>5, <2>8
    <3>2. \A l \in Tickets : /\ tickets'[l].txn \in 0 .. Len(txns)
                             /\ tickets'[l].txn = 0 <=> tickets'[l].deadline = Null
      <4>1. card.txn \in 0 .. Len(txns) /\ (card.txn = 0 <=> card.deadline = Null)
        BY <1>3, <2>2, <2>3, <2>7
      <4> QED
        BY <2>9, <4>1 DEF CardsInv, TypeOK
    <3> QED
      BY <1>2, <1>3, <3>1, <3>2 DEF TypeOK
  <2>11. DeadlinesFollow'
    BY <1>2, <2>7, <2>9 DEF CardsInv, DeadlinesFollow, Initiated
  <2>12. OwnTransactions'
    BY <1>2, <2>1, <2>7, <2>9 DEF CardsInv, OwnTransactions
  <2>13. SureIsRelevant'
    BY <2>6, <2>9 DEF CardsInv, SureIsRelevant
  <2> QED
    BY <2>10, <2>11, <2>12, <2>13 DEF CardsInv
<1> QED
  BY <1>1, <1>4, <1>5

LEMMA CardsNext == CardsInv /\ [Next]_vars => CardsInv'
<1> SUFFICES ASSUME CardsInv, [Next]_vars PROVE CardsInv'
  OBVIOUS
<1>1. txns \in Seq(Payments) /\ Len(txns) \in Nat /\ Len(txns) <= MaxTxns
      /\ now \in Instants /\ DOMAIN txns = 1 .. Len(txns)
  BY DEF CardsInv, TypeOK
<1>2. ASSUME NEW u \in Users, Initiate(u) PROVE CardsInv'
  <2>1. PICK pay \in Payments : txns' = Append(txns, pay)
    <3>1. PICK c \in Categories, a \in Amounts :
            txns' = Append(txns, [owner |-> u, type |-> c, open |-> TRUE,
                                  amount |-> a, initiated |-> now])
      BY <1>2 DEF Initiate
    <3>2. [owner |-> u, type |-> c, open |-> TRUE, amount |-> a, initiated |-> now]
            \in Payments
      BY <1>1 DEF Payments
    <3> QED
      BY <3>1, <3>2
  <2>2. UNCHANGED <<now, tickets>> /\ Len(txns) < MaxTxns
    BY <1>2 DEF Initiate
  <2>3. txns' \in Seq(Payments) /\ Len(txns') = Len(txns) + 1
        /\ \A x \in DOMAIN txns : txns'[x] = txns[x]
    BY <1>1, <2>1
  <2> QED
    BY <1>1, <2>2, <2>3, CardsKept
<1>3. ASSUME NEW x \in DOMAIN txns, Settles(x) PROVE CardsInv'
  <2>1. txns' = [txns EXCEPT ![x].open = FALSE] /\ UNCHANGED <<now, tickets>>
    BY <1>3 DEF Settles
  <2> DEFINE settled == [txns[x] EXCEPT !.open = FALSE]
  <2>2. txns[x] \in Payments
    BY <1>1
  <2>3. settled \in Payments /\ settled.owner = txns[x].owner
        /\ settled.initiated = txns[x].initiated
    BY <2>2 DEF Payments
  <2>4. txns' = [txns EXCEPT ![x] = settled]
    BY <2>1
  <2> HIDE DEF settled
  <2>5. txns' \in Seq(Payments) /\ Len(txns') = Len(txns)
    BY <1>1, <2>3, <2>4
  <2>6. \A y \in DOMAIN txns : /\ txns'[y].owner = txns[y].owner
                               /\ txns'[y].initiated = txns[y].initiated
    BY <1>1, <2>3, <2>4
  <2> QED
    BY <1>1, <2>1, <2>5, <2>6, CardsKept
<1>4. CASE Passes
  BY <1>1, <1>4, CardsKept DEF Passes
<1>5. ASSUME NEW k \in Tickets, NEW u \in Users, Message(k, u) PROVE CardsInv'
  BY <1>5, CardsMessage
<1>6. CASE UNCHANGED vars
  BY <1>1, <1>6, CardsKept DEF vars
<1> QED
  BY <1>2, <1>3, <1>4, <1>5, <1>6 DEF Next

LEMMA CardsInvariant == Spec => []CardsInv
<1>1. Init => CardsInv
  BY CardsInit
<1>2. CardsInv /\ [Next]_vars => CardsInv'
  BY CardsNext
<1> QED
  BY <1>1, <1>2, PTL DEF Spec

-----------------------------------------------------------------------------
\* Every reachable state has the declared types: in particular every card has
\* a deadline, and a payment that exists (chat_handler.py:541-558).
THEOREM TypeCorrectness == Spec => []TypeOK
<1>1. CardsInv => TypeOK
  BY DEF CardsInv
<1> QED
  BY <1>1, CardsInvariant, PTL

\* A card answers a user about a payment of that user, whichever way get_transaction
\* found it and whosever the ticket is (retriever.py:37-46, chat_handler.py:79-82).
THEOREM CardsAreOfOwnPayments == Spec => []OwnTransactions
<1>1. CardsInv => OwnTransactions
  BY DEF CardsInv
<1> QED
  BY <1>1, CardsInvariant, PTL

\* A match that the retriever calls high is never irrelevant to the evaluation.
THEOREM SureMatchesAreRelevant == Spec => []SureIsRelevant
<1>1. CardsInv => SureIsRelevant
  BY DEF CardsInv
<1> QED
  BY <1>1, CardsInvariant, PTL

\* The payments of cards were made at a minute of the calendar.
LEMMA CardsHavePayments ==
  ASSUME CardsInv, NEW k \in Tickets, tickets[k].txn # 0
  PROVE  Initiated(k) \in Nat
<1>1. tickets[k].txn \in DOMAIN txns /\ txns \in Seq(Payments)
  BY DEF CardsInv, TypeOK
<1>2. txns[tickets[k].txn] \in Payments
  BY <1>1
<1>3. Initiated(k) \in Instants
  BY <1>2 DEF Payments, Initiated
<1> QED
  BY <1>3

\* The deadline of a pot withdrawal is the batch that the rule names but for the
\* last hour of a day, in IST or as stored, when it is off by half an hour or an
\* hour: for a payment in any minute of any day (policy_loader.py:51-73).
THEOREM BatchDeadlinesWithinAnHour == Spec => []BatchDeadlines
<1>1. CardsInv => BatchDeadlines
  <2> SUFFICES ASSUME CardsInv, NEW k \in CardsOf("POT_WITHDRAWAL")
               PROVE  LET t     == Initiated(k)
                          early == RuleBatch(t) - tickets[k].deadline
                      IN  /\ tickets[k].deadline > t /\ tickets[k].deadline % 30 = 0
                          /\ IF LastHour(t + IST) THEN early \in {30, 60}
                             ELSE IF LastHour(t) THEN early \in {-30, -60}
                             ELSE early = 0
    BY DEF BatchDeadlines
  <2>1. k \in Tickets /\ tickets[k].txn # 0 /\ tickets[k].category = "POT_WITHDRAWAL"
    BY DEF CardsOf
  <2>2. tickets[k].deadline = NextBatch(Initiated(k))
    BY <2>1 DEF CardsInv, DeadlinesFollow, DeadlineOf
  <2>3. Initiated(k) \in Nat
    BY <2>1, CardsHavePayments
  <2> QED
    BY <2>2, <2>3, NextBatchIsNext, NextBatchAgainstRule
<1> QED
  BY <1>1, CardsInvariant, PTL

\* The deadline of a failed payment is the end of the fifth business day, for a
\* payment on any day of the week (policy_loader.py:35-48).
THEOREM ReversalDeadlinesAreFifthDays == Spec => []ReversalDeadlines
<1>1. CardsInv => ReversalDeadlines
  <2> SUFFICES ASSUME CardsInv PROVE ReversalDeadlines
    OBVIOUS
  <2> SUFFICES ASSUME NEW k \in CardsOf("UPI_FAILURE")
               PROVE  LET last == DayOf(tickets[k].deadline)
                          days == {d \in DayOf(Initiated(k)) + 1 .. last : Business(d)}
                      IN  /\ last \in days /\ Cardinality(days) = 5
                          /\ (tickets[k].deadline + 1) % Day = 0
    BY DEF ReversalDeadlines
  <2>1. k \in Tickets /\ tickets[k].txn # 0 /\ tickets[k].category = "UPI_FAILURE"
    BY DEF CardsOf
  <2>2. tickets[k].deadline = UpiDeadline(Initiated(k))
    BY <2>1 DEF CardsInv, DeadlinesFollow, DeadlineOf
  <2>3. Initiated(k) \in Nat
    BY <2>1, CardsHavePayments
  <2> QED
    BY <2>2, <2>3, UpiDeadlineIsFifthDay DEF BusinessDays
<1> QED
  BY <1>1, CardsInvariant, PTL
=============================================================================
