------------------------- MODULE EvalQueue_proofs -------------------------
(***************************************************************************)
(* Theorems about EvalQueue for any number of tickets, rows, ratings and   *)
(* days.                                                                   *)
(***************************************************************************)
EXTENDS EvalQueue, WellFoundedInduction, TLAPS

USE NullAssumption, ScoresAssumption, BoundsAssumption

-----------------------------------------------------------------------------
\* Some numbers have a least one.
LEMMA LeastOf ==
  ASSUME NEW T, T \subseteq Nat, T # {}
  PROVE  \E m \in T : \A t \in T : t >= m
<1>1. PICK R : R = OpToRel(<, Nat)
  OBVIOUS
<1>2. IsWellFoundedOn(R, Nat)
  BY <1>1, NatLessThanWellFounded, Zenon
<1>3. \A x, y \in Nat : ~(<<x, y>> \in R) => x >= y
  BY <1>1 DEF OpToRel
<1>4. \E m \in T : \A t \in T : ~(<<t, m>> \in R)
  BY <1>2, WFMin, Zenon
<1> QED
  BY <1>3, <1>4

\* The largest of some of the first n numbers.
LEMMA MaxOf ==
  ASSUME NEW n \in Nat, NEW S, S \subseteq 1 .. n, S # {}
  PROVE  Max(S) \in S /\ \A y \in S : Max(S) >= y
<1> DEFINE T == {n - y : y \in S}
<1>1. T \subseteq Nat /\ T # {}
  <2>1. \A y \in S : y \in Nat /\ n - y \in Nat
    OBVIOUS
  <2> QED
    BY <2>1
<1> HIDE DEF T
<1>2. PICK m \in T : \A t \in T : t >= m
  BY <1>1, LeastOf
<1> USE DEF T
<1>3. PICK x \in S : m = n - x
  OBVIOUS
<1>4. \A y \in S : n - y \in T
  OBVIOUS
<1>5. \A y \in S : x >= y
  <2> SUFFICES ASSUME NEW y \in S PROVE x >= y
    OBVIOUS
  <2>1. PICK t \in T : t = n - y
    BY <1>4
  <2>2. t >= n - x
    BY <1>2, <1>3
  <2>3. x \in Nat /\ y \in Nat
    OBVIOUS
  <2> QED
    BY <2>1, <2>2, <2>3
<1> HIDE DEF T
<1> QED
  BY <1>5 DEF Max

\* A sequence over a set is one over a larger set.
LEMMA SeqOver ==
  ASSUME NEW S, NEW T, S \subseteq T, NEW s \in Seq(S)
  PROVE  s \in Seq(T)
OBVIOUS

LEMMA AppendFacts ==
  ASSUME NEW S, NEW s \in Seq(S), NEW e \in S
  PROVE  /\ Append(s, e) \in Seq(S) /\ Len(Append(s, e)) = Len(s) + 1
         /\ DOMAIN Append(s, e) = 1 .. Len(s) + 1
         /\ \A i \in 1 .. Len(s) : Append(s, e)[i] = s[i]
OBVIOUS

-----------------------------------------------------------------------------
(* The inductive invariant.  A card that was logged keeps its row, with    *)
(* its ticket and its text, and a row has a score only from a rating.      *)

CardsHaveRows ==
  \A c \in DOMAIN cards : cards[c].row # 0 =>
    /\ cards[c].row \in DOMAIN queue
    /\ queue[cards[c].row].ticket = cards[c].ticket
    /\ queue[cards[c].row].text

ScoresAreRatings ==
  \A i \in DOMAIN queue :
    queue[i].score # 0 => \E r \in DOMAIN ratings : ratings[r].row = i

RatedInv == TypeOK /\ CardsHaveRows /\ ScoresAreRatings /\ RatingsNeverGoBack

LEMMA RatedInit == Init => RatedInv
BY DEF Init, RatedInv, TypeOK, CardsHaveRows, ScoresAreRatings, RatingsNeverGoBack

LEMMA RatedImplies == RatedInv => NoRatingCountsTwice
BY DEF RatedInv, ScoresAreRatings, NoRatingCountsTwice, ScoredRows, Since, Traces,
       Windowed

\* The types with their sets of records under a name.
Shown       == [ticket : Tickets, row : 0 .. MaxRows]
Given(m, n) == [card : 1 .. m, row : 1 .. n]

LEMMA TypeFacts ==
  ASSUME TypeOK
  PROVE  /\ queue \in Seq(Rows) /\ Len(queue) <= MaxRows
         /\ cards \in Seq(Shown)
         /\ ratings \in Seq(Given(Len(cards), Len(queue)))
         /\ Len(ratings) <= MaxRatings
         /\ now \in 0 .. Horizon /\ faults \in 0 .. MaxFaults
         /\ Len(queue) \in Nat /\ Len(cards) \in Nat /\ Len(ratings) \in Nat
         /\ DOMAIN queue = 1 .. Len(queue)
         /\ DOMAIN cards = 1 .. Len(cards)
         /\ DOMAIN ratings = 1 .. Len(ratings)
<1>1. /\ queue \in Seq(Rows) /\ Len(queue) <= MaxRows
      /\ cards \in Seq(Shown)
      /\ ratings \in Seq(Given(Len(cards), Len(queue)))
      /\ Len(ratings) <= MaxRatings
      /\ now \in 0 .. Horizon /\ faults \in 0 .. MaxFaults
  BY DEF TypeOK, Shown, Given
<1> QED
  BY <1>1

LEMMA ShownFields ==
  /\ \A k \in Tickets, n \in 0 .. MaxRows : [ticket |-> k, row |-> n] \in Shown
  /\ \A card \in Shown : card.ticket \in Tickets /\ card.row \in 0 .. MaxRows
BY DEF Shown

LEMMA GivenFields ==
  ASSUME NEW m \in Nat, NEW n \in Nat
  PROVE  /\ \A c \in 1 .. m, row \in 1 .. n : [card |-> c, row |-> row] \in Given(m, n)
         /\ \A rating \in Given(m, n) : rating.card \in 1 .. m /\ rating.row \in 1 .. n
BY DEF Given

\* Ratings stay what they were when rows and cards are added.
LEMMA RatingsKept ==
  ASSUME TypeOK, NEW n \in Nat, NEW m \in Nat, Len(queue) <= n, Len(cards) <= m
  PROVE  ratings \in Seq(Given(m, n))
<1>1. Given(Len(cards), Len(queue)) \subseteq Given(m, n)
  <2>1. Len(cards) \in Nat /\ Len(queue) \in Nat
    BY TypeFacts
  <2> QED
    BY <2>1 DEF Given
<1>2. ratings \in Seq(Given(Len(cards), Len(queue)))
  BY TypeFacts
<1> QED
  BY <1>1, <1>2, SeqOver

LEMMA RatingFields ==
  ASSUME TypeOK, NEW r \in DOMAIN ratings
  PROVE  ratings[r].card \in DOMAIN cards /\ ratings[r].row \in DOMAIN queue
<1>1. ratings[r] \in Given(Len(cards), Len(queue))
  BY TypeFacts
<1> QED
  BY <1>1, TypeFacts, GivenFields

\* A new row without a score.
LEMMA InsertKeeps ==
  ASSUME RatedInv, NEW row \in Rows, row.score = 0, Insert(row),
         UNCHANGED <<ratings, now>>, faults' \in 0 .. MaxFaults,
         \/ UNCHANGED cards
         \/ cards' = Append(cards, [ticket |-> row.ticket, row |-> Len(queue) + 1])
            /\ row.ticket \in Tickets /\ row.text
  PROVE  RatedInv'
<1>1. /\ queue \in Seq(Rows) /\ Len(queue) <= MaxRows
      /\ cards \in Seq(Shown)
      /\ MaxRows \in Nat /\ Len(queue) \in Nat /\ Len(cards) \in Nat
      /\ DOMAIN queue = 1 .. Len(queue) /\ DOMAIN cards = 1 .. Len(cards)
  BY TypeFacts DEF RatedInv
<1>2. /\ queue' \in Seq(Rows) /\ Len(queue') = Len(queue) + 1 /\ Len(queue') <= MaxRows
      /\ DOMAIN queue' = 1 .. Len(queue')
      /\ \A i \in 1 .. Len(queue) : queue'[i] = queue[i]
      /\ queue'[Len(queue) + 1] = row
  BY <1>1 DEF Insert
<1>3. /\ cards' \in Seq(Shown)
      /\ Len(cards) <= Len(cards') /\ Len(cards') \in Nat
      /\ \A c \in DOMAIN cards : c \in DOMAIN cards' /\ cards'[c] = cards[c]
  <2>1. CASE UNCHANGED cards
    BY <1>1, <2>1
  <2>2. CASE cards' = Append(cards, [ticket |-> row.ticket, row |-> Len(queue) + 1])
             /\ row.ticket \in Tickets
    <3>1. PICK card : card = [ticket |-> row.ticket, row |-> Len(queue) + 1]
      OBVIOUS
    <3>2. card \in Shown
      <4>1. PICK n \in 0 .. MaxRows : n = Len(queue) + 1
        BY <1>1, <1>2
      <4> QED
        BY <2>2, <3>1, <4>1, ShownFields
    <3>3. cards' = Append(cards, card)
      BY <2>2, <3>1
    <3>4. cards \in Seq(Shown) /\ DOMAIN cards = 1 .. Len(cards)
      BY <1>1
    <3>5. /\ Append(cards, card) \in Seq(Shown)
          /\ Len(Append(cards, card)) = Len(cards) + 1
          /\ DOMAIN Append(cards, card) = 1 .. Len(cards) + 1
          /\ \A c \in 1 .. Len(cards) : Append(cards, card)[c] = cards[c]
      BY <3>2, <3>4, AppendFacts
    <3>6. PICK grown : grown = Append(cards, card)
      OBVIOUS
    <3>7. /\ grown \in Seq(Shown) /\ Len(grown) = Len(cards) + 1
          /\ \A c \in DOMAIN cards : c \in DOMAIN grown /\ grown[c] = cards[c]
      BY <1>1, <3>4, <3>5, <3>6
    <3>8. cards' = grown
      BY <3>3, <3>6
    <3> QED
      BY <1>1, <3>7, <3>8
  <2> QED
    BY <2>1, <2>2
<1>4. ratings \in Seq(Given(Len(cards'), Len(queue')))
  <2>1. TypeOK /\ Len(queue) <= Len(queue') /\ Len(queue') \in Nat
    BY <1>1, <1>2 DEF RatedInv
  <2> QED
    BY <1>3, <2>1, RatingsKept
<1>5. TypeOK'
  BY <1>2, <1>3, <1>4 DEF RatedInv, TypeOK, Shown, Given
<1>6. CardsHaveRows'
  <2> SUFFICES ASSUME NEW c \in DOMAIN cards', cards'[c].row # 0
               PROVE  /\ cards'[c].row \in DOMAIN queue'
                      /\ queue'[cards'[c].row].ticket = cards'[c].ticket
                      /\ queue'[cards'[c].row].text
    BY DEF CardsHaveRows
  <2>1. CASE c \in DOMAIN cards
    <3>1. cards'[c] = cards[c]
      BY <1>3, <2>1
    <3>2. PICK n : n = cards[c].row
      OBVIOUS
    <3>3. n \in 1 .. Len(queue) /\ queue[n].ticket = cards[c].ticket /\ queue[n].text
      BY <1>1, <2>1, <3>1, <3>2 DEF RatedInv, CardsHaveRows
    <3>4. n \in 1 .. Len(queue') /\ queue'[n] = queue[n]
      BY <1>1, <1>2, <3>3
    <3> QED
      BY <1>2, <3>1, <3>2, <3>3, <3>4
  <2>2. CASE c \notin DOMAIN cards
    <3>1. /\ cards'[c] = [ticket |-> row.ticket, row |-> Len(queue) + 1] /\ row.text
          /\ Len(queue) + 1 \in 1 .. Len(queue')
      BY <1>1, <1>2, <2>2
    <3> QED
      BY <1>1, <1>2, <3>1
  <2> QED
    BY <2>1, <2>2
<1>7. ScoresAreRatings'
  <2> SUFFICES ASSUME NEW i \in DOMAIN queue', queue'[i].score # 0
               PROVE  \E r \in DOMAIN ratings : ratings[r].row = i
    BY DEF ScoresAreRatings
  <2>1. i \in 1 .. Len(queue) /\ queue[i].score # 0
    BY <1>1, <1>2
  <2> QED
    BY <1>1, <2>1 DEF RatedInv, ScoresAreRatings
<1>8. RatingsNeverGoBack'
  <2>1. \A r \in DOMAIN ratings :
          /\ ratings[r].card \in DOMAIN cards /\ ratings[r].row \in 1 .. Len(queue)
    BY <1>1, RatingFields DEF RatedInv
  <2>2. \A r \in DOMAIN ratings : /\ cards'[ratings[r].card] = cards[ratings[r].card]
                                  /\ queue'[ratings[r].row] = queue[ratings[r].row]
    BY <1>2, <1>3, <2>1
  <2> QED
    BY <2>2 DEF RatedInv, RatingsNeverGoBack
<1> QED
  BY <1>5, <1>6, <1>7, <1>8 DEF RatedInv

\* A card whose row could not be written.
LEMMA CardKeeps ==
  ASSUME RatedInv, NEW k \in Tickets, UNCHANGED <<queue, ratings, now>>,
         cards' = Append(cards, [ticket |-> k, row |-> 0]), Fault
  PROVE  RatedInv'
<1>1. /\ cards \in Seq(Shown) /\ queue \in Seq(Rows)
      /\ Len(queue) \in Nat /\ Len(cards) \in Nat
      /\ DOMAIN cards = 1 .. Len(cards)
      /\ [ticket |-> k, row |-> 0] \in Shown
  BY TypeFacts, ShownFields DEF RatedInv
<1>2. /\ cards' \in Seq(Shown)
      /\ Len(cards') = Len(cards) + 1
      /\ \A c \in DOMAIN cards : cards'[c] = cards[c]
      /\ \A c \in DOMAIN cards' : c \notin DOMAIN cards => cards'[c].row = 0
  BY <1>1
<1>3. ratings \in Seq(Given(Len(cards'), Len(queue)))
  <2>1. TypeOK /\ Len(cards) <= Len(cards') /\ Len(cards') \in Nat
    BY <1>1, <1>2 DEF RatedInv
  <2> QED
    BY <1>1, <2>1, RatingsKept
<1>4. TypeOK'
  BY <1>2, <1>3 DEF RatedInv, TypeOK, Fault, Shown, Given
<1>5. CardsHaveRows' /\ ScoresAreRatings'
  BY <1>2 DEF RatedInv, CardsHaveRows, ScoresAreRatings
<1>6. RatingsNeverGoBack'
  BY <1>2, RatingFields DEF RatedInv, RatingsNeverGoBack
<1> QED
  BY <1>4, <1>5, <1>6 DEF RatedInv

\* The row that a rating goes to is the newest answer of the ticket, or new.
LEMMA RateKeeps ==
  ASSUME RatedInv, NEW c \in DOMAIN cards, Rate(c)
  PROVE  RatedInv'
<1> DEFINE k   == cards[c].ticket
           own == Responses(k)
<1>1. /\ queue \in Seq(Rows) /\ Len(queue) <= MaxRows /\ Len(queue) \in Nat
      /\ cards \in Seq(Shown)
      /\ Len(cards) \in Nat
      /\ DOMAIN queue = 1 .. Len(queue) /\ DOMAIN cards = 1 .. Len(cards)
      /\ MaxRows \in Nat /\ now \in 0 .. Horizon
  BY TypeFacts DEF RatedInv
<1>2. own \subseteq 1 .. Len(queue) /\ k \in Tickets
      /\ \A i \in own : queue[i].ticket = k /\ queue[i].text
  BY <1>1, ShownFields DEF Responses
<1>3. cards[c].row # 0 => cards[c].row \in own
  BY DEF RatedInv, CardsHaveRows, Responses
<1>4. own # {} => Max(own) \in own /\ \A i \in own : Max(own) >= i
  BY <1>1, <1>2, MaxOf
<1>5. PICK row \in Nat : row = RatedRow(own)
  BY <1>1, <1>2, <1>4 DEF RatedRow
<1> HIDE DEF own, k
<1>6. PICK s \in Scores :
        IF own = {} THEN Insert([EmptyRow EXCEPT !.ticket = k, !.score = s])
        ELSE queue' = Scored(row, s)
  BY <1>5 DEF Rate, own, k
<1>7. /\ queue' \in Seq(Rows) /\ Len(queue') <= MaxRows /\ Len(queue) <= Len(queue')
      /\ Len(queue') \in Nat /\ DOMAIN queue' = 1 .. Len(queue')
      /\ row \in 1 .. Len(queue') /\ queue'[row].ticket = k
      /\ \A i \in 1 .. Len(queue) : /\ queue'[i].ticket = queue[i].ticket
                                    /\ queue'[i].text = queue[i].text
      /\ \A i \in 1 .. Len(queue') : i # row =>
           i \in 1 .. Len(queue) /\ queue'[i].score = queue[i].score
      /\ own # {} => row \in own /\ queue'[row].text
  <2>1. CASE own = {}
    <3>1. PICK new : new = [EmptyRow EXCEPT !.ticket = k, !.score = s]
      OBVIOUS
    <3>2. new \in Rows /\ new.ticket = k
      BY <1>1, <1>2, <3>1 DEF EmptyRow, Rows
    <3>3. queue' = Append(queue, new) /\ Len(queue) < MaxRows
      BY <1>6, <2>1, <3>1 DEF Insert
    <3>4. row = Len(queue) + 1
      BY <1>5, <2>1 DEF RatedRow
    <3> QED
      BY <1>1, <2>1, <3>2, <3>3, <3>4
  <2>2. CASE own # {}
    <3>1. row = Max(own)
      BY <1>5, <2>2 DEF RatedRow
    <3>2. row \in own /\ row \in 1 .. Len(queue)
          /\ queue[row].ticket = k /\ queue[row].text
      BY <1>2, <1>4, <2>2, <3>1
    <3>3. PICK new : new = [queue[row] EXCEPT !.score = s]
      OBVIOUS
    <3>4. queue[row] \in Rows
      BY <1>1, <3>2
    <3>5. new \in Rows /\ new.ticket = k /\ new.text
      BY <3>2, <3>3, <3>4 DEF Rows
    <3>6. queue' = [queue EXCEPT ![row] = new]
      BY <1>6, <2>2, <3>3 DEF Scored
    <3>7. queue' \in Seq(Rows) /\ Len(queue') = Len(queue)
          /\ DOMAIN queue' = 1 .. Len(queue')
      BY <1>1, <3>2, <3>5, <3>6
    <3>8. \A i \in 1 .. Len(queue) : queue'[i] = IF i = row THEN new ELSE queue[i]
      BY <1>1, <3>6
    <3>9. \A i \in 1 .. Len(queue) : /\ queue'[i].ticket = queue[i].ticket
                                     /\ queue'[i].text = queue[i].text
      BY <3>2, <3>5, <3>8, <1>1 DEF Rows
    <3>10. \A i \in 1 .. Len(queue') : i # row =>
             i \in 1 .. Len(queue) /\ queue'[i].score = queue[i].score
      BY <3>7, <3>8
    <3>11. row \in 1 .. Len(queue') /\ queue'[row] = new
      BY <3>2, <3>7, <3>8
    <3> QED
      BY <1>1, <3>2, <3>5, <3>7, <3>9, <3>10, <3>11
  <2> QED
    BY <2>1, <2>2
<1>8. own # {} => \A i \in own : row >= i
  BY <1>4, <1>5 DEF RatedRow
<1>9. PICK rating : rating = [card |-> c, row |-> row]
  OBVIOUS
<1>10. ratings' = Append(ratings, rating) /\ UNCHANGED <<cards, now, faults>>
       /\ Len(ratings) < MaxRatings
  BY <1>5, <1>9 DEF Rate, own, k
<1>11. /\ ratings' \in Seq(Given(Len(cards), Len(queue')))
       /\ Len(ratings') = Len(ratings) + 1 /\ Len(ratings) \in Nat
       /\ DOMAIN ratings = 1 .. Len(ratings) /\ DOMAIN ratings' = 1 .. Len(ratings')
       /\ \A r \in DOMAIN ratings : ratings'[r] = ratings[r]
       /\ ratings'[Len(ratings) + 1] = rating
  <2>1. Len(queue') \in Nat /\ Len(cards) \in Nat /\ c \in 1 .. Len(cards)
    BY <1>1, <1>7
  <2>2. ratings \in Seq(Given(Len(cards), Len(queue')))
    <3>1. TypeOK
      BY DEF RatedInv
    <3>2. Len(queue) <= Len(queue') /\ Len(cards) <= Len(cards)
      BY <1>1, <1>7, <2>1
    <3>3. PICK n \in Nat, m \in Nat : n = Len(queue') /\ m = Len(cards)
      BY <2>1
    <3>4. ratings \in Seq(Given(m, n))
      BY <3>1, <3>2, <3>3, RatingsKept
    <3> QED
      BY <3>3, <3>4
  <2>3. rating \in Given(Len(cards), Len(queue'))
    BY <1>7, <1>9, <2>1, GivenFields
  <2> QED
    BY <1>10, <2>2, <2>3
<1>12. TypeOK'
  BY <1>7, <1>10, <1>11 DEF RatedInv, TypeOK, Given
<1>13. CardsHaveRows'
  <2> SUFFICES ASSUME NEW d \in DOMAIN cards, cards[d].row # 0
               PROVE  /\ cards[d].row \in DOMAIN queue'
                      /\ queue'[cards[d].row].ticket = cards[d].ticket
                      /\ queue'[cards[d].row].text
    BY <1>10 DEF CardsHaveRows
  <2>1. cards[d].row \in 1 .. Len(queue)
        /\ queue[cards[d].row].ticket = cards[d].ticket /\ queue[cards[d].row].text
    BY <1>1 DEF RatedInv, CardsHaveRows
  <2> QED
    BY <1>1, <1>7, <2>1
<1>14. ScoresAreRatings'
  <2> SUFFICES ASSUME NEW i \in DOMAIN queue', queue'[i].score # 0
               PROVE  \E r \in DOMAIN ratings' : ratings'[r].row = i
    BY DEF ScoresAreRatings
  <2>1. CASE i = row
    <3>1. Len(ratings) + 1 \in DOMAIN ratings' /\ rating.row = i
      BY <1>9, <1>11, <2>1
    <3> QED
      BY <1>11, <3>1
  <2>2. CASE i # row
    <3>1. i \in DOMAIN queue /\ queue[i].score # 0
      BY <1>1, <1>7, <2>2
    <3>2. PICK r \in DOMAIN ratings : ratings[r].row = i
      BY <3>1 DEF RatedInv, ScoresAreRatings
    <3>3. r \in DOMAIN ratings' /\ ratings'[r].row = i
      BY <1>11, <3>2
    <3> QED
      BY <3>3
  <2> QED
    BY <2>1, <2>2
<1>15. RatingsNeverGoBack'
  <2> SUFFICES ASSUME NEW r \in DOMAIN ratings'
               PROVE  /\ queue'[ratings'[r].row].ticket = cards'[ratings'[r].card].ticket
                      /\ cards'[ratings'[r].card].row # 0 =>
                           /\ ratings'[r].row >= cards'[ratings'[r].card].row
                           /\ queue'[ratings'[r].row].text
    BY DEF RatingsNeverGoBack
  <2>1. CASE r \in DOMAIN ratings
    <3>1. ratings[r].card \in DOMAIN cards /\ ratings[r].row \in 1 .. Len(queue)
      BY <1>1, <2>1, RatingFields DEF RatedInv
    <3>2. /\ queue[ratings[r].row].ticket = cards[ratings[r].card].ticket
          /\ cards[ratings[r].card].row # 0 =>
               ratings[r].row >= cards[ratings[r].card].row /\ queue[ratings[r].row].text
      BY <2>1 DEF RatedInv, RatingsNeverGoBack
    <3>3. ratings'[r] = ratings[r] /\ cards' = cards
      BY <1>10, <1>11, <2>1
    <3> QED
      BY <1>7, <3>1, <3>2, <3>3
  <2>2. CASE r \notin DOMAIN ratings
    <3>1. ratings'[r] = rating /\ rating.card = c /\ rating.row = row
      BY <1>9, <1>11, <2>2
    <3>2. cards[c].row # 0 => own # {} /\ row >= cards[c].row
      BY <1>3, <1>8
    <3>3. cards' = cards /\ cards[c].ticket = k
      BY <1>10 DEF k
    <3> QED
      BY <1>7, <3>1, <3>2, <3>3
  <2> QED
    BY <2>1, <2>2
<1> QED
  BY <1>12, <1>13, <1>14, <1>15 DEF RatedInv

LEMMA RatedNext == RatedInv /\ [Next]_vars => RatedInv'
<1> SUFFICES ASSUME RatedInv, [Next]_vars PROVE RatedInv'
  OBVIOUS
<1>1. /\ now \in 0 .. Horizon /\ faults \in 0 .. MaxFaults
      /\ MaxFaults \in Nat /\ Horizon \in Nat
  BY DEF RatedInv, TypeOK
<1>2. PICK empty \in Rows : empty = EmptyRow
  BY <1>1 DEF EmptyRow, Rows
<1>3. empty.score = 0
  BY <1>2 DEF EmptyRow
<1>4. ASSUME NEW k \in Tickets, NEW failed \in Rules \cup {"none"}, Logged(k, failed)
      PROVE  \E row \in Rows : /\ Insert(row) /\ row.score = 0
                               /\ row.ticket = k /\ row.text
  <2>1. PICK row : row = [empty EXCEPT !.ticket = k, !.text = TRUE, !.failed = failed]
    OBVIOUS
  <2>2. row \in Rows /\ row.score = 0 /\ row.ticket = k /\ row.text
    BY <1>3, <2>1 DEF Rows
  <2>3. Insert(row)
    BY <1>2, <1>4, <2>1 DEF Logged
  <2> QED
    BY <2>2, <2>3
<1>5. ASSUME NEW k \in Tickets, AnswerCard(k) PROVE RatedInv'
  <2>1. UNCHANGED <<ratings, now>>
    BY <1>5 DEF AnswerCard
  <2>2. CASE /\ Logged(k, "none") /\ UNCHANGED faults
             /\ cards' = Append(cards, [ticket |-> k, row |-> Len(queue) + 1])
    BY <1>1, <1>4, <2>1, <2>2, InsertKeeps
  <2>3. CASE Fault /\ UNCHANGED queue /\ cards' = Append(cards, [ticket |-> k, row |-> 0])
    BY <2>1, <2>3, CardKeeps
  <2> QED
    BY <1>5, <2>2, <2>3 DEF AnswerCard
<1>6. ASSUME NEW k \in Tickets, AnswerExhausted(k) \/ AnswerInWords(k) PROVE RatedInv'
  <2>1. PICK failed \in Rules \cup {"none"} : Logged(k, failed)
    BY <1>6 DEF AnswerExhausted, AnswerInWords
  <2>2. UNCHANGED <<cards, ratings, now, faults>>
    BY <1>6 DEF AnswerExhausted, AnswerInWords
  <2> QED
    BY <1>1, <1>4, <2>1, <2>2, InsertKeeps
<1>7. ASSUME NEW k \in Tickets, AskFollowup(k) PROVE RatedInv'
  <2>1. PICK row : row = [empty EXCEPT !.ticket = k]
    OBVIOUS
  <2>2. row \in Rows /\ row.score = 0
    BY <1>3, <2>1 DEF Rows
  <2>3. Insert(row) /\ UNCHANGED <<cards, ratings, now, faults>>
    BY <1>2, <1>7, <2>1 DEF AskFollowup
  <2> QED
    BY <1>1, <2>2, <2>3, InsertKeeps
<1>8. ASSUME NEW mode \in Modes, SaveAnnotation(mode) PROVE RatedInv'
  <2>1. PICK row : row = [empty EXCEPT !.text = TRUE, !.mode = mode]
    OBVIOUS
  <2>2. row \in Rows /\ row.score = 0
    BY <1>3, <2>1 DEF Rows
  <2>3. Insert(row) /\ UNCHANGED <<cards, ratings, now, faults>>
    BY <1>2, <1>8, <2>1 DEF SaveAnnotation
  <2> QED
    BY <1>1, <2>2, <2>3, InsertKeeps
<1>9. CASE NextDay \/ UNCHANGED vars
  <2>1. UNCHANGED <<queue, cards, ratings, faults>> /\ now' \in 0 .. Horizon
    BY <1>1, <1>9 DEF NextDay, vars
  <2> QED
    BY <2>1 DEF RatedInv, TypeOK, CardsHaveRows, ScoresAreRatings, RatingsNeverGoBack
<1> QED
  BY <1>5, <1>6, <1>7, <1>8, <1>9, RateKeeps DEF Next

LEMMA RatedInvariant == Spec => []RatedInv
<1> QED
  BY RatedInit, RatedNext, PTL DEF Spec

\* Rows, cards and ratings of any number keep their types: every rating is of a
\* card that was shown and went to a row that exists.
THEOREM TypeCorrectness == Spec => []TypeOK
<1>1. RatedInv => TypeOK
  BY DEF RatedInv
<1> QED
  BY <1>1, RatedInvariant, PTL

\* However answers, questions of the follow-up job, annotations and ratings of any
\* number of cards follow each other: the rating of a logged card goes to its own
\* row or to a later answer of the same ticket.
THEOREM RatingsGoForward == Spec => []RatingsNeverGoBack
<1>1. RatedInv => RatingsNeverGoBack
  BY DEF RatedInv
<1> QED
  BY <1>1, RatedInvariant, PTL

\* Whatever the window, every scored row in it has a rating of its own.
THEOREM RatingsCountOnce == Spec => []NoRatingCountsTwice
<1> QED
  BY RatedInvariant, RatedImplies, PTL
=============================================================================
