----------------------------- MODULE EvalQueue -----------------------------
(***************************************************************************)
(* The table eval_queue as its writers share it and its readers see it:    *)
(* chat turns log their answers, customers rate cards (learning/feedback), *)
(* reviewers annotate (learning/error_discovery), jobs leave rows of their *)
(* own, and the admin pages aggregate the rows of a sliding window         *)
(* (learning/error_discovery, learning/admin_api).                         *)
(*                                                                         *)
(* Rows are never deleted; the index of a row is its place in the order of *)
(* created_at.  Time passes in days.                                       *)
(***************************************************************************)
EXTENDS Naturals, FiniteSetsExt, SequencesExt

CONSTANTS
  Tickets,
  Rules,      \* the policy rules a card can fail
  Scores,     \* helpful_score
  Modes,      \* the failure modes a reviewer can name
  Days,       \* the window of the error discovery pages
  TraceLimit, \* how many traces a page reads
  Count,      \* how many samples a reviewer asks for
  MaxRows, MaxRatings, MaxFaults, Horizon,  \* bounds
  Null

ASSUME NullAssumption   == Null \notin Tickets \cup Modes
ASSUME ScoresAssumption == Scores \subseteq 1 .. 3
ASSUME BoundsAssumption ==
  {Days, TraceLimit, Count, MaxRows, MaxRatings, MaxFaults, Horizon} \subseteq Nat

VARIABLES
  queue,    \* eval_queue
  cards,    \* the cards shown, each with its feedback buttons
  ratings,  \* the ratings given: the card rated, and the row its score went to
  now,
  faults

vars == <<queue, cards, ratings, now, faults>>

-----------------------------------------------------------------------------
\* text: there is a response_text.  failed: the first rule that policy_checks_json
\* reports as failed, "none" for a card that passed and for any other answer,
\* Null without policy_checks_json.  mode: failure_category, as far as it is an
\* annotation.
Rows == [ticket : Tickets \cup {Null}, text : BOOLEAN,
         failed : Rules \cup {"none", Null},
         score  : Scores \cup {0}, mode : Modes \cup {Null}, created : 0 .. Horizon]

EmptyRow == [ticket |-> Null, text |-> FALSE, failed |-> Null,
             score |-> 0, mode |-> Null, created |-> now]

TypeOK ==
  /\ queue   \in Seq(Rows) /\ Len(queue) <= MaxRows
  /\ cards   \in Seq([ticket : Tickets, row : 0 .. MaxRows])
  /\ ratings \in Seq([card : 1 .. Len(cards), row : 1 .. Len(queue)])
  /\ Len(ratings) <= MaxRatings
  /\ now     \in 0 .. Horizon
  /\ faults  \in 0 .. MaxFaults

Init ==
  /\ queue   = <<>>
  /\ cards   = <<>>
  /\ ratings = <<>>
  /\ now     = 0
  /\ faults  = 0

Insert(row) ==
  /\ Len(queue) < MaxRows
  /\ queue' = Append(queue, row)

Fault ==
  /\ faults < MaxFaults
  /\ faults' = faults + 1

Since(days) == {i \in DOMAIN queue : queue[i].created + days >= now}

Windowed == {i \in Since(Days) : queue[i].failed # Null}

\* get_traces: the newest of the window.
Traces == {i \in Windowed : Cardinality({j \in Windowed : j > i}) < TraceLimit}

-----------------------------------------------------------------------------
(* The writers.                                                            *)

Logged(k, failed) ==
  Insert([EmptyRow EXCEPT !.ticket = k, !.text = TRUE, !.failed = failed])

\* A card that passed the policy checks.  Logging is best effort: when the
\* insert fails, the card has no row.
AnswerCard(k) ==
  /\ \/ /\ Logged(k, "none")
        /\ cards' = Append(cards, [ticket |-> k, row |-> Len(queue) + 1])
        /\ UNCHANGED faults
     \/ /\ Fault
        /\ cards' = Append(cards, [ticket |-> k, row |-> 0])
        /\ UNCHANGED queue
  /\ UNCHANGED <<ratings, now>>

\* The third card failed a rule as well: the checks are logged, no card is shown.
AnswerExhausted(k) ==
  /\ \E rule \in Rules : Logged(k, rule)
  /\ UNCHANGED <<cards, ratings, now, faults>>

\* Any other answer; nothing was checked against the rules of cards.
AnswerInWords(k) ==
  /\ Logged(k, "none")
  /\ UNCHANGED <<cards, ratings, now, faults>>

\* The follow-up job asks about the ticket: a row without a response.
AskFollowup(k) ==
  /\ Insert([EmptyRow EXCEPT !.ticket = k])
  /\ UNCHANGED <<cards, ratings, now, faults>>

\* Mutant: any row of the ticket will do.
RowsOf(k) == {i \in DOMAIN queue : queue[i].ticket = k}

\* The rows that submit_feedback looks for.
Responses(k) == {i \in DOMAIN queue : queue[i].ticket = k /\ queue[i].text}

\* Mutant: the update is by ticket.
ScoredByTicket(i, s) ==
  [j \in DOMAIN queue |->
     IF queue[j].ticket = queue[i].ticket THEN [queue[j] EXCEPT !.score = s]
     ELSE queue[j]]

Scored(i, s) == [queue EXCEPT ![i].score = s]

\* Mutant: a ticket without a response has no row to rate.
RatedRowIfAny(own) == IF own = {} THEN 0 ELSE Max(own)

RatedRow(own) == IF own = {} THEN Len(queue) + 1 ELSE Max(own)

\* submit_feedback, for any card still on the customer's page.
Rate(c) ==
  LET k   == cards[c].ticket
      own == Responses(k)
  IN /\ Len(ratings) < MaxRatings
     /\ \E s \in Scores :
          IF own = {} THEN Insert([EmptyRow EXCEPT !.ticket = k, !.score = s])
          ELSE queue' = Scored(RatedRow(own), s)
     /\ ratings' = Append(ratings, [card |-> c, row |-> RatedRow(own)])
     /\ UNCHANGED <<cards, now, faults>>

\* save_annotation, of a trace that a page shows.  The id of the trace is its
\* response_text; it has neither a ticket nor policy checks.
SaveAnnotation(mode) ==
  /\ Traces # {}
  /\ Insert([EmptyRow EXCEPT !.text = TRUE, !.mode = mode])
  /\ UNCHANGED <<cards, ratings, now, faults>>

NextDay ==
  /\ now < Horizon
  /\ now' = now + 1
  /\ UNCHANGED <<queue, cards, ratings, faults>>

-----------------------------------------------------------------------------
(* The readers.                                                            *)

\* The cluster that select_review_samples puts a trace in: the first rule that
\* it failed, a low score, or none of both.  (The cluster of unscored failures
\* has no traces: a failed trace has failed a rule.)
Cluster(i) ==
  IF queue[i].failed # "none" THEN queue[i].failed
  ELSE IF queue[i].score = 1 THEN "low_score" ELSE "passing"

ClusterPicks == (Count * 65) \div 100
RandomPicks  == Count - ClusterPicks

FailingClusters == {Cluster(i) : i \in Traces} \ {"passing"}

Members(key) == {i \in Traces : Cluster(i) = key}

\* Mutant: a share can be zero.
ShareOfPicks(n) == ClusterPicks \div n

PerCluster(n) == Max({1, ClusterPicks \div n})

\* The list is cut to Count, so of more clusters than that, those with the newest
\* traces remain.
SampledClusters ==
  LET newer(key) == {other \in FailingClusters : Max(Members(other)) > Max(Members(key))}
  IN  {key \in FailingClusters : Cardinality(newer(key)) < Count}

Fewest(S, n) == Min({n, Cardinality(S)})

\* select_review_samples: picks of each cluster, then of the rest, both at random.
\* The order of the list is left out.
Samples ==
  LET share == PerCluster(Cardinality(FailingClusters))
      picks == {P \in SUBSET UNION {Members(key) : key \in SampledClusters} :
                  \A key \in SampledClusters :
                    Cardinality(P \cap Members(key)) = Fewest(Members(key), share)}
      room(P) == Min({RandomPicks, Count - Cardinality(P)})
      rest(P) == kSubset(Fewest(Traces \ P, room(P)), Traces \ P)
  IN  UNION {{P \cup R : R \in rest(P)} : P \in picks}

\* get_convergence.
Annotations == {i \in Since(Days) : queue[i].mode # Null}

ModesSeen == {queue[i].mode : i \in Annotations}

DaysOf(mode) == {queue[i].created : i \in {j \in Annotations : queue[j].mode = mode}}

\* Mutant: a later annotation moves the day.
LastSeen(mode) == Max(DaysOf(mode))

FirstSeen(mode) == Min(DaysOf(mode))

NewModes(day) == Cardinality({m \in ModesSeen : FirstSeen(m) = day})

DaysAnnotated == {queue[i].created : i \in Annotations}

\* The days in their order.
AnnotationDays ==
  CHOOSE s \in [1 .. Cardinality(DaysAnnotated) -> DaysAnnotated] :
    \A m, n \in DOMAIN s : m < n => s[m] < s[n]

Timeline ==
  LET cumulative[n \in 0 .. Len(AnnotationDays)] ==
        IF n = 0 THEN 0 ELSE cumulative[n - 1] + NewModes(AnnotationDays[n])
  IN  [n \in DOMAIN AnnotationDays |->
         [date        |-> AnnotationDays[n],
          annotations |-> Cardinality({i \in Annotations :
                                         queue[i].created = AnnotationDays[n]}),
          cumulative  |-> cumulative[n]]]

\* The scores that get_metrics takes of the rows of a day, and those that
\* get_failure_clusters takes of its traces.
ScoredRows(rows) == {i \in rows : queue[i].score # 0}

-----------------------------------------------------------------------------
Next ==
  \/ \E k \in Tickets : \/ AnswerCard(k) \/ AnswerExhausted(k) \/ AnswerInWords(k)
                        \/ AskFollowup(k)
  \/ \E c \in DOMAIN cards : Rate(c)
  \/ \E mode \in Modes : SaveAnnotation(mode)
  \/ NextDay

Spec == Init /\ [][Next]_vars

-----------------------------------------------------------------------------
(* Properties.                                                             *)

\* submit_feedback knows the ticket only.  The rating of a card whose answer was
\* logged still never goes to an older row, and goes to another row only if the
\* ticket was answered once more since: neither questions of the follow-up job nor
\* annotations attract it.
RatingsNeverGoBack ==
  \A r \in DOMAIN ratings :
    LET card == cards[ratings[r].card]
        row  == ratings[r].row
    IN  /\ queue[row].ticket = card.ticket
        /\ card.row # 0 => row >= card.row /\ queue[row].text

\* In the score distributions of the metrics and of the discovery pages, each
\* row counts for one rating that was given for it: customers are not multiplied
\* by the rows that their ticket has.
NoRatingCountsTwice ==
  \A i \in ScoredRows(Since(1)) \cup ScoredRows(Traces) :
    \E r \in DOMAIN ratings : ratings[r].row = i

\* A reviewer who asks for at least as many samples as there are kinds of
\* failure among the newest TraceLimit traces of the window sees each of these
\* kinds, and never more than asked for, however the window slides and whatever is
\* picked at random.  A kind that has older traces only is not among the clusters.
EveryClusterSampled ==
  \A sample \in Samples :
    /\ Cardinality(sample) <= Count
    /\ Cardinality(FailingClusters) <= Count =>
         \A key \in FailingClusters : Members(key) \cap sample # {}

\* The timeline of the convergence page counts every annotation of the window
\* once and no mode twice, in whichever order the rows are read: up to each day,
\* the modes counted are those that were annotated by then.
TimelineCountsModes ==
  /\ FoldLeft(LAMBDA sum, day : sum + day.annotations, 0, Timeline)
       = Cardinality(Annotations)
  /\ \A n \in DOMAIN Timeline :
       Timeline[n].cumulative = Cardinality(
         {queue[i].mode : i \in {j \in Annotations :
                                   queue[j].created <= Timeline[n].date}})
=============================================================================
