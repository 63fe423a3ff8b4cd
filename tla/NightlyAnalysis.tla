-------------------------- MODULE NightlyAnalysis --------------------------
(***************************************************************************)
(* The nightly analysis: it reads the traces of the last 24 hours that it  *)
(* has not checkpointed today, groups their policy failures by pattern,    *)
(* has flagged traces judged, and turns every pattern seen often enough    *)
(* into a suggestion.  Its runs are requests of the two admin endpoints:   *)
(* the job of the scheduler creates its task on a worker thread, which has *)
(* no event loop, and so never runs it.                                    *)
(*                                                                         *)
(* A run holds the event loop from its start to its first call of a model; *)
(* two runs, chat turns and feedback interleave at those calls.            *)
(*                                                                         *)
(* No row has a human_review_label: the schema has no such column, and     *)
(* annotate_trace, which writes it, fails.                                 *)
(***************************************************************************)
EXTENDS Naturals, Sequences, FiniteSetsExt

CONSTANTS
  Tickets,
  Patterns,    \* "rule:reason" of a failed policy check
  Runs,        \* requests that can be in progress at once
  MinSizes,    \* min_cluster_size of the endpoints
  MaxJudged,   \* 20
  Day,         \* a day on the clock
  Horizon, MaxTraces, MaxFaults,   \* bounds of the exploration
  MaxRuns      \* bound: no run starts after that many rows of runs and of other jobs

ASSUME MinSizesAssumption == MinSizes \subseteq Nat \ {0} /\ MinSizes # {}
ASSUME DayAssumption == Day \in Nat \ {0} /\ MaxJudged \in Nat
ASSUME BoundsAssumption ==
  /\ Horizon \in Nat /\ MaxTraces \in Nat /\ MaxRuns \in Nat /\ MaxFaults \in Nat

VARIABLES
  traces,       \* the eval_queue rows of chat turns, in the order of insertion
  notes,        \* its rows with a complaint and no response text
  batches,      \* its checkpoint rows, together as the runs wrote them
  texts,        \* when its rows with a free text and no ticket were written
  suggestions,  \* the policy_suggestions of the analysis, in that order
  runs,         \* the runs in progress
  now,
  faults        \* failures so far

rows == <<traces, notes, batches, texts>>
vars == <<rows, suggestions, runs, now, faults>>

-----------------------------------------------------------------------------
Ids == DOMAIN traces

\* flagged: a score of 1 or a free text.
TraceRows == [ticket : Tickets, failed : SUBSET Patterns, flagged : BOOLEAN,
              created : 0 .. Horizon]

SuggestionRows == [pattern : Patterns, sources : SUBSET (1 .. MaxTraces)]

\* judge: the traces still to be judged; suggest: the patterns still to be
\* made suggestions of; clusters: per pattern, the traces that failed on it.
IdleRun == [on |-> FALSE, judge |-> {}, suggest |-> {},
            clusters |-> [p \in Patterns |-> {}]]

RunStates ==
  {run \in [on : BOOLEAN, judge : SUBSET (1 .. MaxTraces), suggest : SUBSET Patterns,
             clusters : [Patterns -> SUBSET (1 .. MaxTraces)]] :
     run.on <=> run.judge # {} \/ run.suggest # {}}

TypeOK ==
  /\ traces      \in Seq(TraceRows) /\ Len(traces) <= MaxTraces
  /\ notes       \subseteq [ticket : Tickets, created : 0 .. Horizon]
  /\ batches     \in Seq([traces : SUBSET (1 .. MaxTraces), created : 0 .. Horizon])
  /\ texts       \subseteq 0 .. Horizon
  /\ suggestions \in Seq(SuggestionRows)
  /\ runs        \in [Runs -> RunStates]
  /\ now         \in 0 .. Horizon
  /\ faults      \in 0 .. MaxFaults

Init ==
  /\ traces      = <<>>
  /\ notes       = {}
  /\ batches     = <<>>
  /\ texts       = {}
  /\ suggestions = <<>>
  /\ runs        = [r \in Runs |-> IdleRun]
  /\ now         = 0
  /\ faults      = 0

-----------------------------------------------------------------------------
(* The rows that the analysis reads.                                       *)

\* A chat turn logs its answer: of a card, with the checks that it failed; of
\* any other answer, without checks.
LogTrace ==
  /\ Len(traces) < MaxTraces
  /\ \E k \in Tickets, failed \in SUBSET Patterns :
       traces' = Append(traces, [ticket |-> k, failed |-> failed, flagged |-> FALSE,
                                 created |-> now])
  /\ UNCHANGED <<notes, batches, texts, suggestions, runs, now, faults>>

\* The customer's feedback replaces that on the newest answer of the ticket,
\* or becomes a row of its own.
SubmitFeedback ==
  \E k \in Tickets, complaint \in BOOLEAN :
    LET own == {i \in Ids : traces[i].ticket = k} IN
    /\ IF own # {}
       THEN /\ traces' = [traces EXCEPT ![Max(own)].flagged = complaint]
            /\ UNCHANGED notes
       ELSE /\ notes' = IF complaint
                        THEN notes \cup {[ticket |-> k, created |-> now]} ELSE notes
            /\ UNCHANGED traces
    /\ UNCHANGED <<batches, texts, suggestions, runs, now, faults>>

\* A reviewer's annotation, or a job that fails: a free text without a ticket.
LogText ==
  /\ texts = {}   \* bound: one is as good as several
  /\ texts' = texts \cup {now}
  /\ UNCHANGED <<traces, notes, batches, suggestions, runs, now, faults>>

-----------------------------------------------------------------------------
(* The start of a run: what it loads, and what it does with it before it   *)
(* first waits.                                                            *)

Recent(created) == created + Day >= now

Today(created) == created \div Day = now \div Day

Loaded == {i \in Ids : Recent(traces[i].created)}

\* Mutant: a checkpoint does not count before the clock has moved on.
ProcessedBefore ==
  UNION {batches[b].traces : b \in {c \in DOMAIN batches :
           Today(batches[c].created) /\ batches[c].created < now}}

Processed ==
  UNION {batches[b].traces : b \in {c \in DOMAIN batches : Today(batches[c].created)}}

NewTraces == Loaded \ Processed

\* The tickets that customers have complained about.
FlaggedTickets ==
  {traces[i].ticket : i \in {j \in Loaded : traces[j].flagged}} \cup
  {n.ticket : n \in {m \in notes : Recent(m.created)}}

\* Checkpoints and the rows without a ticket carry a free text as well.
FlaggedFeedback ==
  \/ FlaggedTickets # {}
  \/ \E b \in DOMAIN batches : batches[b].traces # {} /\ Recent(batches[b].created)
  \/ \E t \in texts : Recent(t)

FlaggedTraces == {i \in Loaded : traces[i].ticket \in FlaggedTickets}

\* Mutant: the failures of processed traces are counted again.
ClustersOfAll == [p \in Patterns |-> {i \in Loaded : p \in traces[i].failed}]

Clusters == [p \in Patterns |-> {i \in NewTraces : p \in traces[i].failed}]

\* Mutant: a run with nothing left to do never ends.
ContinueForEver(r, run) == runs' = [runs EXCEPT ![r] = run]

\* The run goes on with what is left to do, or ends.
Continue(r, run) ==
  runs' = [runs EXCEPT ![r] = IF run.judge = {} /\ run.suggest = {} THEN IdleRun ELSE run]

CanStart(r) ==
  /\ ~runs[r].on
  /\ Len(batches) + Cardinality(texts) < MaxRuns

StopAtOnce(r) ==
  /\ CanStart(r)
  /\ NewTraces = {} /\ ~FlaggedFeedback
  /\ texts' = texts \cup {now}
  /\ UNCHANGED <<traces, notes, batches, suggestions, runs, now, faults>>

\* The traces whose checkpoint could be written: an insert that fails is
\* ignored.
Checkpoint(saved) ==
  batches' = Append(batches, [traces |-> saved, created |-> now])

StartRun(r) ==
  /\ CanStart(r)
  /\ NewTraces # {} \/ FlaggedFeedback
  /\ \E saved \in SUBSET NewTraces :
       /\ Checkpoint(saved)
       /\ saved = NewTraces \/ faults < MaxFaults
       /\ faults' = IF saved = NewTraces THEN faults ELSE faults + 1
  /\ \E judged \in SUBSET FlaggedTraces, min \in MinSizes :
       /\ judged = FlaggedTraces \/ Cardinality(judged) = MaxJudged
       /\ Cardinality(judged) <= MaxJudged
       /\ Continue(r, [on |-> TRUE, judge |-> judged, clusters |-> Clusters,
            suggest |-> {p \in Patterns : Cardinality(Clusters[p]) >= min}])
  /\ UNCHANGED <<traces, notes, texts, suggestions, now>>

-----------------------------------------------------------------------------
(* A run at its calls of the models.                                       *)

Running(r) == runs[r].on

\* The judge's answer, if it gives one, is stored in the trace.
Judge(r) ==
  /\ Running(r)
  /\ \E i \in runs[r].judge : Continue(r, [runs[r] EXCEPT !.judge = @ \ {i}])
  /\ UNCHANGED <<rows, suggestions, now, faults>>

Suggested(r, p) ==
  [pattern |-> p, sources |-> runs[r].clusters[p]]

\* Mutant: the run ends with its first suggestion.
SuggestOne(r) ==
  /\ Running(r) /\ runs[r].judge = {}
  /\ \E p \in runs[r].suggest : suggestions' = Append(suggestions, Suggested(r, p))
  /\ runs' = [runs EXCEPT ![r] = IdleRun]
  /\ UNCHANGED <<rows, now, faults>>

Suggest(r) ==
  /\ Running(r) /\ runs[r].judge = {}
  /\ \E p \in runs[r].suggest :
       /\ suggestions' = Append(suggestions, Suggested(r, p))
       /\ Continue(r, [runs[r] EXCEPT !.suggest = @ \ {p}])
  /\ UNCHANGED <<rows, now, faults>>

Fault ==
  /\ faults < MaxFaults
  /\ faults' = faults + 1
  /\ UNCHANGED <<traces, notes, texts, suggestions, now>>

\* The model gives no suggestion: the pattern is passed over.
NoSuggestion(r) ==
  /\ Running(r) /\ runs[r].judge = {}
  /\ \E p \in runs[r].suggest : Continue(r, [runs[r] EXCEPT !.suggest = @ \ {p}])
  /\ Fault
  /\ UNCHANGED batches

\* A call to the database raises, or the suggestion lacks a field.
RunFails(r) ==
  /\ Running(r)
  /\ runs' = [runs EXCEPT ![r] = IdleRun]
  /\ Fault
  /\ UNCHANGED batches

\* A restart, also of a run that is still writing checkpoints.
Restart ==
  /\ runs' = [r \in Runs |-> IdleRun]
  /\ \/ UNCHANGED batches
     \/ /\ \E r \in Runs : CanStart(r)
        /\ \E saved \in SUBSET NewTraces : Checkpoint(saved)
  /\ Fault

Tick ==
  /\ now < Horizon
  /\ now' = now + 1
  /\ UNCHANGED <<rows, suggestions, runs, faults>>

-----------------------------------------------------------------------------
Next ==
  \/ LogTrace \/ SubmitFeedback \/ LogText \/ Restart \/ Tick
  \/ \E r \in Runs : \/ StopAtOnce(r) \/ StartRun(r) \/ Judge(r) \/ Suggest(r)
                     \/ NoSuggestion(r) \/ RunFails(r)

Spec == Init /\ [][Next]_vars

-----------------------------------------------------------------------------
(* Properties.                                                             *)

\* A trace is checkpointed at most once a day, however runs overlap, fail or
\* are cut short.
OneCheckpointADay ==
  \A b, c \in DOMAIN batches :
    b # c /\ batches[b].created \div Day = batches[c].created \div Day =>
      batches[b].traces \cap batches[c].traces = {}

\* As long as nothing fails, a failure is counted for a suggestion no more
\* often than its trace was checkpointed: overlapping runs of one day never
\* count it twice.
CountedOncePerCheckpoint ==
  faults = 0 => \A i \in Ids, p \in Patterns :
    Cardinality({s \in DOMAIN suggestions :
                   suggestions[s].pattern = p /\ i \in suggestions[s].sources})
      <= Cardinality({b \in DOMAIN batches : i \in batches[b].traces})

\* As long as nothing fails, a pattern that one run found often enough for
\* every threshold becomes a suggestion with all its traces: no step of
\* another run, no feedback and no midnight in between makes it lost.
FoundIsSuggested ==
  faults = 0 => \A b \in DOMAIN batches, p \in Patterns :
    LET found == {i \in batches[b].traces : p \in traces[i].failed} IN
    (\A min \in MinSizes : Cardinality(found) >= min) =>
      \/ \E s \in DOMAIN suggestions :
           suggestions[s].pattern = p /\ suggestions[s].sources = found
      \/ \E r \in Runs : p \in runs[r].suggest /\ runs[r].clusters[p] = found
=============================================================================
