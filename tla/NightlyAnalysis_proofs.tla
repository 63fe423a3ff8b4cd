----------------------- MODULE NightlyAnalysis_proofs -----------------------
(***************************************************************************)
(* Theorems about NightlyAnalysis for every set of tickets, patterns and   *)
(* runs, and for any number of traces, runs and failures.                  *)
(***************************************************************************)
EXTENDS NightlyAnalysis, FiniteSetTheorems, TLAPS

USE MinSizesAssumption, DayAssumption, BoundsAssumption

-----------------------------------------------------------------------------
(* Type correctness, which is inductive as it stands.                      *)

Batches == [traces : SUBSET (1 .. MaxTraces), created : 0 .. Horizon]

LEMMA LoadedTypes ==
  ASSUME TypeOK
  PROVE  /\ Ids \in SUBSET (1 .. MaxTraces)
         /\ Loaded \subseteq Ids /\ NewTraces \subseteq Loaded
         /\ FlaggedTraces \subseteq Loaded
         /\ Clusters \in [Patterns -> SUBSET (1 .. MaxTraces)]
<1>1. Ids \in SUBSET (1 .. MaxTraces)
  BY DEF TypeOK, Ids
<1>2. Loaded \subseteq Ids /\ NewTraces \subseteq Loaded /\ FlaggedTraces \subseteq Loaded
  BY DEF Loaded, NewTraces, FlaggedTraces
<1>3. \A p \in Patterns : {i \in NewTraces : p \in traces[i].failed}
                            \in SUBSET (1 .. MaxTraces)
  BY <1>1, <1>2
<1> QED
  BY <1>1, <1>2, <1>3 DEF Clusters

\* A run that is not idle, whether or not it has something left to do.
Going == [on : {TRUE}, judge : SUBSET (1 .. MaxTraces), suggest : SUBSET Patterns,
          clusters : [Patterns -> SUBSET (1 .. MaxTraces)]]

\* A run that goes on, or ends, is in one of its states.
LEMMA ContinueType ==
  ASSUME TypeOK, NEW r \in Runs, NEW run \in Going, Continue(r, run)
  PROVE  runs' \in [Runs -> RunStates]
<1>1. IdleRun \in RunStates
  BY DEF IdleRun, RunStates
<1>2. ASSUME ~(run.judge = {} /\ run.suggest = {}) PROVE run \in RunStates
  BY <1>2 DEF RunStates, Going
<1>3. (IF run.judge = {} /\ run.suggest = {} THEN IdleRun ELSE run) \in RunStates
  BY <1>1, <1>2
<1> QED
  BY <1>3 DEF Continue, TypeOK

\* The steps of a run take something from its work.
LEMMA RunningType ==
  ASSUME TypeOK, NEW r \in Runs, Running(r)
  PROVE  /\ runs[r] \in Going
         /\ \A i : [runs[r] EXCEPT !.judge = @ \ {i}] \in Going
         /\ \A p : [runs[r] EXCEPT !.suggest = @ \ {p}] \in Going
<1>1. runs[r] \in RunStates
  BY DEF TypeOK
<1>2. runs[r] \in Going
  BY <1>1 DEF RunStates, Running, Going
<1>3. ASSUME NEW rest \in SUBSET (1 .. MaxTraces)
      PROVE  [runs[r] EXCEPT !.judge = rest] \in Going
  BY <1>2 DEF Going
<1>4. ASSUME NEW rest \in SUBSET Patterns
      PROVE  [runs[r] EXCEPT !.suggest = rest] \in Going
  BY <1>2 DEF Going
<1>5. /\ \A i : runs[r].judge \ {i} \in SUBSET (1 .. MaxTraces)
      /\ \A p : runs[r].suggest \ {p} \in SUBSET Patterns
  BY <1>2 DEF Going
<1> QED
  BY <1>2, <1>3, <1>4, <1>5

LEMMA CheckpointType ==
  ASSUME TypeOK, NEW saved \in SUBSET NewTraces, Checkpoint(saved)
  PROVE  batches' \in Seq(Batches)
<1>1. [traces |-> saved, created |-> now] \in Batches
  BY LoadedTypes DEF Batches, TypeOK
<1> QED
  BY <1>1 DEF Checkpoint, TypeOK, Batches

LEMMA RunsEnd == [r \in Runs |-> IdleRun] \in [Runs -> RunStates]
BY DEF IdleRun, RunStates

LEMMA TypeInit == Init => TypeOK
BY RunsEnd DEF Init, TypeOK

LEMMA TypeNext == TypeOK /\ [Next]_vars => TypeOK'
<1> SUFFICES ASSUME TypeOK, [Next]_vars PROVE TypeOK'
  OBVIOUS
<1>1. CASE LogTrace
  <2>1. PICK k \in Tickets, failed \in SUBSET Patterns :
          traces' = Append(traces, [ticket |-> k, failed |-> failed, flagged |-> FALSE,
                                    created |-> now])
    BY <1>1 DEF LogTrace
  <2>2. [ticket |-> k, failed |-> failed, flagged |-> FALSE, created |-> now]
          \in TraceRows
    BY DEF TraceRows, TypeOK
  <2>3. traces' \in Seq(TraceRows) /\ Len(traces') <= MaxTraces
    BY <1>1, <2>1, <2>2 DEF LogTrace, TypeOK
  <2> QED
    BY <1>1, <2>3 DEF LogTrace, TypeOK
<1>2. CASE SubmitFeedback
  <2>1. PICK k \in Tickets, complaint \in BOOLEAN :
          LET own == {i \in Ids : traces[i].ticket = k} IN
          /\ IF own # {}
             THEN /\ traces' = [traces EXCEPT ![Max(own)].flagged = complaint]
                  /\ UNCHANGED notes
             ELSE /\ notes' = IF complaint
                              THEN notes \cup {[ticket |-> k, created |-> now]} ELSE notes
                  /\ UNCHANGED traces
          /\ UNCHANGED <<batches, texts, suggestions, runs, now, faults>>
    BY <1>2 DEF SubmitFeedback
  <2>2. traces \in Seq(TraceRows)
    BY DEF TypeOK
  <2>3. ASSUME NEW m
        PROVE  /\ [traces EXCEPT ![m].flagged = complaint] \in Seq(TraceRows)
               /\ Len([traces EXCEPT ![m].flagged = complaint]) = Len(traces)
    <3> DEFINE row == [traces[m] EXCEPT !.flagged = complaint]
    <3>1. CASE m \in DOMAIN traces
      <4>1. traces[m] \in TraceRows
        BY <2>2, <3>1
      <4>2. row \in TraceRows
        BY <4>1 DEF TraceRows
      <4> HIDE DEF row
      <4>3. /\ [traces EXCEPT ![m] = row] \in Seq(TraceRows)
            /\ Len([traces EXCEPT ![m] = row]) = Len(traces)
        BY <2>2, <3>1, <4>2
      <4> QED
        BY <4>3 DEF row
    <3>2. CASE m \notin DOMAIN traces
      <4>1. [traces EXCEPT ![m].flagged = complaint] = traces
        BY <2>2, <3>2
      <4> QED
        BY <2>2, <4>1
    <3> QED
      BY <3>1, <3>2
  <2>4. traces' \in Seq(TraceRows) /\ Len(traces') <= MaxTraces
    BY <2>1, <2>3 DEF TypeOK
  <2>5. notes' \subseteq [ticket : Tickets, created : 0 .. Horizon]
    BY <2>1 DEF TypeOK
  <2> QED
    BY <2>1, <2>4, <2>5 DEF TypeOK
<1>3. CASE Restart
  <2>1. batches' \in Seq(Batches)
    BY <1>3, CheckpointType DEF Restart, TypeOK, Batches
  <2> QED
    BY <1>3, <2>1, RunsEnd DEF Restart, Fault, TypeOK, Batches
<1>4. CASE Tick
  BY <1>4 DEF Tick, rows, TypeOK
<1>5. ASSUME NEW r \in Runs, StopAtOnce(r) PROVE TypeOK'
  BY <1>5 DEF StopAtOnce, TypeOK
<1>6. ASSUME NEW r \in Runs, StartRun(r) PROVE TypeOK'
  <2>1. PICK saved \in SUBSET NewTraces :
          /\ Checkpoint(saved)
          /\ saved = NewTraces \/ faults < MaxFaults
          /\ faults' = IF saved = NewTraces THEN faults ELSE faults + 1
    BY <1>6 DEF StartRun
  <2>2. PICK judged \in SUBSET FlaggedTraces, min \in MinSizes :
          Continue(r, [on |-> TRUE, judge |-> judged, clusters |-> Clusters,
            suggest |-> {p \in Patterns : Cardinality(Clusters[p]) >= min}])
    BY <1>6 DEF StartRun
  <2>3. runs' \in [Runs -> RunStates]
    <3>1. [on |-> TRUE, judge |-> judged, clusters |-> Clusters,
           suggest |-> {p \in Patterns : Cardinality(Clusters[p]) >= min}] \in Going
      BY LoadedTypes DEF Going
    <3> QED
      BY <2>2, <3>1, ContinueType
  <2>4. batches' \in Seq(Batches) /\ faults' \in 0 .. MaxFaults
    BY <2>1, CheckpointType DEF TypeOK
  <2> QED
    BY <1>6, <2>3, <2>4 DEF StartRun, TypeOK, Batches
<1>7. ASSUME NEW r \in Runs, Judge(r) PROVE TypeOK'
  <2>1. PICK i \in runs[r].judge : Continue(r, [runs[r] EXCEPT !.judge = @ \ {i}])
    BY <1>7 DEF Judge
  <2>2. runs' \in [Runs -> RunStates]
    BY <1>7, <2>1, RunningType, ContinueType DEF Judge
  <2> QED
    BY <1>7, <2>2 DEF Judge, rows, TypeOK
\* The pattern p is done with.
<1>8. ASSUME NEW r \in Runs, Running(r), NEW p \in runs[r].suggest,
             Continue(r, [runs[r] EXCEPT !.suggest = @ \ {p}])
      PROVE  runs' \in [Runs -> RunStates]
  BY <1>8, RunningType, ContinueType
<1>9. ASSUME NEW r \in Runs, Suggest(r) PROVE TypeOK'
  <2>1. PICK p \in runs[r].suggest :
          /\ suggestions' = Append(suggestions, Suggested(r, p))
          /\ Continue(r, [runs[r] EXCEPT !.suggest = @ \ {p}])
    BY <1>9 DEF Suggest
  <2>2. Suggested(r, p) \in SuggestionRows
    <3>1. runs[r].clusters \in [Patterns -> SUBSET (1 .. MaxTraces)] /\ p \in Patterns
      BY <1>9, RunningType DEF Suggest, Going
    <3> QED
      BY <3>1 DEF Suggested, SuggestionRows
  <2>3. suggestions' \in Seq(SuggestionRows)
    BY <2>1, <2>2 DEF TypeOK
  <2>4. runs' \in [Runs -> RunStates]
    BY <1>8, <1>9, <2>1 DEF Suggest
  <2> QED
    BY <1>9, <2>3, <2>4 DEF Suggest, rows, TypeOK
<1>10. ASSUME NEW r \in Runs, NoSuggestion(r) PROVE TypeOK'
  <2>1. runs' \in [Runs -> RunStates]
    BY <1>8, <1>10 DEF NoSuggestion
  <2> QED
    BY <1>10, <2>1 DEF NoSuggestion, Fault, TypeOK
<1>11. ASSUME NEW r \in Runs, RunFails(r) PROVE TypeOK'
  BY <1>11, RunsEnd DEF RunFails, Fault, TypeOK
<1>12. CASE UNCHANGED vars
  BY <1>12 DEF vars, rows, TypeOK
<1>13. CASE LogText
  BY <1>13 DEF LogText, TypeOK
<1> QED
  BY <1>1, <1>2, <1>3, <1>4, <1>5, <1>6, <1>7, <1>9, <1>10, <1>11, <1>12, <1>13
  DEF Next

\* The rows and the runs keep their types; in particular a run that is not
\* idle always has something left to do.
THEOREM TypeCorrectness == Spec => []TypeOK
BY TypeInit, TypeNext, PTL DEF Spec

-----------------------------------------------------------------------------
(* Checkpoints.  A run loads what no row of the day has checkpointed and   *)
(* writes its own rows before it first waits, so the disjointness of a     *)
(* day's batches is inductive; the types say what a batch is.              *)

LEMMA CheckpointKeeps ==
  ASSUME TypeOK, OneCheckpointADay, NEW saved \in SUBSET NewTraces, Checkpoint(saved)
  PROVE  OneCheckpointADay'
<1> DEFINE n == Len(batches)  batch == [traces |-> saved, created |-> now]
<1>1. /\ batches \in Seq(Batches) /\ n \in Nat /\ DOMAIN batches = 1 .. n
      /\ batches' = Append(batches, batch)
  BY DEF TypeOK, Batches, Checkpoint
<1>2. batch.traces = saved /\ batch.created = now
  OBVIOUS
<1> HIDE DEF batch
<1>3. /\ DOMAIN batches' = 1 .. n + 1
      /\ batches'[n + 1] = batch
      /\ \A b \in DOMAIN batches : batches'[b] = batches[b]
  BY <1>1
<1>4. \A b \in DOMAIN batches : batches[b].created \div Day = now \div Day =>
        batches[b].traces \cap saved = {}
  BY DEF NewTraces, Processed, Today
<1>5. ASSUME NEW b \in DOMAIN batches', NEW c \in DOMAIN batches', b # c,
             batches'[b].created \div Day = batches'[c].created \div Day
      PROVE  batches'[b].traces \cap batches'[c].traces = {}
  <2>1. CASE b = n + 1
    <3>1. c \in DOMAIN batches
      BY <1>1, <1>3, <1>5, <2>1
    <3>2. batches[c].created \div Day = now \div Day
      BY <1>2, <1>3, <1>5, <2>1, <3>1
    <3> QED
      BY <1>2, <1>3, <1>4, <2>1, <3>1, <3>2
  <2>2. CASE c = n + 1
    <3>1. b \in DOMAIN batches
      BY <1>1, <1>3, <1>5, <2>2
    <3>2. batches[b].created \div Day = now \div Day
      BY <1>2, <1>3, <1>5, <2>2, <3>1
    <3> QED
      BY <1>2, <1>3, <1>4, <2>2, <3>1, <3>2
  <2>3. CASE b # n + 1 /\ c # n + 1
    <3>1. b \in DOMAIN batches /\ c \in DOMAIN batches
      BY <1>1, <1>3, <2>3
    <3> QED
      BY <1>3, <1>5, <3>1 DEF OneCheckpointADay
  <2> QED
    BY <2>1, <2>2, <2>3
<1> QED
  BY <1>5 DEF OneCheckpointADay

LEMMA CheckpointNext == TypeOK /\ OneCheckpointADay /\ [Next]_vars => OneCheckpointADay'
<1> SUFFICES ASSUME TypeOK, OneCheckpointADay, [Next]_vars PROVE OneCheckpointADay'
  OBVIOUS
<1>1. CASE UNCHANGED batches
  BY <1>1 DEF OneCheckpointADay
<1>2. CASE batches' # batches
  <2>1. \E saved \in SUBSET NewTraces : Checkpoint(saved)
    BY <1>2 DEF Next, LogTrace, SubmitFeedback, LogText, Restart, Tick, StopAtOnce, StartRun,
                Judge, Suggest, NoSuggestion, RunFails, Fault, rows, vars
  <2> QED
    BY <2>1, CheckpointKeeps
<1> QED
  BY <1>1, <1>2

\* No trace is checkpointed twice on one day, so no failure is processed
\* twice, whatever overlaps, fails or is cut short.
THEOREM TracesAreProcessedOnceADay == Spec => []OneCheckpointADay
<1>1. Init => OneCheckpointADay
  BY DEF Init, OneCheckpointADay
<1> QED
  BY <1>1, TypeInit, TypeNext, CheckpointNext, PTL DEF Spec

-----------------------------------------------------------------------------
(* What a run found.  While nothing fails, a batch is all that a run found *)
(* new, and the clusters of the run are those of its batch.  What a batch  *)
(* holds are traces that exist, and a trace keeps the checks it failed.    *)

BatchesAreTraces == \A b \in DOMAIN batches : batches[b].traces \subseteq Ids

Found(b, p) == {i \in batches[b].traces : p \in traces[i].failed}

\* A run is about to suggest the pattern p from the traces `found`.
Pending(p, found) == \E r \in Runs : p \in runs[r].suggest /\ runs[r].clusters[p] = found

Made(p, found) ==
  \E s \in DOMAIN suggestions : suggestions[s].pattern = p /\ suggestions[s].sources = found

FoundInv == BatchesAreTraces /\ FoundIsSuggested

\* Traces are added and complained about; those that are there stay, with the
\* checks that they failed.
LEMMA TracesStay ==
  ASSUME TypeOK, [Next]_vars
  PROVE  Ids \subseteq Ids' /\ \A i \in Ids : traces'[i].failed = traces[i].failed
<1>1. traces \in Seq(TraceRows) /\ \A i \in Ids : traces[i] \in TraceRows
  BY DEF TypeOK, Ids
<1>2. CASE LogTrace
  <2>1. PICK row : traces' = Append(traces, row)
    BY <1>2 DEF LogTrace
  <2> QED
    BY <1>1, <2>1 DEF Ids
<1>3. CASE SubmitFeedback
  <2>1. UNCHANGED traces \/ \E m, f : traces' = [traces EXCEPT ![m].flagged = f]
    BY <1>3 DEF SubmitFeedback
  <2>2. CASE \E m, f : traces' = [traces EXCEPT ![m].flagged = f]
    <3>1. PICK m, f : traces' = [traces EXCEPT ![m].flagged = f]
      BY <2>2
    <3> QED
      BY <1>1, <3>1 DEF Ids, TraceRows
  <2>3. CASE UNCHANGED traces
    BY <2>3 DEF Ids
  <2> QED
    BY <2>1, <2>2, <2>3
<1>4. CASE UNCHANGED traces
  BY <1>4 DEF Ids
<1> QED
  BY <1>2, <1>3, <1>4
  DEF Next, LogText, Restart, Tick, StopAtOnce, StartRun, Judge, Suggest,
      NoSuggestion, RunFails, Fault, rows, vars

\* A checkpoint adds a batch of traces that exist, and keeps the others.
LEMMA BatchAdded ==
  ASSUME TypeOK, NEW saved \in SUBSET NewTraces, Checkpoint(saved)
  PROVE  /\ DOMAIN batches' = 1 .. Len(batches) + 1 /\ Len(batches) \in Nat
         /\ DOMAIN batches = 1 .. Len(batches)
         /\ batches'[Len(batches) + 1].traces = saved
         /\ \A b \in DOMAIN batches : batches'[b] = batches[b]
         /\ saved \subseteq Ids
<1> DEFINE batch == [traces |-> saved, created |-> now]
<1>1. batches \in Seq(Batches) /\ batches' = Append(batches, batch)
  BY DEF TypeOK, Batches, Checkpoint
<1>2. batch.traces = saved /\ saved \subseteq Ids
  BY LoadedTypes
<1> HIDE DEF batch
<1> QED
  BY <1>1, <1>2

LEMMA BatchesStayTraces ==
  ASSUME TypeOK, BatchesAreTraces, [Next]_vars
  PROVE  BatchesAreTraces'
<1>1. CASE UNCHANGED batches
  BY <1>1, TracesStay DEF BatchesAreTraces
<1>2. CASE batches' # batches
  <2>1. PICK saved \in SUBSET NewTraces : Checkpoint(saved)
    BY <1>2 DEF Next, LogTrace, SubmitFeedback, LogText, Restart, Tick, StopAtOnce, StartRun,
                Judge, Suggest, NoSuggestion, RunFails, Fault, rows, vars
  <2>2. ASSUME NEW b \in DOMAIN batches' PROVE batches'[b].traces \subseteq Ids'
    <3>1. CASE b \in DOMAIN batches
      BY <2>1, <3>1, BatchAdded, TracesStay DEF BatchesAreTraces
    <3>2. CASE b = Len(batches) + 1
      BY <2>1, <3>2, BatchAdded, TracesStay
    <3> QED
      BY <2>1, <2>2, <3>1, <3>2, BatchAdded
  <2> QED
    BY <2>2 DEF BatchesAreTraces
<1> QED
  BY <1>1, <1>2

\* A batch that was there still holds the same failures.
LEMMA FoundStays ==
  ASSUME TypeOK, BatchesAreTraces, [Next]_vars, NEW p,
         NEW b \in DOMAIN batches, batches'[b] = batches[b]
  PROVE  Found(b, p)' = Found(b, p)
<1>1. batches[b].traces \subseteq Ids
  BY DEF BatchesAreTraces
<1> QED
  BY <1>1, TracesStay DEF Found

\* What was pending is pending still, or has just been made a suggestion.
LEMMA PendingOrMade ==
  ASSUME TypeOK, [Next]_vars, faults' = 0, NEW p \in Patterns, NEW found,
         Pending(p, found) \/ Made(p, found)
  PROVE  Pending(p, found)' \/ Made(p, found)'
<1>1. runs \in [Runs -> RunStates] /\ suggestions \in Seq(SuggestionRows)
      /\ faults \in Nat
  BY DEF TypeOK
<1>2. CASE UNCHANGED <<runs, suggestions>>
  BY <1>2 DEF Pending, Made
<1>3. ASSUME NEW row, suggestions' = Append(suggestions, row), Made(p, found)
      PROVE  Made(p, found)'
  BY <1>1, <1>3 DEF Made
<1>4. ASSUME NEW r \in Runs, NEW run, Continue(r, run), Pending(p, found),
             runs[r].suggest \subseteq run.suggest, run.clusters = runs[r].clusters
      PROVE  Pending(p, found)'
  <2>1. PICK q \in Runs : p \in runs[q].suggest /\ runs[q].clusters[p] = found
    BY <1>4 DEF Pending
  <2>2. CASE q # r
    <3>1. runs'[q] = runs[q]
      BY <1>1, <1>4, <2>2 DEF Continue
    <3> QED
      BY <2>1, <3>1 DEF Pending
  <2>3. CASE q = r
    <3>1. run.suggest # {}
      BY <1>4, <2>1, <2>3
    <3>2. runs'[r] = run
      BY <1>1, <1>4, <3>1 DEF Continue
    <3> QED
      BY <1>4, <2>1, <2>3, <3>2 DEF Pending
  <2> QED
    BY <2>2, <2>3
<1>5. ASSUME NEW r \in Runs, StartRun(r) PROVE Pending(p, found)' \/ Made(p, found)'
  <2>1. CASE Made(p, found)
    BY <1>5, <2>1 DEF StartRun, Made
  <2>2. CASE Pending(p, found)
    <3>1. PICK q \in Runs : p \in runs[q].suggest /\ runs[q].clusters[p] = found
      BY <2>2 DEF Pending
    <3>2. runs[q].on /\ ~runs[r].on
      BY <1>1, <1>5, <3>1 DEF StartRun, CanStart, RunStates
    <3>3. PICK run : Continue(r, run)
      BY <1>5 DEF StartRun
    <3>4. runs'[q] = runs[q]
      BY <1>1, <3>2, <3>3 DEF Continue
    <3> QED
      BY <3>1, <3>4 DEF Pending
  <2> QED
    BY <2>1, <2>2
<1>6. ASSUME NEW r \in Runs, Judge(r) PROVE Pending(p, found)' \/ Made(p, found)'
  <2>1. CASE Made(p, found)
    BY <1>6, <2>1 DEF Judge, Made
  <2>2. CASE Pending(p, found)
    <3>1. PICK i : Continue(r, [runs[r] EXCEPT !.judge = @ \ {i}])
      BY <1>6 DEF Judge
    <3>2. PICK run : run = [runs[r] EXCEPT !.judge = @ \ {i}]
      OBVIOUS
    <3>3. run.suggest = runs[r].suggest /\ run.clusters = runs[r].clusters
      BY <1>1, <3>2 DEF RunStates
    <3> QED
      BY <1>4, <2>2, <3>1, <3>2, <3>3
  <2> QED
    BY <2>1, <2>2
<1>7. ASSUME NEW r \in Runs, Suggest(r) PROVE Pending(p, found)' \/ Made(p, found)'
  <2>1. PICK c \in runs[r].suggest :
          /\ suggestions' = Append(suggestions, Suggested(r, c))
          /\ Continue(r, [runs[r] EXCEPT !.suggest = @ \ {c}])
    BY <1>7 DEF Suggest
  <2>2. CASE Made(p, found)
    BY <1>3, <2>1, <2>2
  <2>3. CASE Pending(p, found)
    <3>1. PICK q \in Runs : p \in runs[q].suggest /\ runs[q].clusters[p] = found
      BY <2>3 DEF Pending
    <3>2. CASE q # r
      <4>1. runs'[q] = runs[q]
        BY <1>1, <2>1, <3>2 DEF Continue
      <4> QED
        BY <3>1, <4>1 DEF Pending
    <3>3. CASE q = r /\ c = p
      <4>1. PICK row : row = Suggested(r, c)
        OBVIOUS
      <4>2. row.pattern = p /\ row.sources = found
        BY <3>1, <3>3, <4>1 DEF Suggested
      <4>3. suggestions' = Append(suggestions, row)
        BY <2>1, <4>1
      <4>4. /\ Len(suggestions) + 1 \in DOMAIN suggestions'
            /\ suggestions'[Len(suggestions) + 1] = row
        BY <1>1, <4>3
      <4> QED
        BY <4>2, <4>4 DEF Made
    <3>4. CASE q = r /\ c # p
      <4>1. PICK run : run = [runs[r] EXCEPT !.suggest = @ \ {c}]
        OBVIOUS
      <4>2. p \in run.suggest /\ run.clusters = runs[r].clusters
        BY <1>1, <3>1, <3>4, <4>1 DEF RunStates
      <4>3. runs'[r] = run
        BY <1>1, <2>1, <4>1, <4>2 DEF Continue
      <4> QED
        BY <3>1, <3>4, <4>2, <4>3 DEF Pending
    <3> QED
      BY <3>2, <3>3, <3>4
  <2> QED
    BY <2>2, <2>3
<1>8. CASE LogTrace \/ SubmitFeedback \/ LogText \/ Tick \/ UNCHANGED vars
           \/ \E r \in Runs : StopAtOnce(r)
  BY <1>2, <1>8 DEF LogTrace, SubmitFeedback, LogText, Tick, StopAtOnce, vars
<1>9. CASE Restart \/ \E r \in Runs : NoSuggestion(r) \/ RunFails(r)
  BY <1>1, <1>9 DEF Restart, NoSuggestion, RunFails, Fault
<1> QED
  BY <1>5, <1>6, <1>7, <1>8, <1>9 DEF Next

\* Failures are only ever added.
LEMMA NoFaultBefore ==
  ASSUME TypeOK, [Next]_vars, faults' = 0
  PROVE  faults = 0
<1>1. faults \in Nat
  BY DEF TypeOK
<1>2. ASSUME NEW r \in Runs, StartRun(r) PROVE faults' \in {faults, faults + 1}
  BY <1>2 DEF StartRun
<1>3. faults' \in {faults, faults + 1}
  BY <1>2 DEF Next, LogTrace, SubmitFeedback, LogText, Restart, Tick, StopAtOnce, Judge,
              Suggest, NoSuggestion, RunFails, Fault, vars
<1> QED
  BY <1>1, <1>3

LEMMA FoundStep ==
  ASSUME TypeOK, FoundInv, [Next]_vars, faults' = 0,
         NEW b \in DOMAIN batches', NEW p \in Patterns, NEW found,
         found = Found(b, p)', \A min \in MinSizes : Cardinality(found) >= min
  PROVE  Made(p, found)' \/ Pending(p, found)'
<1>1. faults = 0
  BY NoFaultBefore
<1>2. CASE b \in DOMAIN batches /\ batches'[b] = batches[b]
  <2>1. found = Found(b, p)
    BY <1>2, FoundStays DEF FoundInv
  <2>2. (\A min \in MinSizes : Cardinality(Found(b, p)) >= min)
          => Made(p, Found(b, p)) \/ Pending(p, Found(b, p))
    BY <1>1, <1>2 DEF FoundInv, FoundIsSuggested, Found, Made, Pending
  <2> QED
    BY <2>1, <2>2, PendingOrMade
<1>3. CASE UNCHANGED batches
  BY <1>2, <1>3
<1>4. ASSUME NEW r \in Runs, StartRun(r) PROVE Made(p, found)' \/ Pending(p, found)'
  <2>1. /\ Checkpoint(NewTraces)
        /\ faults' = 0
    BY <1>1, <1>4 DEF StartRun, TypeOK
  <2>2. CASE b \in DOMAIN batches
    BY <1>2, <2>1, <2>2, BatchAdded
  <2>3. CASE b = Len(batches) + 1
    <3>1. batches'[b].traces = NewTraces /\ NewTraces \subseteq Ids
      BY <2>1, <2>3, BatchAdded
    <3>2. found = {i \in NewTraces : p \in traces[i].failed}
      BY <3>1, TracesStay DEF Found
    <3>3. Clusters[p] = found
      BY <3>2 DEF Clusters
    <3>4. PICK judged \in SUBSET FlaggedTraces, min \in MinSizes :
            Continue(r, [on |-> TRUE, judge |-> judged, clusters |-> Clusters,
              suggest |-> {q \in Patterns : Cardinality(Clusters[q]) >= min}])
      BY <1>4 DEF StartRun
    <3>5. PICK run : run = [on |-> TRUE, judge |-> judged, clusters |-> Clusters,
              suggest |-> {q \in Patterns : Cardinality(Clusters[q]) >= min}]
      OBVIOUS
    <3>6. p \in run.suggest /\ run.clusters[p] = found
      BY <3>3, <3>5
    <3>7. runs'[r] = run
      BY <3>4, <3>5, <3>6 DEF Continue, TypeOK
    <3> QED
      BY <3>6, <3>7 DEF Pending
  <2> QED
    BY <2>1, <2>2, <2>3, BatchAdded
<1>5. CASE Restart \/ \E r \in Runs : NoSuggestion(r) \/ RunFails(r)
  BY <1>5 DEF Restart, NoSuggestion, RunFails, Fault, TypeOK
<1> QED
  BY <1>3, <1>4, <1>5
  DEF Next, LogTrace, SubmitFeedback, LogText, Tick, StopAtOnce, Judge, Suggest, rows, vars

\* A run keeps the clusters it found until their suggestions are made, so
\* without a failure nothing that it found often enough is lost.
THEOREM FoundIsNeverLost == Spec => []FoundIsSuggested
<1>1. Init => FoundInv
  BY DEF Init, FoundInv, BatchesAreTraces, FoundIsSuggested
<1>2. TypeOK /\ FoundInv /\ [Next]_vars => FoundInv'
  <2> SUFFICES ASSUME TypeOK, FoundInv, [Next]_vars PROVE FoundInv'
    OBVIOUS
  <2>1. BatchesAreTraces'
    BY BatchesStayTraces DEF FoundInv
  <2>2. ASSUME faults' = 0, NEW b \in DOMAIN batches', NEW p \in Patterns,
               \A min \in MinSizes : Cardinality(Found(b, p)') >= min
        PROVE  (Made(p, Found(b, p)) \/ Pending(p, Found(b, p)))'
    <3>1. PICK found : found = Found(b, p)'
      OBVIOUS
    <3>2. Made(p, found)' \/ Pending(p, found)'
      BY <2>2, <3>1, FoundStep
    <3> QED
      BY <3>1, <3>2 DEF Made, Pending
  <2> QED
    BY <2>1, <2>2 DEF FoundInv, FoundIsSuggested, Found, Made, Pending
<1>3. FoundInv => FoundIsSuggested
  BY DEF FoundInv
<1> QED
  BY <1>1, <1>2, <1>3, TypeInit, TypeNext, PTL DEF Spec
-----------------------------------------------------------------------------
(* Failures are counted once.  A suggestion that counts a trace, and a run *)
(* that is still going to make one, have each used up a batch that holds   *)
(* the trace, so there are no more of them than such batches.              *)

\* The suggestions of pattern p that count trace i, the runs that will still
\* make one, and the batches that checkpointed i.
Counting(p, i) ==
  {s \in DOMAIN suggestions : suggestions[s].pattern = p /\ i \in suggestions[s].sources}

WillCount(p, i) == {r \in Runs : p \in runs[r].suggest /\ i \in runs[r].clusters[p]}

Holding(i) == {b \in DOMAIN batches : i \in batches[b].traces}

\* Finitely many runs will make one, although Runs need not be finite.
Balanced(made, will, held) ==
  /\ IsFiniteSet(made) /\ IsFiniteSet(will) /\ IsFiniteSet(held)
  /\ Cardinality(made) + Cardinality(will) <= Cardinality(held)

CountInv ==
  faults = 0 => \A i \in 1 .. MaxTraces, p \in Patterns :
                  Balanced(Counting(p, i), WillCount(p, i), Holding(i))

\* No run is added, no batch taken away.
LEMMA BalanceKept ==
  ASSUME NEW made, NEW will, NEW held, Balanced(made, will, held),
         NEW rest \in SUBSET will
  PROVE  Balanced(made, rest, held)
BY FS_Subset, FS_CardinalityType DEF Balanced

\* A batch is added, and at most one run with it.
LEMMA BalanceHeld ==
  ASSUME NEW made, NEW will, NEW held, Balanced(made, will, held),
         NEW b, b \notin held, NEW r, NEW now_will \in SUBSET (will \cup {r})
  PROVE  Balanced(made, now_will, held \cup {b})
<1>1. IsFiniteSet(held \cup {b}) /\ Cardinality(held \cup {b}) = Cardinality(held) + 1
  BY FS_AddElement DEF Balanced
<1>2. /\ IsFiniteSet(will \cup {r})
      /\ Cardinality(will \cup {r}) \in {Cardinality(will), Cardinality(will) + 1}
  BY FS_AddElement DEF Balanced
<1>3. IsFiniteSet(now_will) /\ Cardinality(now_will) <= Cardinality(will \cup {r})
  BY <1>2, FS_Subset
<1>4. /\ Cardinality(made) \in Nat /\ Cardinality(will) \in Nat
      /\ Cardinality(held) \in Nat /\ Cardinality(now_will) \in Nat
  BY <1>3, FS_CardinalityType DEF Balanced
<1> QED
  BY <1>1, <1>2, <1>3, <1>4 DEF Balanced

\* A run has made its suggestion.
LEMMA BalanceMade ==
  ASSUME NEW made, NEW will, NEW held, Balanced(made, will, held),
         NEW s, NEW r \in will, NEW rest \in SUBSET (will \ {r})
  PROVE  Balanced(made \cup {s}, rest, held)
<1>1. /\ IsFiniteSet(made \cup {s})
      /\ Cardinality(made \cup {s}) \in {Cardinality(made), Cardinality(made) + 1}
  BY FS_AddElement DEF Balanced
<1>2. IsFiniteSet(will \ {r}) /\ Cardinality(will \ {r}) = Cardinality(will) - 1
  BY FS_RemoveElement DEF Balanced
<1>3. IsFiniteSet(rest) /\ Cardinality(rest) <= Cardinality(will \ {r})
  BY <1>2, FS_Subset
<1>4. /\ Cardinality(made) \in Nat /\ Cardinality(will) \in Nat
      /\ Cardinality(held) \in Nat /\ Cardinality(rest) \in Nat
  BY <1>3, FS_CardinalityType DEF Balanced
<1> QED
  BY <1>1, <1>2, <1>3, <1>4 DEF Balanced

\* A run that goes on with `run` will count no other patterns and traces than
\* those that `run` says; the other runs are as before.
LEMMA ContinueWill ==
  ASSUME TypeOK, NEW r \in Runs, NEW run, Continue(r, run), NEW p, NEW i
  PROVE  /\ WillCount(p, i)' \subseteq WillCount(p, i) \cup {r}
         /\ r \in WillCount(p, i)' => p \in run.suggest /\ i \in run.clusters[p]
<1>1. /\ \A q \in Runs : q # r => runs'[q] = runs[q]
      /\ runs'[r] = IF run.judge = {} /\ run.suggest = {} THEN IdleRun ELSE run
  BY DEF Continue, TypeOK
<1>2. IdleRun.suggest = {}
  BY DEF IdleRun
<1> QED
  BY <1>1, <1>2 DEF WillCount

\* A run starts.  It has written a batch of all that it found new.
LEMMA StartBalances ==
  ASSUME TypeOK, NEW i \in 1 .. MaxTraces, NEW p \in Patterns,
         Balanced(Counting(p, i), WillCount(p, i), Holding(i)),
         NEW r \in Runs, StartRun(r), faults = 0, faults' = 0
  PROVE  Balanced(Counting(p, i), WillCount(p, i), Holding(i))'
<1>1. /\ NewTraces \in SUBSET NewTraces /\ Checkpoint(NewTraces)
      /\ UNCHANGED suggestions /\ ~runs[r].on
  BY DEF StartRun, CanStart
<1>2. PICK judged \in SUBSET FlaggedTraces, min \in MinSizes :
        Continue(r, [on |-> TRUE, judge |-> judged, clusters |-> Clusters,
          suggest |-> {q \in Patterns : Cardinality(Clusters[q]) >= min}])
  BY DEF StartRun
<1>3. PICK run : run = [on |-> TRUE, judge |-> judged, clusters |-> Clusters,
          suggest |-> {q \in Patterns : Cardinality(Clusters[q]) >= min}]
  OBVIOUS
<1>4. /\ Continue(r, run)
      /\ i \in run.clusters[p] => i \in NewTraces
  BY <1>2, <1>3 DEF Clusters
<1>5. PICK will : will = WillCount(p, i)'
  OBVIOUS
<1>6. will \subseteq WillCount(p, i) \cup {r} /\ (r \in will => i \in NewTraces)
  BY <1>4, <1>5, ContinueWill
<1>7. Counting(p, i)' = Counting(p, i)
  BY <1>1 DEF Counting
<1>8. PICK n \in Nat : n = Len(batches) + 1
  BY DEF TypeOK
<1>9. /\ DOMAIN batches = 1 .. n - 1 /\ DOMAIN batches' = 1 .. n
      /\ batches'[n].traces = NewTraces
      /\ \A b \in DOMAIN batches : batches'[b] = batches[b]
  BY <1>1, <1>8, BatchAdded
<1>10. CASE i \in NewTraces
  <2>1. Holding(i)' = Holding(i) \cup {n} /\ n \notin Holding(i)
    BY <1>8, <1>9, <1>10 DEF Holding
  <2>2. Balanced(Counting(p, i), will, Holding(i) \cup {n})
    BY <1>6, <2>1, BalanceHeld
  <2> QED
    BY <1>5, <1>7, <2>1, <2>2 DEF Balanced
<1>11. CASE i \notin NewTraces
  <2>1. Holding(i)' = Holding(i)
    BY <1>8, <1>9, <1>11 DEF Holding
  <2>2. will \subseteq WillCount(p, i)
    BY <1>6, <1>11
  <2> QED
    BY <1>5, <1>7, <2>1, <2>2, BalanceKept DEF Balanced
<1> QED
  BY <1>10, <1>11

\* A run makes a suggestion.
LEMMA SuggestBalances ==
  ASSUME TypeOK, NEW i \in 1 .. MaxTraces, NEW p \in Patterns,
         Balanced(Counting(p, i), WillCount(p, i), Holding(i)),
         NEW r \in Runs, Suggest(r)
  PROVE  Balanced(Counting(p, i), WillCount(p, i), Holding(i))'
<1>1. PICK q \in runs[r].suggest :
        /\ suggestions' = Append(suggestions, Suggested(r, q))
        /\ Continue(r, [runs[r] EXCEPT !.suggest = @ \ {q}])
  BY DEF Suggest
<1>2. PICK run : run = [runs[r] EXCEPT !.suggest = @ \ {q}]
  OBVIOUS
<1>3. runs[r] \in RunStates
  BY DEF TypeOK
<1>4. /\ Continue(r, run)
      /\ run.suggest = runs[r].suggest \ {q} /\ run.clusters = runs[r].clusters
  BY <1>1, <1>2, <1>3 DEF RunStates
<1>5. PICK will : will = WillCount(p, i)'
  OBVIOUS
<1>6. will \subseteq WillCount(p, i) /\ (q = p => r \notin will)
  BY <1>4, <1>5, ContinueWill DEF WillCount
<1>7. Holding(i)' = Holding(i)
  BY DEF Suggest, rows, Holding
<1>8. PICK row : row = Suggested(r, q)
  OBVIOUS
<1>9. row.pattern = q /\ row.sources = runs[r].clusters[q]
  BY <1>8 DEF Suggested
<1>10. PICK n \in Nat : n = Len(suggestions) + 1
  BY DEF TypeOK
<1>11. /\ DOMAIN suggestions = 1 .. n - 1 /\ DOMAIN suggestions' = 1 .. n
       /\ suggestions'[n] = row
       /\ \A s \in DOMAIN suggestions : suggestions'[s] = suggestions[s]
  BY <1>1, <1>8, <1>10 DEF TypeOK
<1>12. CASE q = p /\ i \in runs[r].clusters[p]
  <2>1. Counting(p, i)' = Counting(p, i) \cup {n}
    BY <1>9, <1>10, <1>11, <1>12 DEF Counting
  <2>2. r \in WillCount(p, i) /\ will \in SUBSET (WillCount(p, i) \ {r})
    BY <1>6, <1>12 DEF WillCount
  <2>3. Balanced(Counting(p, i) \cup {n}, will, Holding(i))
    BY <2>2, BalanceMade
  <2> QED
    BY <1>5, <1>7, <2>1, <2>3 DEF Balanced
<1>13. CASE ~(q = p /\ i \in runs[r].clusters[p])
  <2>1. Counting(p, i)' = Counting(p, i)
    BY <1>9, <1>10, <1>11, <1>13 DEF Counting
  <2> QED
    BY <1>5, <1>6, <1>7, <2>1, BalanceKept DEF Balanced
<1> QED
  BY <1>12, <1>13

\* The judge's answer changes nothing that is counted.
LEMMA JudgeBalances ==
  ASSUME TypeOK, NEW i \in 1 .. MaxTraces, NEW p \in Patterns,
         Balanced(Counting(p, i), WillCount(p, i), Holding(i)),
         NEW r \in Runs, Judge(r)
  PROVE  Balanced(Counting(p, i), WillCount(p, i), Holding(i))'
<1>1. PICK j : Continue(r, [runs[r] EXCEPT !.judge = @ \ {j}])
  BY DEF Judge
<1>2. PICK run : run = [runs[r] EXCEPT !.judge = @ \ {j}]
  OBVIOUS
<1>3. runs[r] \in RunStates
  BY DEF TypeOK
<1>4. /\ Continue(r, run)
      /\ run.suggest = runs[r].suggest /\ run.clusters = runs[r].clusters
  BY <1>1, <1>2, <1>3 DEF RunStates
<1>5. PICK will : will = WillCount(p, i)'
  OBVIOUS
<1>6. will \subseteq WillCount(p, i)
  BY <1>4, <1>5, ContinueWill DEF WillCount
<1>7. Holding(i)' = Holding(i) /\ Counting(p, i)' = Counting(p, i)
  BY DEF Judge, rows, Holding, Counting
<1> QED
  BY <1>5, <1>6, <1>7, BalanceKept DEF Balanced

LEMMA CountNext == TypeOK /\ CountInv /\ [Next]_vars => CountInv'
<1> SUFFICES ASSUME TypeOK, CountInv, [Next]_vars, faults' = 0,
                    NEW i \in 1 .. MaxTraces, NEW p \in Patterns
             PROVE  Balanced(Counting(p, i), WillCount(p, i), Holding(i))'
  BY DEF CountInv
<1>1. faults = 0
  BY NoFaultBefore
<1>2. Balanced(Counting(p, i), WillCount(p, i), Holding(i))
  BY <1>1 DEF CountInv
<1>3. CASE UNCHANGED <<batches, suggestions, runs>>
  BY <1>2, <1>3 DEF Balanced, Counting, WillCount, Holding
<1>4. ~Restart /\ \A r \in Runs : ~NoSuggestion(r) /\ ~RunFails(r)
  BY <1>1 DEF Restart, NoSuggestion, RunFails, Fault
<1> QED
  BY <1>1, <1>2, <1>3, <1>4, StartBalances, SuggestBalances, JudgeBalances
  DEF Next, LogTrace, SubmitFeedback, LogText, Tick, StopAtOnce, rows, vars

\* As long as nothing fails, no failure is counted for more suggestions of its
\* pattern than batches hold its trace, so for at most one a day, however many
\* runs overlap.
THEOREM FailuresCountOnce == Spec => []CountedOncePerCheckpoint
<1>1. Init => CountInv
  <2>1. ASSUME Init, NEW i, NEW p
        PROVE  Counting(p, i) = {} /\ WillCount(p, i) = {} /\ Holding(i) = {}
    BY <2>1 DEF Init, IdleRun, Counting, WillCount, Holding
  <2> QED
    BY <2>1, FS_EmptySet DEF CountInv, Balanced
<1>2. TypeOK /\ CountInv => CountedOncePerCheckpoint
  <2> SUFFICES ASSUME TypeOK, CountInv, faults = 0, NEW i \in Ids, NEW p \in Patterns
               PROVE  Cardinality(Counting(p, i)) <= Cardinality(Holding(i))
    BY DEF CountedOncePerCheckpoint, Counting, Holding
  <2>1. i \in 1 .. MaxTraces
    BY LoadedTypes
  <2>2. Balanced(Counting(p, i), WillCount(p, i), Holding(i))
    BY <2>1 DEF CountInv
  <2> QED
    BY <2>2, FS_CardinalityType DEF Balanced
<1> QED
  BY <1>1, <1>2, TypeInit, TypeNext, CountNext, PTL DEF Spec
=============================================================================
