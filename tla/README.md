# A verification project for the payment resolution agent

The agent answers customers whose money is stuck (a failed UPI payment, a
pending Savings Pot withdrawal), keeps a ticket until the money has arrived, and
improves its own skill files under human approval.  This directory holds TLA+
models of the parts of it that keep state, the TLC runs that check them and the
TLAPS proofs about them.  All paths below are relative to the repository's
`src/`; `chat_handler:551` is line 551 of the file of that name.

Contents: [Inventory](#inventory) · [Modules](#modules) ·
[TicketLifecycle](#ticketlifecycle) · [SkillApproval](#skillapproval) ·
[NightlyAnalysis](#nightlyanalysis) · [ChatClient](#chatclient) ·
[EvalQueue](#evalqueue) · [Settlement](#settlement) ·
[Runs](#runs) · [Fairness](#fairness) ·
[Proofs](#proofs) · [Where the code and its words differ](#where-the-code-and-its-words-differ) ·
[Not modelled](#not-modelled) · [Plan](#plan)

## Inventory

| Part | State it keeps | Operations | What is hard | What makes it correct |
|---|---|---|---|---|
| Chat turns, `app/lifecycle/chat_handler.py` | `tickets`: status, category, deadline, conversation | `handle_chat`: open or load a ticket, auto-confirm, classify, retrieve, compose with up to three attempts, write back | the handler reads the ticket once and writes it after up to four awaits, so turns, stage 2 answers and jobs interleave with it | a decision made about the ticket in between is not lost; a risky case reaches a person; unclear customers are not asked for ever; every request is answered |
| Follow-up job, `app/lifecycle/followup_cron.py` | `eval_queue` rows with `resolution_confirmed` set, ticket status | select overdue open tickets; per ticket check, insert the row, mark the ticket | runs on a worker thread and, from the trigger endpoint, on the event loop; check-then-insert; failure between two writes | one question per ticket; no ticket waits for an answer to a question that was not recorded |
| Stage 2 endpoints, same file | the same two tables, `policy_suggestions` | "yes"/"no", then the timeline answer and its pattern check | two tables, no transaction, no condition on the status | the two tables agree; only the customer resolves |
| Auto-close job, `app/lifecycle/autoclose_cron.py` | ticket status | select expired tickets, close each | acts on what it selected, however long ago | closes only what has expired and waits |
| Classifier, composer, prompts, `app/core`, `app/knowledge/prompts.py` | none | model calls | any answer, a failure, no answer | their callers cope with each |
| Retriever, `app/core/retriever.py` | none | choose the transaction a turn talks about, and say how sure the choice is | several candidates, an amount that is almost right or zero | never somebody else's transaction; what is called sure is relevant |
| Policy checker and structural evals, `app/verification` | none | judge a card | text rules; the distance of two amounts | a risky turn's card escalates |
| Policy loader, `app/knowledge/policy_loader.py` | skill files, a cache of `policy_rules.json` | load, rewrite; business days, NEFT batches, thresholds | calendar boundaries; a stale cache | the deadline is the one the rule names |
| Approval gate, `app/learning/admin_api.py`, `eval_gate.py`, `drift_check.py` | `policy_suggestions`, `policy_versions`, skill files | list, approve, reject, roll back; weekly drift check | a file and two tables written one after the other; the gate reverts by hand | every change of a skill has a version it can be rolled back to |
| Nightly analysis, `app/learning/nightly_analysis.py` | checkpoints and judge scores in `eval_queue`, suggestions | load, cluster, checkpoint, judge, suggest | checkpoints are written before the suggestions; awaits in between | a failure pattern seen often enough is suggested, and a trace counts once |
| Feedback and error discovery, `app/learning/feedback.py`, `error_discovery.py` | scores and annotations in `eval_queue` | rate, annotate; draw samples, convergence timeline | which of a ticket's rows is meant; a sliding window; rows of six writers | a rating lands on the answer rated or a later one; a kind of failure is not hidden from reviewers |
| Web client, `frontend/app.js` | the conversation shown, the current ticket, the sidebar, a session token | send, open a ticket, start over, reload, answer stage 2 | answers arriving after a switch; retries after a refused token | a message is handled once and gets a reply; what is shown belongs to the current ticket |
| Tokens, `app/auth.py` | none | sign, validate | expiry in the middle of a conversation | a refused request is repeated, a handled one is not |
| Application, `app/main.py` | the scheduler | routes, jobs, triggers | what runs on the loop and what on a thread | - |

Interaction: a chat turn calls the classifier, the retriever, the composer and
the policy checker, and writes `tickets` and (best effort) `eval_queue`; the two
daily jobs and the stage 2 endpoints write the same tables; the learning loop
reads `eval_queue` and writes `policy_suggestions`; an approved suggestion
rewrites the skill file that the next chat turn loads.

Concurrency: the application is one process with one asyncio event loop.  The
database client is synchronous, so a handler gives up the loop only where it
awaits a language model.  APScheduler runs the plain functions it is given (the
follow-up job, the auto-close job, the drift check) on worker threads, so these
interleave with the loop at every database call.  No statement is part of a
transaction, and no constraint of the schema concerns what follows (it has
foreign keys, and a unique phone number).  `get_transaction` is a coroutine that
never suspends, so its await does not give up the loop.

## Modules

| Module | What it is |
|---|---|
| `TicketLifecycle` | chat turns, stage 2 endpoints, follow-up job, auto-close job over `tickets` and `eval_queue` |
| `TicketContract` | what the ticket table promises; implemented by `TicketLifecycle` when operations do not overlap |
| `SkillApproval` | suggestions, approval, eval gate, versions, rollback, drift check, the cached rules |
| `SkillHistory` | a text with a history that can be restored; implemented by `SkillApproval` as long as nothing is interrupted |
| `NightlyAnalysis` | loading, checkpoints, clusters, judging and suggestions of overlapping runs |
| `ChatClient` | the customer's page and the endpoints it talks to, with tokens, lost answers and jobs |
| `EvalQueue` | the rows of `eval_queue` between the components that write and those that aggregate them |
| `Settlement` | which payment a card is about, and the deadline it names |
| `MC...` | the same modules with the symmetry sets for TLC |
| `..._proofs` | the theorems about the module of that name; `TicketContract_proofs` has those about `TicketLifecycle` with one operation at a time, the refinement of `TicketContract` among them, and `EvalQueuePages_proofs` those about what the readers of `EvalQueue` return |

Definitions named in a "Mutant:" comment are deliberate errors: replacing the
definition they belong to by one of them must make a run fail.  They take no part in the
specifications.

The modules are not composed in one state space; where one component needs
another, it takes the other's effect in a more permissive form than the other
module has it:

| Module | takes from | as |
|---|---|---|
| `SkillApproval` | the analysis | `Suggest`: a pending suggestion with any text |
| `NightlyAnalysis` | the chat, feedback | `LogTrace`, `SubmitFeedback` |
| `ChatClient` | `TicketLifecycle` | `HandleChat`: a turn keeps the status, escalates or resolves; `JobMoves`: a job's step; `ServeStage2` |
| `TicketLifecycle` | `Settlement` | `Retrieved`: found or not, above the threshold or not; `Deadlines`: any of a set |
| `EvalQueue` | the chat, the follow-up job | `AnswerCard`, `AnswerExhausted`, `AnswerInWords`, `AskFollowup` |

## TicketLifecycle

| In the model | In the code |
|---|---|
| `tickets` | table `tickets`: `status`, `category`, `resolution_deadline`, and of `conversation_json` its length in user/assistant pairs, cut at `KeepExchanges` (`history[-20:]`) |
| `followups[k]` | the rows of `eval_queue` of ticket k that have `resolution_confirmed` set: the question of stage 2 |
| `calibrations` | the `policy_suggestions` of `_check_timeline_pattern` |
| `turns[h]` | the local variables of a `handle_chat` call between two awaits: the ticket as read at the start, whether the turn is risky, the attempt |
| `stage2`, `followup[r]`, `autoclose[r]` | an endpoint or a job between two database calls |
| `loop` | who holds the event loop between two database calls |
| `now` | the clock, in any unit; deadlines are numbers on it |
| `reply`, `clarified` | what the last step answered, and how often a ticket was asked to clarify: for the properties |
| `ChatNewTicket` ... `ChatFollowUp` | `handle_chat` from its first database call to its first await, one action per way through `chat_handler:177-400` |
| `ClassifyReturns` ... `NoTransactionReply` | the classifier or a conversational reply returns |
| `ComposeRetry`, `ComposeUnavailable`, `PolicyExhausted`, `QualityBarRaises`, `DeliverCard` | an attempt of the compose loop and what follows it (`chat_handler:452-571`) |
| `Stage2Response`, `Stage2ResponseRows`, `Stage2Timeline`, `...Resolve`, `...Pattern` | the two endpoints, one action per database call |
| `FollowupSelect`, `Check`, `Insert`, `Mark`; `AutocloseSelect`, `Update` | the jobs, one action per database call |
| `TurnFails`, `AnswerFails`, `FollowupFails`, `AutocloseFails`, `Restart` | a call raises; the process restarts |

Abstractions:
- A message is one of four kinds (`Messages`): what the keyword lists of the
  handler tell apart.  A card is three flags (`Cards`): the wording checks pass,
  it mentions a senior colleague, it has the four fields and the turn's category.
  The language models may give any of them, or none.
- The transaction is found or not, and its amount is above the threshold or not;
  `Deadlines` is what the deadline calculation may return.
- A job's runner (`"cron"`, on its thread, or `"trigger"`, on the loop) has one
  run of its job at a time, and a run that selects no ticket is left out.
- The auto-confirmation reads and writes in one action: the jobs, which alone
  could come in between, never write the category it depends on.
- A reply of the composer that is JSON but no object raises, like a failing call.
- Messages that are too long, tickets and users that do not exist, and stage 2
  answers of other words are refused before anything changes, and left out; so
  are the rows of `_log_trace` and of `cron_failure`, which nothing of the
  lifecycle reads.
- `Serialized = TRUE` lets no operation start while another is in flight.  It is not a
  configuration of the program: it separates what the handlers promise alone from what
  survives their interleaving.

Properties.  For every interleaving: `PendingHasFollowup`, `OneFollowupPerTicket`
(one runner), `FollowupsBoundedByRunners` (several), `FollowupsAreOfDatedTickets`,
`RiskyCardEscalates`; `OverdueLeavesOpen` and `TurnsEnd` under fairness.  One
operation at a time: `DeadlineKeepsCategory`, `ClarifiedAtMost`,
`AwaitingMeansYes`, and `ContractSpec`, the refinement of `TicketContract`: of
its kinds of change, only the customer resolves, a ticket waits only for a
question on record, and only an open or waiting ticket is closed.  With turns
overlapping, `DeadlineKeepsCategory` fails (a late reply of another turn stores
`OUT_OF_SCOPE`), so does `ClarifiedAtMost` (each turn counts the history it
read) and so does the contract; that is what `Serialized` is for.

## SkillApproval

| In the model | In the code |
|---|---|
| `suggestions` | table `policy_suggestions`: status, the category in front of the pattern, the text, whether the confidence is a number |
| `versions` | table `policy_versions`, in the order of insertion |
| `skills` | the skill files; the category `DRIFT_DETECTED` has none in the repository |
| `disk`, `cached` | `policy_rules.json` and the copy of it in `_policy_cache`, both reduced to the verdict of the eval gate on them (the gate runs a fixed dataset against the rules in memory; no skill text enters into it) |
| `op` | `approve_suggestion` between its writes: the suggestion, `old_content`, `before_eval` |
| `Suggest`, `DriftSuggests` | the analysis and `run_drift_check` insert a suggestion |
| `ListPending`, `Reject`, `Rollback` | the endpoints of these names |
| `Approve`, `GateBlocks`, `GatePasses`, `InsertVersion`, `MarkApproved` | `approve_suggestion` (`admin_api:114-179`): write the file and reload the rules, run the gate, insert the version, mark the suggestion |
| `EditRules` | a deployment changes `policy_rules.json` |
| `ApprovalFails`, `Restart` | a call raises, the process restarts (the rules are loaded again at their first use; nothing reads them before) |

The endpoints contain no await, so no two of them overlap; the drift check's
thread, failures and restarts come between their writes.  The gate and the insert
of the drift check are one step, as no property looks at the reason of its row.  A skill
file is written whole: a write that stops half-way is not modelled.

Properties.  Whatever fails: `ApprovedIsRecorded`, `NumberedInOrder`,
`ApprovedUnderPassingRules`, `ReviewIsFinal`.  Without interruption:
`HistorySpec`.  Its mapping shows a skill's text only once its change is
recorded, so a blocked change is a stutter only if the gate really puts the old
text back, an approval is a step only if the version holds the text that was
there, and a rollback only if it brings a recorded text back.  It is about the
skills that ship with a file.

## NightlyAnalysis

| In the model | In the code |
|---|---|
| `traces` | `eval_queue` rows of chat turns: ticket, failed checks (`rule:reason`), whether feedback flagged them, when |
| `notes` | feedback on a ticket without such a row |
| `batches` | checkpoint rows; the rows that one run wrote are one batch |
| `texts` | rows with a free text and no ticket: of runs that stopped at once, of annotations, of jobs that failed |
| `suggestions` | `policy_suggestions` of the analysis |
| `runs[r]` | a run that waits for a model: the traces still to be judged, its clusters, and the patterns still to be suggested |
| `LogTrace`, `SubmitFeedback`, `LogText` | the other writers of `eval_queue` as the analysis sees them: turns, feedback, `save_annotation` and `_log_cron_failure` |
| `StopAtOnce`, `StartRun` | `run_nightly_analysis` up to its first await (`nightly_analysis:151-224`) |
| `Judge`, `Suggest`, `NoSuggestion`, `RunFails`, `Restart` | its calls of the models, and how they fail |

A day is `Day` ticks; traces are loaded by a sliding day and checkpoints by
calendar day, as in the code.  The scores of the judge are stored in the trace
and read by nothing here, and are left out.  The labels of human reviewers are
left out because no row can have one: `schema.sql` has no such column, so
`annotate_trace` fails.  There is no scheduled run (see below).

Properties: `OneCheckpointADay` for every interleaving and failure;
`CountedOncePerCheckpoint` and `FoundIsSuggested` as long as nothing fails.
With a failure the last is false, by the code's order of writes: a run that stops between its
checkpoints and its suggestions leaves traces that the rest of the day's runs
skip.

## ChatClient

| In the model | In the code |
|---|---|
| `page` | `currentTicketId`, the ticket header, how many typing indicators there are, whether the send button is disabled (`app.js`) |
| `area` | the chat area: a question, an answer, an error, a ticket's history, a stage 2 prompt, its timeline question, or either with its buttons disabled; each with the ticket and the message it belongs to |
| `listed`, `listing` | the sidebar, and `loadTicketList` between its steps |
| `token` | `session_token` of the local storage: none, valid or expired |
| `calls[c]` | a request under way, with the locals of the function that awaits it: `apiCall`, `openTicket`, `handleStage2Resolution`, `handleStage2Timeline`.  `"orphan"` is a request whose page has gone |
| `status`, `opened` | the server's `tickets.status`, and its tickets in the order of `created_at` |
| `landed[m]` | for the properties: the tickets of the chat turns that took message m up |
| `Send`, `TokenReturns`, `Refuse`, `Retry` | `sendMessage`, `ensureSessionToken`, the 401 of `get_current_user`, and the repetition (`app.js:53-76`) |
| `AnswerTooLong`, `LookupRaises`, `HandleChat` | `handle_chat` as the page sees it: the length check (`chat_handler:177-189`), the lookup of an id that is none, a turn |
| `ChatAnswered`, `ChatFailed` | the two ways `sendMessage` goes on |
| `OpenTicket`, `ServeTicket`, `TicketLoaded`, `LoadFailed`; `NewConversation`; `Reload` | the sidebar's entries, "new conversation", the browser's reload |
| `ListTokenReturns`, `ServeList`, `ListReturns`, `ListRefused` | `init` and `loadTicketList`; the list has the newest `ListSize` tickets (`NewestTickets`), 50 in the code (`main:359`), and replaces the sidebar |
| `AnswerResolution`, `AnswerTimeline`, `ServeStage2`, `Stage2Raises`, `TimelineAsked`, `Stage2Done`, `Stage2Failed` | the buttons of stage 2 and the endpoints behind them |
| `Lost`, `TokenExpires`, `JobMoves` | the network and the rate limit; time; the two daily jobs |

A request is three actions (posted, served, gone on with), since the page gives up
its thread where it awaits `fetch`, and the endpoint is one (`TicketLifecycle`
has what happens inside).  A user may be `patient`, that is, do nothing while
the page is busy, or not: the choice is made in `Init`, so a run covers both
and a property says which it is about.  Left out: the profile, the feedback
widget's own display, what cards look like, and the admin and discovery pages,
which render what they get.

Properties.  Whatever the user does and whatever order answers come in:
`HandledAtMostOnce`, `TypingOnlyWhileBusy`, `QuestionsAreSettled`.  For a
patient user: `ShownIsCurrent`, `OneTicketPerConversation`,
`HeaderTellsStatus`, `SidebarIsComplete`, with jobs, expired tokens and (the
first two) failures in between.  The sidebar need not have every ticket:
`SidebarIsComplete` is about the newest `ListSize`, those that this page opened
after the list was made among them.  For an impatient user these four fail, see
below.

## EvalQueue

| In the model | In the code |
|---|---|
| `queue` | table `eval_queue` in the order of `created_at`: ticket, whether there is a `response_text`, the first failed rule of `policy_checks_json`, `helpful_score`, `failure_category` if an annotation wrote it, the day |
| `cards` | the cards on customers' pages, each with the row its turn logged, or none |
| `ratings` | for the properties: which card was rated and which row got the score |
| `AnswerCard`, `AnswerExhausted`, `AnswerInWords` | `_log_trace` on each way out of a turn; it is best effort (`chat_handler:129-160`) |
| `AskFollowup` | the row of the follow-up job, which has no response |
| `Rate` | `submit_feedback`: the newest row of the ticket that has a response, or a row of its own |
| `SaveAnnotation` | `save_annotation` |
| `Windowed`, `Traces` | `get_traces`: the rows of the window that have `policy_checks_json`, and of these the newest `TraceLimit`, 500 in the code (`error_discovery:29`, 59, 133) |
| `Samples`, `Cluster`, `PerCluster` | `select_review_samples` |
| `Timeline`, `FirstSeen` | `get_convergence` |
| `ScoredRows` | the score distributions of `get_metrics` and `get_failure_clusters` |

Sampling draws at random; `Samples` is the set of all draws.  Time passes in
days, so the window of the pages slides over the rows.  The readers change
nothing, so they are operators and the properties quantify over what they return.
`EveryClusterSampled` is about the kinds of failure among the `Traces`: a kind that only older
rows of the window show is not among them, and no reader of `Traces` sees it.

## Settlement

| In the model | In the code |
|---|---|
| `txns` | table `transactions`: owner, type, whether it is failed or pending, amount, when it was made |
| `tickets` | per ticket the user who opened it, its category, and of its last card whose message it answered (`asker`), the payment, the deadline, whether an id was named, `match_confidence` and `RETRIEVAL_RELEVANCE` |
| `Retrieved`, `ById`, `Candidates`, `Newest`, `Closest` | `get_transaction` (`retriever.py`) |
| `SureOf`, `Within10Percent` | `_match_confidence` (`retriever.py`) and `RETRIEVAL_RELEVANCE` (`structural_evals.py`), which each compute a distance of amounts |
| `NextBatch`, `AddBusinessDays`, `UpiDeadline`, `DeadlineOf` | `calculate_next_neft_batch`, `add_business_days` (`policy_loader:35-76`), `_calculate_deadline` (`chat_handler:113-127`) |
| `Message` | a turn that shows a card, or finds no transaction; `UserOf` is `_get_or_create_ticket` |
| `Initiate`, `Settles` | external: the bank |

Time is minutes from midnight of a Monday, in the zone that timestamps are stored
in (UTC).  The merchant, which no caller passes, is left out.

A message can name any ticket: a ticket is loaded by its id alone
(`chat_handler:79-82`), and the user is that of the token or, without one, of
the request (`main:136-140`).  The ticket keeps the user who opened it and takes
the card and the deadline of whoever wrote last, so `OwnTransactions` compares the
payment with the asker: the retriever's filter, and nothing about the ticket,
is what holds.

The properties state deadlines by what they mean, not by how the code steps to
them: `ReversalDeadlines` counts the business days as a set of days, of the stored zone;
`BatchDeadlines` compares with `RuleBatch`, the batch that the rule names in
IST.  The code applies the cutoff to the stored hour, so the two differ, and
the property says where and by how much: in the last hour of a day in IST
(17:30 to 18:29 UTC) the customer is told 30 or 60 minutes too early, in that of a
stored day as much too late, and at every other minute they agree.

## Runs

| Run | Module | What it shows |
|---|---|---|
| `serial` | TicketLifecycle | one operation at a time, two categories, one failure: type correctness, the three serial invariants, and the refinement of `TicketContract` |
| `overlap` | TicketLifecycle | two turns, the stage 2 endpoints and both jobs interleaved on one ticket, one failure or restart: the four properties of every interleaving |
| `live` | TicketLifecycle | two tickets, the follow-up job on its thread and from its trigger, one failure: the bound on follow-ups and the two liveness properties |
| `approval` | SkillApproval | two suggestions, three categories, two texts, one failure or restart: all properties and the refinement of `SkillHistory` |
| `nightly` | NightlyAnalysis | two overlapping runs, two patterns, midnight in between, one failure: all properties |
| `client` | ChatClient | a patient and an impatient user, two requests at once, two messages, two tickets and a list of one, and each of the four kinds of events: all properties |
| `records` | EvalQueue | two tickets, two rules and two failure modes over four days with a window of one day and of two traces: all properties |
| `settlement` | Settlement | two users who may both name the ticket, two payments around the cutoff in either zone, a weekend and the thirty days: all properties |
| `stale_write`, `lost_original`, `dead_ticket`, `other_payment` | TicketLifecycle, SkillApproval, ChatClient, Settlement | one counterexample each, see below |

Bounds, and why they are enough:
- `Tickets`: the tables are only related row by row (`TookLonger` apart, which
  sums over tickets and only counts calibrations), so one ticket shows every
  interleaving on it; `live` has two, so that a failed run leaves work behind.
- `Turns`: two, as a stale write needs one turn to read and another to write.
- `MaxAttempts`: three, the code's, where the loop matters (`serial`); two in
  `overlap` and `live`, a first and a last attempt.
- `KeepExchanges` is 3 and not 10: it must exceed `MaxUnclear` = 2, as in the
  code, and the truncation must happen.
- `Horizon`, `Grace`, `Deadlines`: a deadline can pass and the grace period
  after it; a later deadline can replace an earlier one (`serial`).
- `MaxRequests`, `MaxAnswers`, `MaxFaults`: enough requests for a turn between
  any two steps of another operation; one fault, since every fault leaves a state
  that the tables alone describe and a second one starts from such a state.
- `PatternThreshold` is 1 and not 3, so that calibrations happen.
- `approval`: the two suggestions can have the same category or different ones,
  so versions are counted per category; a third text, `Original`, is what ships.
- `nightly`: `Day` and `Horizon` are 2, so a run can fall on either side of
  midnight and of the sliding window; `MinSizes` is {1, 2} and not 3, so that both
  sides of the threshold are reached with two traces; `MaxJudged` is 1 and not 20, so that
  it binds.
- `client`: two messages, so that one is answered before, after or instead of
  the other; two tickets and two clicks, so that the page can leave a
  conversation and come back; every kind of event happens at most once.
  `ListSize` is 1 and not 50, so that it binds with two tickets: the older one is
  not in a list, the newer one is in the list or added by an answer.
- `records`: three rows, so that a ticket can have an answer, a question and
  another answer; `TraceLimit` is 2 and not 500, so that the third trace pushes the
  first out; `Count` is 2 and not 20, so that a share can round to zero.  Two
  traces never make more than two clusters, so that more clusters than `Count` compete
  is left to the theorem.
- `settlement`: the instants are a minute before and at the cutoff in IST and in
  the stored zone, the middle of an hour, a Friday midnight, a Saturday, a Monday, and
  more than thirty days later; the amounts lie within and beyond ten percent of the number
  mentioned, and a message may mention 0.  `Settlement_proofs` covers the rest.

`CHECK_DEADLOCK FALSE` stands where the bounds stop the model: no requests,
answers and ticks are left.

## Fairness

`FairSpec` of `TicketLifecycle`:
- Strong fairness for each turn that waits for a model.  The client library
  (`AsyncAnthropic`, created without arguments of its own) has a default timeout, so
  the call returns or raises; the ready queue of asyncio is first in,
  first out, so a turn that is ready again and again is not passed over, although
  a job on the loop can make it wait.
- Weak fairness for a stage 2 answer and a job that have started: they run to
  their end unless they fail.
- Weak fairness for the start of the scheduled jobs: APScheduler fires them
  daily, and a day's run that failed is followed by the next.
- Weak fairness for the clock.
- None for requests, answers, failures and the trigger endpoints: nobody is
  obliged to call.

`OverdueLeavesOpen` holds through the auto-close job as well: after a failure
between the insert of a follow-up and its mark, the follow-up job skips the
ticket for ever, and the ticket stays open until its grace period is over.

## Proofs

TLAPS proves these for every value of the constants (under the named
assumptions of the modules: sets of names are disjoint from `Null` and from each other where the
code tells them apart, no header is `Null`, numbers are naturals, and a page has
finitely many requests at once), and so for any number of tickets, requests, messages, suggestions, runs,
payments and failures.

| Theorem | Statement | Argument |
|---|---|---|
| `TicketLifecycle_proofs!TypeCorrectness` | `Spec => []TypeOK` | `TypeInv`: besides the types, an actor between two steps is busy with a ticket (`BusyWithTicket`), as it writes that ticket's row |
| `TicketLifecycle_proofs!PendingAlwaysHasFollowup` | `Spec => []PendingHasFollowup` | `FollowupInv`: a turn that read `pending_confirmation` works on a ticket with a follow-up row, and so does a runner about to mark; rows are never removed.  Without the first part, a turn could write back a status that the tables no longer justify |
| `TicketLifecycle_proofs!OnlyDatedTicketsAreAsked` | `Spec => []FollowupsAreOfDatedTickets` | `DatedInv`: a turn that composes has a category, a row with a deadline has one, and what a run of the job has selected stays dated.  `OUT_OF_SCOPE` may replace a category, never remove it |
| `TicketLifecycle_proofs!FollowupsStayBounded` | `Spec => []FollowupsBoundedByRunners` | `RunnersInv`: a ticket's rows and the runners about to insert one for it are together at most the runners.  A runner joins them only while the ticket has no row |
| `TicketLifecycle_proofs!OneFollowup` | `FollowupRunners = {"cron"}` gives `Spec => []OneFollowupPerTicket` | the theorem before, for one runner |
| `TicketLifecycle_proofs!RiskyCardsEscalate` | `Spec => []RiskyCardEscalates` | inductive with the types: the step that replies writes the row |
| `TicketContract_proofs!LifecycleKeepsContract` | `Serialized = TRUE` gives `Spec => ContractSpec` | `AloneInv`: at most one operation is in flight, and what it knows of its tickets (the status and history it read, the tickets it has still to handle) is what the table says.  Only then is a status that is written back a stutter of the contract |
| `TicketContract_proofs!EscalationsStick` | `Serialized = TRUE` gives `Spec => EscalationSticks` | every step is one of the contract, and there an escalated ticket moves on the customer's word alone.  So the counterexample of `stale_write` needs the overlap |
| `TicketContract_proofs!DatedTicketsKeepTheirCategory` | `Serialized = TRUE` gives `Spec => []DeadlineKeepsCategory` | `AloneInv` and the property itself: a turn that classifies has found no deadline, because a ticket with one is a follow-up |
| `TicketContract_proofs!ClarifyingEnds` | `Serialized = TRUE` and `MaxUnclear <= KeepExchanges` give `Spec => []ClarifiedAtMost` | `ClarifiedInv`: the count is at most the exchanges while the history is not truncated.  The second assumption is real: a shorter history would never reach the bound |
| `TicketContract_proofs!TablesAgreeOnYes` | `Serialized = TRUE` gives `Spec => []AwaitingMeansYes` | `YesInv`: between the two writes of an answer, the ticket has the status the answer gave it and is the only one whose rows may disagree |
| `SkillApproval_proofs!TypeCorrectness` | `Spec => []TypeOK` | `TypeInv`: `Max` is only defined on what has a maximum, so version numbers need a bound (`NumbersBounded`); the row that is marked must exist (`ApprovesPending`) |
| `SkillApproval_proofs!ApprovalsAreRecorded` | `Spec => []ApprovedIsRecorded` | `RecordInv`: an approval about to mark its suggestion has inserted the version; versions are only appended and an open suggestion's text does not change |
| `SkillApproval_proofs!ApprovalsPassTheGate` | `Spec => []ApprovedUnderPassingRules` | `GateInv`: while an approval is past the gate, nothing reloads the rules |
| `SkillApproval_proofs!ReviewsAreFinal` | `Spec => ReviewIsFinal` | `ApprovesPending`: the suggestion of an open approval stays pending, so the unconditional mark finds it so |
| `SkillApproval_proofs!VersionsAreNumbered` | `Spec => []NumberedInOrder` | inductive with the types; `NextVersionCounts` shows that the largest number of a category is how many versions it has |
| `SkillApproval_proofs!GateKeepsHistory` | `Spec => HistorySpec` | `HistoryInv`: a shipped skill's file and the texts its versions replaced are never empty; an open approval's file holds the new text and its `op.old` the one that the history still shows.  Each action is mapped to a change, a rollback or a stutter |
| `SkillApproval_proofs!UninterruptedKeepsOriginal` | `Spec => [](faults = 0 => OriginalRecoverable)` | `KeptInv`: the first version of a skill holds the shipped text; before it, the file does, or the open approval that replaces it.  So the counterexample of `lost_original` needs a failure |
| `NightlyAnalysis_proofs!TypeCorrectness` | `Spec => []TypeOK` | inductive as it stands |
| `NightlyAnalysis_proofs!TracesAreProcessedOnceADay` | `Spec => []OneCheckpointADay` | inductive with the types: what a run checkpoints is disjoint from the day's batches at that moment, and it writes before it first waits |
| `NightlyAnalysis_proofs!FoundIsNeverLost` | `Spec => []FoundIsSuggested` | `FoundInv`: batches hold traces that exist (`BatchesAreTraces`); traces keep what they failed, so a batch's clusters are those its run still holds or has suggested |
| `NightlyAnalysis_proofs!FailuresCountOnce` | `Spec => []CountedOncePerCheckpoint` | `CountInv`: the suggestions that count a trace for a pattern and the runs that still will are together at most the batches that hold the trace.  A run that joins writes its batch in the same step; a suggestion made is one less to make |
| `ChatClient_proofs!TypeCorrectness` | `Spec => []TypeOK` | besides the types, what a request may carry at each of its steps |
| `ChatClient_proofs!MessagesAreHandledOnce` | `Spec => []HandledAtMostOnce` | `OnceInv`: requests that can still be taken up carry messages that no turn has taken up, and no two the same one; a 401 comes before a turn |
| `ChatClient_proofs!QuestionsGetReplies` | `Spec => []QuestionsAreSettled` | inductive with the types: what replaces a prompt still replies to its message |
| `ChatClient_proofs!NobodyWaitsForNothing` | `Spec => []TypingOnlyWhileBusy` | `BusyInv`: no more indicators than chat requests and loads of the page, and a disabled button only with a chat request |
| `ChatClient_proofs!PatientUserReadsOneTicket` | `Spec => []ShownIsCurrent` | `AloneInv`: a patient user has at most one request under way, none while the sidebar is loaded, and none survives a reload.  `ShownInv`: that request is about the current ticket or about the first message of a new one; a header is behind only while a load is under way or after an error |
| `ChatClient_proofs!PatientUserTalksInOneTicket` | `Spec => []OneTicketPerConversation` | `TurnInv`, with `OnceInv`, `AloneInv` and `ShownInv`: what answers a message is shown with the ticket that took the message up, and until then only the question is shown |
| `ChatClient_proofs!PatientUserFindsNewestTickets` | `Spec => []SidebarIsComplete` | `SidebarInv`: one of the newest tickets that is not listed is in the answer that is about to add it, or in the list that is about to be shown; `OpenedInv` and `NewestAfter`: only a new ticket joins the newest, and none of the others does when it pushes one out |
| `ChatClient_proofs!PatientUserReadsTheStatus` | `Spec => []HeaderTellsStatus` | `HeaderInv`: the header is not behind while nothing is under way, and otherwise what is under way brings the status; only a job changes it meanwhile |
| `EvalQueue_proofs!TypeCorrectness` | `Spec => []TypeOK` | `Max` of a ticket's rows exists (`MaxOf`) |
| `EvalQueue_proofs!RatingsGoForward` | `Spec => []RatingsNeverGoBack` | `RatedInv`: a card's row, if there is one, is a row of its ticket with a response |
| `EvalQueue_proofs!RatingsCountOnce` | `Spec => []NoRatingCountsTwice` | `RatedInv`: a row with a score is one that a rating went to |
| `EvalQueuePages_proofs!ReviewsSeeEveryCluster` | `Spec => []EveryClusterSampled` | of the types alone, for every draw and every `TraceLimit`.  At most `Count` clusters have fewer than `Count` newer ones (`FewAreAbove`), and shares of `ClusterPicks` rounded down, or of one, fit into `Count` (`FibresBound`, `PicksFit`) |
| `EvalQueuePages_proofs!TimelineIsExact` | `Spec => []TimelineCountsModes` | of the types alone.  The days have exactly one increasing order (`Enumerates`); the running count is the number of modes first seen so far, as two functions with the same recursion agree (a least place where they differ); the fold over the timeline likewise, by a smallest set of places (`SmallestPlaces`) |
| `Settlement_proofs!TypeCorrectness` | `Spec => []TypeOK` | what is retrieved is a payment; a deadline is a number |
| `Settlement_proofs!CardsAreOfOwnPayments` | `Spec => []OwnTransactions` | owners do not change, a card and its asker change together, and each lookup filters by the asker; no assumption relates the asker to the ticket's user |
| `Settlement_proofs!SureMatchesAreRelevant` | `Spec => []SureIsRelevant` | the two distances agree wherever both are taken, 0 included |
| `Settlement_proofs!BatchDeadlinesWithinAnHour` | `Spec => []BatchDeadlines` | arithmetic of a day's minutes in two zones that are 5:30 apart, for every time of payment (`NextBatchIsNext`, `NextBatchAgainstRule`) |
| `Settlement_proofs!ReversalDeadlinesAreFifthDays` | `Spec => []ReversalDeadlines` | the five steps of `AddBusinessDays` are unfolded, for each weekday |

Every invariant, action property and refinement that a passing run checks has a
theorem above.  Only model-checked: the two liveness properties of `live`
(`TurnsEnd`, `OverdueLeavesOpen`), as liveness under fairness is out of TLAPS's
reach.  The theorems with `Serialized = TRUE` are about one operation at a time;
what goes wrong otherwise is shown by `stale_write` and listed below.

No induction theorem of the library can be used (they take an operator as a parameter), so
where a function is defined by recursion the proofs take a least counterexample
instead, from the well-foundedness of `<` (`LeastOf`).

Proving changed the models in three places, without changing what TLC sees:
`ServeStage2` and `Cluster` were a `CASE` with overlapping guards, of which TLC
takes the first and the logic any, and are now an `IF` in the order of the code;
`AnnotationDays` was sorted by an operator that has no definition a prover can use, and is
now the increasing listing of the days itself.

## Where the code and its words differ

Each of these has a run whose counterexample shows it:
- `stale_write`: a turn writes back the status it read at its start
  (`chat_handler:551`), so an escalation made meanwhile is undone, where the
  comment at 548-549 counts on the escalation being seen by the next turn.
- `lost_original`: an approval overwrites the skill file before it inserts the
  version (`admin_api:132`, 153); interrupted in between, the old text is gone,
  where the docstring says "atomically".
- `dead_ticket`: a first message over the length limit is answered with the ticket
  id "NONE" (`chat_handler:180`), which the page makes its current ticket; the next
  message looks it up, and every further message of the conversation gets a
  500, where the comment at 84-86 says that follow-ups "hit the explicit lookup".
- `other_payment`: each turn retrieves the payment again and writes its deadline
  (`chat_handler:541`), so a customer who makes another payment, or names a number,
  moves the ticket to it, where `FEATURES.md:17` says that a ticket tracks its
  payment until it is resolved.

Seen while modelling, without a run of their own.  Chat turns and jobs:
- After three replies that are no card the customer is told "A senior
  colleague has been flagged" (`chat_handler:483-484`), and nothing is written.
- The warning of the quality bar uses a name that does not exist
  (`chat_handler:524`), so the card that was to be scored and delivered becomes
  an internal error.
- The auto-close job closes by ticket id alone (`autoclose_cron:52`), so
  a ticket resolved or escalated after its select is closed, where its docstring
  says that the status "is still open".
- With the thread and the trigger running the follow-up job at once, a ticket can be sent
  two follow-ups despite the check "if we already sent a followup"
  (`followup_cron:59-60`); `FollowupsBoundedByRunners` is what remains true.
- An overdue ticket is asked about, and closed, but never escalated
  (`followup_cron:77-81`; `FEATURES.md:19`).
- A ticket is not closed when its payment settles and not escalated when its
  deadline is missed, as `FEATURES.md:18-19` has it: nothing reads a payment's
  status after the turn.

The learning loop:
- A drift suggestion has the confidence "high" or "medium", and
  `float()` of it (`admin_api:105`) fails the whole list.
- The analysis takes its own checkpoints for complaints
  (`nightly_analysis:60`, 88), and so the annotations of reviewers and the rows of
  failed jobs; for a day after any of these it does not stop at "no new signal".
- A kind of failure that only rows beyond the newest 500 traces of the window show
  is in no sample and no cluster (`error_discovery:29`, 59, 133), where the comment at
  157 has "from each cluster".
- A blocked approval that created a skill file leaves the file (`admin_api:139`),
  and a rollback of a version that created one changes nothing and answers
  `rolled_back` (`admin_api:211`): both test for an old text.
- A suggestion whose pattern lost its category is approved, recorded under
  "GENERAL" and applied nowhere (`admin_api:131`).
- A pattern below the threshold is checkpointed and dropped, so several runs a
  day never add up to a suggestion (`nightly_analysis:258`).
- Just after midnight the traces of the evening before are processed a second
  time (`nightly_analysis:72`): loading slides, checkpoints go by date.
- The analysis never runs on its schedule: the scheduler gets a plain function,
  runs it on a worker thread, and `asyncio.create_task` finds no loop there
  (`main:69`).
- The rating of an earlier card goes to the newest answer of its ticket
  (`feedback:46`), and the metrics count it on the day of that answer.
- An attempt that is retried is not logged; only what ends a turn is, so the
  pages see failures of the last attempt alone.
- Annotations are rows without `policy_checks_json` (`error_discovery:181`), and the
  readers look for them on rows that have it: coverage and "annotated" are
  always 0.  Nobody writes the failure category "escalation", so the count of
  escalated traces is 0 as well; the cluster of unscored failures is always empty;
  samples can be far fewer than asked for, and a mode is first seen in the window, not
  ever.

The page:
- An answer that arrives after the user has opened another ticket, or started
  over, is appended to what is open then, and makes its own ticket the current one.
- Enter twice before the first answer opens two tickets, and so does sending again after
  a lost first answer.
- When the status is `pending_confirmation`, the card of the answer is replaced
  by the question of stage 2.  The question is not shown when the ticket is
  loaded from the sidebar, and a timeline question is gone after a reload.
- The timeline handler does not look at the answer, so "Your ticket is now
  closed" follows a 500 as well.
- A load that fails leaves the header of the ticket before; the next message
  goes to the ticket that could not be loaded.
- `apiGet` does not repeat a request that an expired token made fail, so the
  sidebar stays empty; and a list that arrives late removes the tickets that
  were added meanwhile.
- Tickets older than the newest 50 (`main:359`) are not in the sidebar once it
  was loaded, and the page has no other way to open one.
- After a reload there is no current ticket, where `FEATURES.md:20` says that
  returning users load their open ticket.

Payments and deadlines:
- Any number in a message ("2 days ago") is taken for the amount.
- An id in a message finds the payment whatever its category, status and age.
- The cutoff is tested in the zone that timestamps are stored in, UTC, where the
  docstring says "IST-aware" (`policy_loader:52`) and the rule and the skill IST
  (`policy_rules.json:21`, `skills/POT_WITHDRAWAL.md:29-32`).  `BatchDeadlines`
  states by how much: half an hour or an hour, in one hour of a day in either zone.
- A message that names a ticket of another user moves that ticket to the sender's
  payment and its deadline (`chat_handler:79-82`, 541).

## Not modelled

- `app/learning/git_ops.py`: not called.  `app/observability`: output only.
  `app/db`: a client and demo data; its tables are the variables of the modules.
- `app/verification/structural_evals.py` apart from `RETRIEVAL_RELEVANCE`, the
  wording rules of the policy checker, and the prompts: pure functions of text, whose
  results are recorded and decide nothing beyond the flags of `Cards`.
- `app/auth.py`: how tokens are signed.  The rate limit, which a page sees as a
  request that fails.
- `is_neft_escalation_due`, which nothing calls.
- The rates of the metrics and of the failure clusters that are sums for display,
  and the admin and discovery pages, which show them.
- `annotate_trace` and human review labels: they write columns that the schema
  does not have.

## Plan

Done: the six modules, their two abstract specifications, and a theorem for each
safety property of the passing runs.  What would add most next:

1. For an impatient user's page: the weakest waiting that restores
   `OneTicketPerConversation`.
2. A contract of the follow-up job alone, so that the bound on follow-ups
   is a refinement instead of an invariant.
3. What holds of `FollowupsHitLookup` and `TracksOnePayment` as the code is: which
   first messages, and which later ones, keep a conversation on its ticket and
   a ticket on its payment.
