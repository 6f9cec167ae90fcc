# Verification of AdReady AI in TLA+

AdReady AI reviews video advertisements. A user submits a campaign with one or
more videos (*Ad Creatives*); Python workers analyse each video (transcript, OCR,
captions, ...), Supabase Edge Functions (*evaluators*) judge the evidence with
language models, and a scorecard and a list of issues are projected from their
results. Everything the parts know of each other goes through one Postgres
database: a `pgmq` queue, status columns, triggers, and HTTP requests that
triggers post with `pg_net`. No part holds a lock on another for longer than a
transaction, any part may be killed between two statements, and requests and
answers get lost. This directory models that machinery, model-checks it with
TLC, and proves its central invariants with TLAPS.

Contents: [Inventory](#1-inventory), [Plan](#2-plan), [Modules](#3-the-modules),
[Runs](#4-runs), [Assumptions](#5-timing-and-fairness), [Proofs](#6-proofs),
[Findings](#7-findings), [Limits](#8-what-is-not-modelled).

## 1. Inventory

### Media queue and worker (`worker/app`, migrations 007-008, 036, 042-044, 054-056)

*State*: the pgmq message of a creative (queued, its visibility timeout, its
`read_ct`), `requests.media_processing_status` and `_failure_code`, one
`video_processing` row per analysis task, `requests.agents_triggered_at`; in each
replica, the message it holds and how far each task is. *Operations*:
`drain_queue` (read, give up, delete, archive, back off), `process_message`
(start, prepare, plan, run the tasks in threads, persist each success, then each
error, complete), the heartbeat thread, reconnection or restart after a crash.
*Interaction*: an insert into `requests` enqueues; an update of the last
`video_processing` row to a finished status dispatches the evaluators.
*Hard*: leases that run out under a live worker, crashes between any two
statements, partial failure of the tasks, retries that must redo the failures
only. *Correct when* a creative always reaches a final status, success is
neither lost nor repeated, attempts are bounded, and the evaluators never see
incomplete evidence.

### OCR Run (`worker/app/ocr_runs.py`, `worker/analyzer/ocr`, migrations 038-040)

*State*: `ocr_runs.status`, the immutable `ocr_results` header with its segments,
uploaded evidence frames. *Operations*: create or resume, mark failed, upload
evidence, complete atomically, project into `video_processing`. *Hard*: two
replicas on one run, a crash or a lost answer between completion and its
projection. *Correct when* the first result stands, the status agrees with it,
and OCR is not repeated once it is durable.

### Evaluator Runs (`functions/shared/evaluatorHandler.ts`, `persist.ts`, migrations 044, 058-060)

*State*: one `evaluator_runs` row per evaluator, the `agent_results` rows of its
metrics. *Operations*: dispatch by trigger, claim, evaluate, complete (rows and
status in one transaction), fail, time out (pg_cron every minute after ten).
*Hard*: calls are not fenced; a late or repeated call meets whatever the run has
become. *Correct when* lifecycle and rows agree, completed work is kept, and
every dispatched run ends.

### Evaluation completion (`functions/complete-evaluation`, `score-result`, `process-issues`, migrations 047, 051)

*State*: `requests.evaluation_completion_status` and `_last_error`, the
`result_score_table` row, the `issues` rows. *Operations*: the trigger that
schedules completion when the tenth metric is stored, the handler (start,
scorecard, issues, finish), and both projections on demand. *Hard*: the trigger
runs per row; the request is posted once and may be lost; the handler may be
killed; two projections of the issues interleave their statements. *Correct
when* completion is requested once, only with all metrics, and ends.

### Evaluators (`functions/*-agent`, `shared/checks.ts`, `validation.ts`, `modelResponse.ts`)

*State*: none that outlives an invocation: the inputs of the review, the replies of
the model calls made so far, the sub-checks assembled from them.
*Operations*: one to four model calls per evaluator, parsing with or without a
retry, the deterministic checks, the rollup, the validation. *Hard*: a call may fail
or a reply be useless at any point and only some evaluators survive it; replies
cover part of what was asked; caps, clamps and corrections are applied one after
another. *Correct when* nothing passes that nobody looked at, every claim that counts as
one is examined, results are never refused for how a model worded them, and a worse answer never
gives a better metric.

### Review Request lifecycle (migrations 056, 061)

*State*: `review_requests`, the `requests` rows of a batch.
*Operations*: `review_request_summaries` (a view that derives one status from all
of the above) and `delete_review_request`. *Hard*: the view is a function of
states that move independently; deletion races the worker and the evaluators.
*Correct when* a status shown as final stays, and a deleted review stays deleted.

### Submission (`UploadPage.tsx`, `CampaignForm.tsx`, `campaigns.ts`, migrations 007, 035, 036, 054)

*State*: the cards of the videos, the fields of the form with the sets of edited and
parsed ones, the campaign that is selected, the ids minted so far; `requests` and
`parsed_creative_briefs`. *Operations*: upload and remove a video, edit, parse a
brief, select an earlier campaign, submit and retry. *Hard*: any request may fail
before or behind its commit; the user works on while uploads, the parser and details
of campaigns are under way; closures hold the state of an older render. *Correct when*
there is one pipeline per video, what is stored is complete and what was submitted, and
no answer to an earlier selection replaces a later one.

### Progress and results (`useRequestProgress.ts`, `progressTransform.ts`, `ResultPage.tsx`, `results.ts`)

*State*: the batch in the address, the polling effect with its interval, the progress
and the results held, the requests under way. *Operations*: poll every five seconds,
stop when every video is over or after ten minutes, load the results once, navigate,
retry, delete. *Hard*: a poll is sent whether or not the last one was answered; each
reads several tables that no snapshot ties together; answers come after the batch has
changed. *Correct when* what is shown is of the batch in the address, no video is
missing, and the page comes to an outcome or says that it has given up.

### Score Engine (`shared/score-engine`, `frontend/src/lib/resultsTransform.ts`)

*State*: none. *Operations*: rows of the evaluators to metrics, per cent, verdict, bars
and fix list; the page's own derivation of verdict, issues and texts. *Hard*: weights,
gates and bars are three tables; the per cent is rounded twice and the verdict is taken
from another precision than the number; an abstention changes the divisor. *Correct
when* a worse judgment never scores better and verdict, number, bars and issues explain
each other.

### Other pure algorithms

*OCR* (`ocr/routing.py`, `consolidation.py`, `candidates.py`): which frames are read,
which readings become one segment. *Frame sampling* (`analyzer/frame_sampling`): which
frames are kept. *Pages, authentication, presentation*: not behaviour over time.

## 2. Plan

| Order | Module | Models | State |
|---|---|---|---|
| 1 | `MediaQueue` | queue, worker, heartbeat, dispatch trigger | done |
| 2 | `MediaQueueProofs` | types, attempts, complete evidence | done |
| 3 | `EvaluatorRuns` | runs, calls, completion | done |
| 4 | `CreativeReviewProofs` | all safety properties of `EvaluatorRuns`, then of `CreativeReview` (7) | done |
| 5 | `OcrResult`, `OcrRun` | the durable OCR Run and the promise it keeps | done |
| 6 | `OcrRunProofs` | evidence, refinement, sequential deliveries | done |
| 7 | `CreativeReview` | `MediaQueue` and `EvaluatorRuns` joined by the trigger; history view and progress page over both | done for one creative |
| 8 | `ResultPage`, `ResultPageProofs` | polling and results of one tab: overlap, failure, timeout, navigation, deletion | done |
| 9 | `IssuesProjection`, `IssuesProjectionProofs` | read, delete, upsert of projections that interleave | done |
| 10 | `EvaluatorTransactions`, `EvaluatorTransactionsProofs` | row locks of completions, sweep and deletion; refines `EvaluatorRuns` | done |
| 11 | `Submission`, `SubmissionProofs` | client-minted ids, uploads, upserts, retry; parser and campaigns against editing | done |
| 12 | `ReviewLifecycle` | aggregate status of a batch; deletion against a running worker | planned |
| 13 | `SubChecks`, `CtaEvaluator`, `StorylineEvaluator`, `GuidedEvaluators`, `VisualEvaluator`, `ClaimsEvaluator`, `EvaluatorPipeline`, `EvaluatorPipelineProofs` | an invocation of each of the seven evaluators: calls, checks, rollup, validation | done |
| 14 | `ScoreEngine`, `ResultsTransform` | rows to scorecard, scorecard and issues to what the page says; proofs in `ResultPageProofs` | done |
| 15 | `OcrRouting`, `FrameSampling` | frame selection, routing and consolidation as operators | planned |

Abstract specifications: `OcrResult` for `OcrRun`, and `EvaluatorRuns` for
`EvaluatorTransactions`. Worth stating next: a review that is submitted, reviewed or
deleted once (for 12).

Every safety property that a passing run checks is a theorem. Worth proving next: the
promise of a review that comes with 12.

## 3. The modules

### `MediaQueue`

| Model | Code |
|---|---|
| `queue`, `visible`, `readCt` | the pgmq message: present, deleted or archived; visible again; `read_ct` |
| `media` | `requests.media_processing_status`; `failed` with its two failure codes is `"failed"` and `"exhausted"` |
| `row`, `triggered` | `video_processing.status` per task, `requests.agents_triggered_at` |
| `step`, `job`, `delivery` | where a replica is in `drain_queue` / `process_message`, which message it read, with which count |
| `plan` | how far each task of `_run_analysis` is, outcome included |
| `beat` | the heartbeat thread: off, renewing, or failing to renew |

Every action is one autocommitted statement with the trigger that runs inside it
(`SetRow` carries the trigger of migrations 044 and 058). `WorkerStep` is what a
replica does; `Environment` is submission, time and faults. Tasks of one message
are marked in a loop, run in threads, and are persisted after all futures are
in: first each success in a transaction of its own, then the errors. The OCR
task writes its own row while the others run (`FinishOcr`). Exceptions that are
not the two named kinds (`Raise`) may come up at every step of `process_message`
and lead to `Backoff`, as in `drain_queue`'s last `except`.

Abstractions: the text of errors and the `RecordError` statement; what `Prepare`
stores besides (quality frames and metadata, whose failures the code swallows);
a heartbeat thread that outlives `join(timeout=5)`; the shutdown flag, which
looks like a worker that rests.

### `EvaluatorRuns`

`run` is `evaluator_runs.status`, `stale` says its `updated_at` is more than ten
minutes old, `result` the `agent_results` rows; `at` and `output` follow each HTTP
call through `createEvaluatorHandler`; `completion`, `lastError`, `posts`, `phase`,
`scorecard` and `issues` are the evaluation completion, the last two what its
projections have stored. SQL functions (`Claim`, `Complete`,
`Fail`, `Reconcile`, `Schedule`) are atomic; a call may be lost, killed or overtaken
between any two of them (`Lose`), its answer may be lost after the commit
(`Answer`), a caller may send one himself (`Resend`), and pg_net delivers a post at most
once, at any later time (`StartCompletion`, `LosePost`). `'pending'` is written and
overwritten inside the dispatching transaction, so no state has it. The
scorecard's read and its RPC are one step: the rows of completed runs do not
change (`CompletedWorkIsKept`).

### `OcrRun` and `OcrResult`

`OcrResult` is the promise: the result is written once, and success is announced
only over a result. `OcrRun` is `OcrRunLifecycle.execute` with the evidence upload and
`complete_ocr_run`: `status`, `timing` and `result` are the tables, `stored` the frame
objects in the bucket, `at`, `analysis`, `left`, `raised`, `tries` a worker's locals. It
refines the `FinishOcr` step of `MediaQueue`. Which frames a run cites and which
image a frame decodes to are chosen anew by each attempt: `StoreFrame` accepts an
existing object only if it holds the same bytes. Frames are stored in any order
(the code goes by index), which includes the code's.

### `IssuesProjection`

`projectCurrentIssues` as the requests it makes: the two reads of its `Promise.all`
that matter (`ReadResults`, `ReadSubChecks`, in either order and of different
snapshots), then either one delete of everything in scope (`RemoveAll`) or, per
creative, a select of what exists and a delete of what is resolved
(`SelectExisting`, `DeleteResolved`), and one upsert. The scope is one creative or the
batch, the caller `complete-evaluation` or a user of `process-issues`. What a metric's
rows say is chosen at the start and never changes, because `complete_evaluator_run`
writes them once; `Write` makes them visible. `completion` is what the caller will
record: the projection's outcome and the update that follows it are one step,
and `"failed"` also stands for a handler that was killed. `overlapped` is a history
variable: the creatives that two projections have had in scope at once.

### `CreativeReview`

Extends `MediaQueue`, with any number of jobs, and `EvaluatorRuns`, whose evaluators are
those of the one job `Creative`; the definitions of the specification of `EvaluatorRuns` are
named `RunsInit`, `RunsNext` and so on for that. `Handover` is the one step in which both
move: the row update that sets `agents_triggered_at` and the dispatch it triggers. `Scored` and `Failed` are the columns
of `review_request_summaries` (migration 061); `MediaUnit`, `EvaluationUnit`, `ScoringUnit`,
`IsDone` and `FatalError` are `progressTransform.ts`.

### `EvaluatorPipeline` and the evaluators

| Model | Code |
|---|---|
| `context` | what `loadAgentContext` returns, reduced to what the checks look at: thresholds on time and size, guidance present or not |
| `reply` | the model calls that are over, each with its parsed reply or what stands for one |
| `tries` | the loop counter of `chatJSON` and of `auditVisualQuality` |
| `at`, `checks` | the `evaluate` call of `createEvaluatorHandler`: running, returned with these sub-checks, or thrown |

`SubChecks` is what the evaluators share. A verdict stands for a pair of result and
severity; a pair that the validation refuses is `"unrated"`. The code treats a failure
without a severity in three ways (`fromLlmSubCheck`: low, `normalizeModelSubCheck`:
abstain, `makeCheck`: medium), and so does the model. The five evaluator modules are the
deterministic checks, one operator per function of the code. A reply of the extraction
says of each claim it names whether one of its segments is in the ad; the others are
dropped (`processExtractionResponse`). Their data are
abstract: two texts match or not, a time is a number of seconds, a rate of words
shared is equality, a font or region is above or below its threshold.

`EvaluatorPipeline` runs one of them. `Awaited` is the order of the calls, with the two
of the claims evaluator that `Promise.all` starts together. The visual and the claims
evaluator retry a reply they cannot parse (`GarbledRetried`) and throw on a call that
fails (`ProviderFails`), on a third such reply, or on results that the validation
refuses (`Finish`). The other five go on without the reply (`GarbledIgnored`) or, if the
call throws, without the calls after it in the same `try` (`ProviderFailsQuietly`).
What becomes of a run that returned or threw is `EvaluatorRuns`.

### `EvaluatorTransactions`

The calls of `EvaluatorRuns` again, with `complete_evaluator_run` taken apart into the
statements that lock:

| Step | Statement | Lock |
|---|---|---|
| `Begin` | `SELECT status ... FOR UPDATE` (059:19) | the run |
| `Insert` | first row of `agent_results` (030) and its foreign key (018) | the request, FOR KEY SHARE |
| `LockRequest` | `SELECT ... FOR UPDATE` of the trigger (051:67) and what it schedules | the request |
| `InsertNext` | the rows after it, each with its trigger | held already |
| `Commit` | the run is set to completed | none are held after it |

`written` and `schedule` are what a transaction has done and nobody else sees; `run`,
`result`, `completion` and `posts` are what is committed. At READ COMMITTED the count in
the trigger sees the committed rows and its own. The sweep (060) and
`delete_review_request` (056) go from row to row in any order, hold what they have
locked, and look again at a row they waited for. The deletion locks the request first
and the runs through ON DELETE CASCADE. `Awaited` is whom a statement waits for;
`Deadlocked` is a cycle of it, which Postgres ends by an error in any one of
those on it (`AbortCall`, `AbortSweep`, `AbortDeletion`). Statements that lock one row and commit
(`Claim`, `Fail`) are one step that waits for the row. After a deletion the
model keeps the rows as they were, and `Exists` says that nobody finds them.
The completion handler is left to `EvaluatorRuns`.

### `Submission`

`videos`, `text`, `advanced`, `edited`, `aiFilled`, `selected`, `selection` and so on are the
React state of the same names (brief, URL, goal and platform are one content, `text`); `ids`
counts the ids minted for each video; `parse`, `fetches` and `submit` are the calls
under way, each with what its closure holds (the parser's answer spares the fields that
had been edited when it was asked, not those edited since); `requests`, `brief` and `started` are the
tables and the jobs of the trigger. `InsertRequests` and `UpsertBrief` may commit and lose their
answer, or fail (`RequestFails`). `DeleteReview` is another tab.
`withdrawn` and `touched` are history variables. Images and logos are left out.

### `ScoreEngine` and `ResultsTransform`

`ScoreEngine` goes from a judgment (a result and a severity for each of the ten
metrics) to the stored scorecard, one operator per function of the code, with the
shipped weights, deductions, thresholds and gates. Decimals are whole numbers of
tenths and the two roundings (`round1`, `roundInt`) are modelled. A sum is written out
over the nine metrics of the engine (`SumOver`). `ResultsTransform` is what the
page makes of scorecard and issues: `toShipStatus`, `toIssues`, the summary and the
sentence that stands for an empty list.

### `ResultPage`

| Model | Code |
|---|---|
| `stage` | what the tables say of each creative: no verdict, scored, completed, failed with or without a scorecard, deleted |
| `route`, `effect`, `timer`, `late`, `failures`, `timedOut` | the address; the runs of the polling effect, its interval and its state |
| `polls` | requests of `fetchBatchProgress`: after the rows of `requests`, after the scorecards, ready |
| `loads` | requests of `fetchBatchResults`, whose queries are answered in any order |
| `progress`, `loaded` | what the page holds, with the batch it is about |
| `overtaken` | history: a late answer has replaced a better one |

`Answer` and `Fail` are the end of a poll, with the timeout, the interval and the effect that
asks for results; `View` is the cascade of conditions in the render. `Navigate` renders the new
batch with the old progress before the effects run, as React does.

### Proof modules and MC modules

`MediaQueueProofs`, `CreativeReviewProofs`, `EvaluatorTransactionsProofs`, `OcrRunProofs`,
`IssuesProjectionProofs`, `EvaluatorPipelineProofs`, `SubmissionProofs` and `ResultPageProofs`
extend the module they are named for. `CreativeReviewProofs` extends `MediaQueueProofs` too and
begins with the proofs about `EvaluatorRuns`, which hold without the rest of a review.
`MC_*` modules define the instances the `.cfg` files assign. Operators commented *Mutant* are the plausible bugs each property has
been checked to catch; no specification uses them.

## 4. Runs

| Run | Instance | Shows |
|---|---|---|
| `media_shipped` | 2 replicas, 2 tasks that may both return None, MAX_RETRIES 1, 2 crashes, 2 missed heartbeats | `ConcurrentAttemptsBounded`, `AgentsSeeFinishedEvidence`, `UnattendedIsFinal`, and under fairness `EventuallyFinal` |
| `media_retry` | 2 replicas, 3 tasks, MAX_RETRIES 3, 3 crashes, no missed heartbeat | retries keep what is done (`SuccessIsKept`), complete only whole creatives (`CompletedIsWhole`) |
| `evaluators_retry` | 2 evaluators with 3 metrics, one of them called twice, 1 completion handler | lifecycle and rows agree, completion follows all evaluators and once, a completed evaluation has both projections, completed work is kept, every run ends |
| `ocr_replicas` | 2 replicas, 2 frames, 2 images, 3 deliveries, 2 attempts each | evidence is what was recognised; `OcrRun` implements `OcrResult`; while deliveries follow one another, status agrees with the result and OCR is not repeated |
| `issues_projection` | 2 creatives, 1 metric, 2 projections | a completed creative shows its issues and no others, unless two projections overlapped on it |
| `creative_review` | 2 replicas, 2 tasks, 2 evaluators, MAX_RETRIES 1, 1 crash, 1 missed heartbeat | evidence is frozen once judged, also with a second replica on the message; page and history agree; done is final once the evaluators are dispatched |
| `evaluator_pipeline` | 7 evaluators, 2 wordings of a call to action, 2 claims, inputs on both sides of each threshold, replies that mostly find one thing | no evaluator that degrades is refused; nothing passes unseen; claims are examined, three kinds apart; worse answers never help; thin evidence neither condemns nor acquits; every run ends |
| `transactions` | 2 evaluators with 3 metrics, one call each, the sweep, 1 deletion | completions are atomic (`EvaluatorRuns` is implemented), nothing survives a deletion, every wait ends |
| `submission` | 2 videos, 1 advanced field, 2 contents, 2 campaigns, 9 acts of the user | one pipeline per video; what is stored was submitted and has no blank the form refuses; the form shows the selection |
| `result_page` | 2 creatives of a batch and a batch of somebody else, 2 polls and 2 loads at a time, 3 runs of the effect; judgments in which all metrics but two agree | only the batch in the address is shown, nobody is missing, the page settles; worse rows never help, the headline lies within the bars, the verdict is explained |
| `media_skipped_task`, `results_before_issues` | smallest instances | the findings of section 7 |

Why the bounds suffice: messages of different creatives share nothing but the
replicas, so one job with two replicas has every interleaving on its rows, and
the second replica is what a lost lease adds. Two tasks distinguish the last
from the others, three also what is kept from what is redone. Two crashes reach a crash
during recovery from one. Two evaluators distinguish *one* from *all*; a second
call of one is a retry racing a late answer; a third call multiplied the states
by fifteen and showed nothing new. Two claims
tell one that a reply covers from one that it does not; the checks of a metric meet only
in the rollup, which looks at the worst one, so replies in which all checks but
one agree tell all orders apart. Two evaluators are what a deadlock needs, with the
sweep and the deletion for cycles of three; one call each, since a second call
does not begin while the first has the run (the theorem `Refinement` has no bound). An
abstention is a judged row there. Nine acts reach a submission, its failure, an edit and a
retry behind an upload, a parse or a selection; videos are symmetric. A third run of
the polling effect is one that follows another navigation or retry; two polls
overtake each other, two loads are for different batches. `result_page` reads
scorecards only (`Reads`); `results_before_issues` reads the issues too, with one run of the
effect. A metric meets the others in the combination of two, in a sum and in the worst
gate, so two that differ from the rest tell the cases apart. Types are proved
in every module that has a proof module, and most runs leave them out. Deadlock checking is off in every run because
all of these systems come to rest when their work is done.

`media_retry` has no missed heartbeat on purpose: with MAX_RETRIES above 1 the
lease is the only thing between two attempts, and with a lost one `SuccessIsKept`
fails (section 7). With the shipped MAX_RETRIES of 1 one attempt at a time
needs no lease, because `read_ct` alone admits one attempt: in `creative_review` the
missed heartbeat lets the second replica read the message while the first works on
or finishes late, and what it does then is to give the creative up. One crash leads
to the same reading after the first is gone. There the replicas are symmetric, and so are the two evaluators, together with their metrics.

## 5. Timing and fairness

* *Leases.* The visibility timeout is 60 s and the heartbeat renews it every
  20 s. A lease may run out (`LeaseExpires`) whenever no worker *holds* it; a worker
  holds it while its heartbeat works, or at a step in `PromptSteps`, assumed to take
  less than what is left of the lease. `media_shipped` assumes this of
  the first statement only (`PromptStart`); `media_retry` and `creative_review` also of the one
  or two statements between the end of the heartbeat and the release of the message
  (`PromptAll`).
* *`Fairness` of `MediaQueue`.* A replica that can act does: `main` polls for ever and
  restarts or reconnects after a failure, and every provider call has a timeout.
  Fairness is per worker, not per outcome: tasks may fail each time. A
  lease that nobody renews runs out. Heartbeats are promised nothing.
* *`Fairness` of `EvaluatorRuns`.* Time passes (`Age`), pg_cron runs (`Reconcile`: one
  statement over all runs that are timed out, fair for each of them), and a
  call or a completion handler that is neither lost nor killed continues. Losing
  and killing are never required and never excluded.
* *`Fairness` of `EvaluatorTransactions`.* A statement that waits for a row goes on
  when the row is released to it; other transactions may lock the row first, so this is
  strong fairness (Postgres queues the waiters, and each holds the row once). A
  deadlock is noticed (`deadlock_timeout`). Nothing is promised of the user, and a call may
  be killed at any step outside a transaction.
* *`Fairness` of `ResultPage`.* A request is answered or fails, the interval ticks and time
  passes. Nothing is promised of the pipeline or the user.
* `Submission` states no liveness: whether its user goes on is his affair.
* *Fairness of `EvaluatorPipeline`.* A call is answered or fails, and the handler goes on.
  `chat` sets no timeout, so that the first half is a promise of the provider or of the
  platform's limit on a request; where neither keeps it, `Reconcile` of
  `EvaluatorRuns` ends the run.

## 6. Proofs

All theorems hold for every value of the constants that satisfies the named
assumptions (`ConstantsAssumption`, `EvaluatorsAssumption`, `OcrAssumption`, `PipelineAssumption`,
`TransactionsAssumption`, `SubmissionAssumption`, `PageAssumption`, `JudgmentsAssumption`);
`IssuesProjection` needs none.

* `TypeCorrect`, `AttemptsBounded` (`MediaQueueProofs`). `ConcurrentAttemptsBounded` is not
  inductive: it needs that every live delivery carries a count of its own
  (`DistinctDeliveries`: the counts of the workers on one message differ, none exceeds
  `readCt`, and none above `MaxRetries` is processed). The processors of a
  message then map one to one into `1..MaxRetries`, and a lemma on cardinalities ends the
  argument. No lease occurs in it.
* `EvidenceComplete`. The trigger fires when no row is `'processing'`; that
  every task also *has* a row follows from `MarkedHaveRows` (a worker persists
  only after it has marked all of its tasks, and no action removes a row).
* `SuccessKept`, `CompletedWhole`, `UnattendedFinal` assume `OneAttemptAtATime`: MAX_RETRIES is
  at most 1, which is what ships, or `LeasesAreKept` (no missed heartbeat, and prompt
  statements around it). Either way at most one worker is past its start on a
  message (`SoleProcessor`): with one attempt since a second read has a count that is given
  up, with leases since a message that is held is not read. What that worker has planned
  then agrees with the rows: it neither runs nor fails a task that is on
  `'success'`. `CompletedWhole` also assumes that no task is skipped, since finding 1 is what a
  skipped task does. `UnattendedFinal` needs the lease of the first statement only (`StartIsPrompt`):
  a worker that lost its message before it recorded the start leaves nobody to
  record the failure. Without these assumptions each of the three is false; TLC has the traces.
* `Invariants`, `CompletionIsLast`, `ScorecardGrounded`, `RequestedOnce`, `WorkKept`
  (`CreativeReviewProofs`, for `RunsSpec`). The inductive
  invariant adds to the properties that a call about to complete has an
  output, that posts and handlers exist only after completion was scheduled, and that a
  handler past a projection has left what it stores (`CompletionPending`). `CompleteStep` needs that the metric sets are
  disjoint, not empty and cover all metrics: the ten metrics of migration 059.
* `PartsBehave`: a step of a review is a step of `MediaQueue` and one of `EvaluatorRuns`, or a
  stutter of either. All theorems about the parts hold of the review by it, and
  those about the review start from them.
* `EvaluatedLast`, `EvidenceFrozen` assume MAX_RETRIES at most 1 and nothing of leases. `OnlyAttempt`
  says what the one attempt finds and leaves: no rows before it marks them, a row in
  `'processing'` for every task under way, and finished rows once the evaluators
  have been dispatched, so that whatever would still write a row keeps the
  trigger from firing. With two attempts the properties are false, because the trigger
  fires as soon as no row is `'processing'`, failures included.
* `DoneOver` needs no assumption: the last unit of the page is the completion, and it ends in
  a scorecard or in a failure that the history shows.
* `DispatchedDoneFinal` needs no assumption either: neither of retries nor of leases. `DoneShape` says
  what makes a creative done; after the dispatch that is a scorecard or a failed completion. Both
  stay (`OutcomeStays`), because completion is asked for in turn (`CompletionInTurn`): one
  request, then one handler, then an outcome. Before the dispatch it is false: section 7.
* `ResultsAreEvidenced`, `Refinement` (`OcrRunProofs`). `EvidenceInProgress` says that
  what a worker has stored so far is the image it analysed, which survives the
  uploads of others because no object is overwritten; `SuccessHasResult` carries the
  refinement to `OcrResult`.
* `IssuesShown` (`IssuesProjectionProofs`). What a projection has read exists
  (`ReadsAreGrounded`); an issue is a written row that fails (`IssuesAreGrounded`); off
  `overlapped` at most one projection works on a creative (`OneProjection`); completion
  waits for all rows (`CompletionWaits`), so that its reads, and those of every
  projection after it, see everything (`SeesEverything`) and delete nothing that stands.
* `SequentialStatus`, `SequentialOnce`. As long as deliveries have followed one another
  (`~overlapped`: what a lease that is never lost provides) one worker is on the run,
  and between its look at the status and its completion no result can appear.
* `DegradedEvaluatorsReturn`, `Typed` (`EvaluatorPipelineProofs`). For each evaluator
  that degrades a lemma says that its sub-checks are well-formed verdicts for every
  context and every reply its parser lets pass. The invariant adds that only its own
  calls are over, and that what stands for a missing reply is one of those replies
  (`UnusableIsReply`), so that the lemma applies whenever it finishes.
* `ClaimsExamined`, `SparseIsGentle`, `AbstainsUnseen`, `WorseIsNoBetter` (`EvaluatorPipelineProofs`).
  Two invariants carry them: what stands for the reply of a call that is over is one its
  parser lets pass, or what the code puts for a missing one (`ReplyAccepted`), and
  what was returned is what these replies assemble to (`StepReturned`). From there
  on they are about operators. The rollup gives a metric the rank of its worst judged check
  (`WorstIsWorst`), so a pointwise worse assignment of verdicts has a worse rollup
  (`RollupIsMonotone`). `WorseIsNoBetter` then follows evaluator by evaluator: caps, clamps,
  reconciliation and the deterministic checks do not undo the one answer that is worse.
* `Refinement`, `DeletedForGood`, `TransactionTypes` (`EvaluatorTransactionsProofs`). The
  invariant says that a run has one holder, and that while a call is in its transaction
  the run is `'processing'` and stays so (`RunLocks`); that one transaction at most is past
  the lock of the request, and nobody shares it then (`RequestLocks`); and that
  what such a transaction will schedule is what the committed rows and its own ask for
  (`Scheduling`). Then `Commit` is the step `Complete` of `EvaluatorRuns` and everything before it
  a stutter. For the deletion, `Cascade` adds that it has looked up all results there
  are and that every run is behind it, at its hand or before it; since it waits for
  the holders of all of them, no completion is open when it commits.
* `OnePipeline`, `NavigatesWhenStored`, `FormShowsSelection`, `StoredIsComplete`, `SubmissionTypes`
  (`SubmissionProofs`), for any number of acts. `Stored` ties rows, ids and jobs together: a
  row carries the last id of its video, a video without a row has no job. An
  answer about a campaign carries the number of its selection, and only the last number is
  let in. `StoredIsComplete`: the snapshot of the click was checked then, the form may be
  anything since, and both requests send the snapshot.
* `OwnBatch`, `PageTypes` (`ResultPageProofs`), for any batches, requests and runs of the effect.
  `PageInv`: whatever poll is alive is for the batch in the address, because the cleanup cancels
  the others; results may be late but carry the batch they are of.
* `NobodyMissing`. Progress and results are read at different times from tables that move
  on. The invariant (`Accounted`) says that what a poll has read is of all of its batch
  or of nothing and still true (`Truthful`), and that results which were asked for when the
  batch was over rank a creative or it is `Lost`: over without a scorecard, with no
  poll that says otherwise. The lemmas on how the tables move (`TablesMoveOn`,
  `ReadingsStayTrue`, `ResultsStaySettled`) say why a creative that is lost stays so.
* `WorseNeverHelp`, `HeadlineWithin`, `VerdictAlwaysExplained`: what the page says of a creative
  is a function of what its evaluators said, so these are facts about the functions, for every
  judgment and not only the ones of the run. Two ratios in order have rounded
  quotients in order (`RoundedMonotone`). A worse judgment leaves the divisor alone and
  lowers no term of the sum (`WorseMean`), closes no gate (`WorseGates`), and no lower per cent
  has a better verdict (`VerdictMonotone`). The bars part the metrics that have a
  weight (`BarsPartition`), and of shares that add up to a whole one is no larger in proportion
  to its weight than the whole and one no smaller (`Shares`). Priorities are a total order, so
  that there is a first issue, and it is a gate if one is down (`FirstIsGate`). The
  numbers are the shipped ones: with other weights, bars or thresholds the last two can fail.

Only model-checked: liveness (`EventuallyFinal`, `RunsEnd`, `EveryRunEnds`, `NobodyWaitsForEver`,
`PageSettles`). Liveness under fairness and ENABLED are out of the prover's reach. Every
other property of a passing run is a theorem.

## 7. Findings

Each is a run that TLC refutes with a shortest trace.

1. `media_skipped_task`: a task that returns None (a video without audio, OCR without
   an adapter) leaves its row on `'processing'` while the job completes and its
   message is deleted; the evaluators of that creative never start.
2. `results_before_issues`: a video counts as done as soon as its scorecard exists, the
   issues are written after it, and the page asks for both once: it shows "No issues
   found" under a bad verdict until it is reloaded.

Noticed while modelling, and not carried as runs.

*Worker.* With MAX_RETRIES above 1 (the documentation says 3, `settings.py` ships 1) a lost
lease lets a second replica mark rows that the first has finished, a late failure
overwrites a completed OCR Run (`ocr_runs.py:200`), and a partly failed attempt
dispatches the evaluators on evidence that its retry rewrites; with 1, a crash is never
retried, unlike `ARCHITECTURE.md:145` says. The same late failure is why
`StatusMatchesResult` and `OcrIsNotRepeated` are stated for deliveries that follow one another;
with 1, `ConcurrentAttemptsBounded` says that they do. Also with 1, a replica that reads a
message whose lease was lost gives the creative up while the first still works on it: the page
shows a fatal failure and stops asking, because "nothing will change again"
(`useRequestProgress.ts:90`), then the first one finishes and the evaluators start after
all. `DispatchedDoneIsFinal` is therefore about creatives whose evaluators were dispatched.

*Evaluators.* If the provider cannot be reached, the call-to-action metric passes, because
checks on the calls to action that were found pass when there are none
(`cta-effectiveness-agent/agent.ts:131`). A policy depiction that is detected with severity 0
fails the whole claims run (`claims-agent/metrics.ts:318`). A claim that triage calls
verifiable but gives no category is not examined (`claims-agent/agent.ts:27`), nor is one none
of whose segment ids the extraction got right (`claims-agent/checks.ts:247`); product truth
can pass on such claims.

*Completion.* The request for it is posted once: lost, or its handler killed, a fully
evaluated creative has neither scorecard nor failure (`051:119`). An evaluator that abstains must
give its metrics the severity `cannot_assess` (`validation.ts:5-18`), which the projection
refuses (`fromAgentResults.ts:84`): one abstention fails the evaluation with METRICS_NOT_READY,
although `score_engine_proposal_v0.3.md:25` excludes such a metric from the per cent and
`from_agent_results_test.ts:126-170` scores it. `RejectMetrics` models what happens; no
property says that it should. A call of `process-issues`
that read before the last evaluator wrote may remove what the completion has just
projected; `IssuesShown` says that this is the only way. One failed evaluator leaves the
scoring unit `'queued'` for ever (`progressTransform.ts:257`), so the page of the whole batch is
not released, although history shows the creative as failed. A timed-out run that is
claimed by its late request takes a "terminal" unit of the page back to processing.

*Locks.* Two evaluators that complete at once both hold the request FOR KEY SHARE and both
ask for it FOR UPDATE (`051:71`): Postgres aborts one, its valid results are rolled back
and its run is recorded as failed, which nothing retries. The `select` is outside
the exception block that keeps "scheduling failures" from "rolling back evaluator data"
(`051:131`). A deletion that meets a completion between its two locks deadlocks with it,
and one of the two fails. `CompletionsAreAtomic` holds because the loser is rolled back
as a whole.

*Pages.* Late results of a batch that the user has left are stored over the ones shown
(`ResultPage.tsx:228`), and since they are of another batch the page says "Loading your
results" for ever; an overtaken poll leaves it on "processing" with no timer; a first poll
that never returns arms no interval and no timeout (the variable `overtaken`, and the fairness,
exclude these). A gated video may rank first, since the ranking looks at the per cent only. A per cent of
84.5 to 84.9 is shown as 85 with the lower verdict. A critical failure of a metric of
little weight is still "Ready"; a low one shows 100.

*Submission.* A field that is edited while the parser is asked is overwritten by the answer,
which spares only what had been edited when the call was made (`CampaignForm.tsx:291`), and
a field whose filling was undone meanwhile is marked as filled again (287-298). A retry after an edit leaves the rows of the first attempt, with its URL and
job, under the brief of the second (`CampaignForm.tsx:427-430`). A video that is being
removed still counts as done, and a removal during or after a failed attempt deletes the object
of a row that exists. The parser's answer may land on the fields of a campaign that was
selected meanwhile, and the details of a campaign on fields edited meanwhile. A
retry after the review was deleted in another tab inserts rows under it.

## 8. What is not modelled

* Text, prompts, images and provider calls: their outcomes are choices.
* Locks of other transactions than those of `EvaluatorTransactions`: the projections are
  one statement per request, and the trigger of migration 044 locks the request row,
  so its evaluation is serial.
* The aggregate of `review_request_summaries` over the creatives of a batch, and
  deletion against a running worker (plan 12). A batch of several creatives is in
  `IssuesProjection`, `Submission` and `ResultPage` only.
* Product images and logos of a submission; the player, the PDF and percentages of progress.
* Of the evaluators: wording, evidence references, confidence, suggested corrections,
  what a prompt shows the model of the evidence, and duplicate claim identifiers.
* OCR and sampling algorithms: plan 15.
* Authentication, row-level security, rendering: configuration, or not behaviour
  over time. `PROJECT.json` names each part with its reason.
