----------------------------- MODULE ResultPage -----------------------------
(***************************************************************************)
(* The page /result/:batchId of one browser tab: useRequestProgress polls  *)
(* the pipeline of the batch until every video is over, and the results    *)
(* are asked for when that flips.  Requests overlap: a poll is sent every  *)
(* five seconds whether or not the last one was answered, each reads the   *)
(* tables one after another, and the user changes the batch under them.    *)
(*                                                                         *)
(* A batch is reduced to what the tables say of each creative (EvaluatorRuns *)
(* and CreativeReview are the detail).  A creative whose pipeline stopped  *)
(* without a verdict stays "running".                                      *)
(***************************************************************************)
EXTENDS ResultsTransform

CONSTANTS
  Batches,      \* Review Requests of the user
  Creatives,    \* their Ad Creatives
  BatchOf,      \* BatchOf[c]: the batch of creative c
  JudgmentOf,   \* JudgmentOf[c]: what the evaluators say of c
  Reads,        \* the queries for results whose answers are told apart
  Polls,        \* requests for progress that may be under way at once
  Loads,        \* requests for results that may be under way at once
  MaxEffects,   \* bound: runs of the polling effect
  Away, NoBatch \* not on the page; no batch

ASSUME PageAssumption ==
  /\ BatchOf \in [Creatives -> Batches]
  /\ JudgmentOf \in [Creatives -> Judgments]
  /\ Reads \subseteq {"scores", "issues"}
  /\ MaxEffects \in Nat
  /\ Away \notin Batches /\ NoBatch \notin Batches /\ Away # NoBatch

VARIABLES
  stage,     \* stage[c]: how far the pipeline of creative c is
  route,     \* the batch in the address, or Away
  effect,    \* number of the current run of the polling effect
  timer,     \* its interval: not armed before the "first" answer, "armed", "off"
  late,      \* ten minutes have passed since the effect ran
  failures,  \* polls that failed in a row, up to the threshold
  timedOut,  \* the state of that name
  polls,     \* polls[p]: a request for progress
  progress,  \* the progress shown, with the batch it is about
  loads,     \* loads[l]: a request for results
  loaded,    \* the results held, tagged with the batch
  overtaken  \* history: an answer that came late has replaced a better one

pollVars == <<effect, timer, late, failures, timedOut, polls, progress, overtaken>>
loadVars == <<loads, loaded>>
vars     == <<stage, route, pollVars, loadVars>>

Of(b) == {c \in Creatives : BatchOf[c] = b}

ErrorThreshold == 2

Stages == {"running", "scored", "completed", "unissued", "unscored", "deleted"}

Nothing    == [c \in {} |-> "open"]
NoPoll     == [at |-> "idle", batch |-> NoBatch, seen |-> Nothing]
NoProgress == [batch |-> NoBatch, seen |-> Nothing]
NoRows     == [scores |-> {}, issues |-> {}, failed |-> FALSE]
NoLoad     == [at |-> "idle", batch |-> NoBatch, early |-> FALSE, listed |-> {},
               got |-> NoRows, unread |-> {}]
NoResults  == [batch |-> NoBatch, early |-> FALSE, error |-> FALSE, listed |-> {},
               got |-> NoRows]

NoPolls == [p \in Polls |-> NoPoll]
NoLoads == [l \in Loads |-> NoLoad]

\* A place for one more request, if there is one.
Free(requests) ==
  LET idle == {p \in DOMAIN requests : requests[p].at = "idle"} IN
  IF idle = {} THEN {} ELSE {CHOOSE p \in idle : TRUE}

-----------------------------------------------------------------------------
(* The pipeline of a creative, as its last stage writes it: the scorecard, *)
(* then the issues, then the status of the completion.                     *)

\* complete-evaluation: the scorecard is stored, or the completion fails; the issues
\* are stored and the completion recorded, or it fails over them.  An instance that
\* does not read the issues stops at the scorecard.
Steps ==
  {<<"running", "scored">>, <<"running", "unscored">>} \cup
  {step \in {<<"scored", "completed">>, <<"scored", "unissued">>} : "issues" \in Reads}

Pipeline(c) ==
  /\ \E step \in Steps :
       stage[c] = step[1] /\ stage' = [stage EXCEPT ![c] = step[2]]
  /\ UNCHANGED <<route, pollVars, loadVars>>

\* delete_review_request, from this page or another.
Delete(b) ==
  /\ \E c \in Of(b) : stage[c] # "deleted"
  /\ stage' = [c \in Creatives |-> IF BatchOf[c] = b THEN "deleted" ELSE stage[c]]
  /\ UNCHANGED <<route, pollVars, loadVars>>

Listed(b)   == {c \in Of(b) : stage[c] # "deleted"}
HasCard(c)  == stage[c] \in {"scored", "completed", "unissued"}
HasIssues(c) == stage[c] = "completed"

\* evaluation_completion_status, as far as the page distinguishes it.
RowStatus(c) ==
  CASE stage[c] = "completed"               -> "done"
    [] stage[c] \in {"unissued", "unscored"} -> "failed"
    [] OTHER                                -> "open"

-----------------------------------------------------------------------------
(* What React keeps.                                                       *)

\* Mutant: a batch is done as soon as one of its videos is.
IsDone_Some(pr) == \E c \in DOMAIN pr.seen : pr.seen[c] \in {"done", "failed"}

\* buildBatchProgress: every video is over, and there is one.
IsDone(pr) ==
  /\ DOMAIN pr.seen # {}
  /\ \A c \in DOMAIN pr.seen : pr.seen[c] \in {"done", "failed"}

\* fetchBatchResults.  Its first query, the rows of requests, reads as it is sent;
\* without rows there is nothing more to ask.
Request(b, early) ==
  [at |-> "reading", batch |-> b, early |-> early, listed |-> Listed(b),
   got |-> NoRows, unread |-> IF Listed(b) = {} THEN {} ELSE Reads]

\* The results effect runs after a render that changed isDone or the batch.
LoadsAfterRender(b, done, changed) ==
  IF done /\ changed
  THEN \E l \in Free(loads) :
         loads' = [loads EXCEPT ![l] = Request(b, progress'.batch # b)]
  ELSE loads' = loads

\* fetchBatchProgress.  Its first query, the rows of requests, reads as it is sent;
\* none means that there is no batch.
Ask(b) ==
  [at    |-> IF Listed(b) = {} THEN "ready" ELSE "listed",
   batch |-> b,
   seen  |-> [c \in Listed(b) |-> RowStatus(c)]]

\* Mutant: the cleanup forgets the cancelled flag, and polls under way stay alive.
RunEffect_NotCancelled(b) ==
  /\ effect < MaxEffects
  /\ effect' = effect + 1
  /\ timer' = "first"
  /\ late' = FALSE
  /\ failures' = 0
  /\ timedOut' = FALSE
  /\ progress' = NoProgress
  /\ overtaken' = FALSE
  /\ \E p \in Free(polls) : polls' = [polls EXCEPT ![p] = Ask(b)]

\* The polling effect of batch b: polls under way are cancelled, that is, whatever
\* becomes of them has no effect; the state is reset and the first poll is sent.
RunEffect(b) ==
  /\ effect < MaxEffects
  /\ effect' = effect + 1
  /\ timer' = "first"
  /\ late' = FALSE
  /\ failures' = 0
  /\ timedOut' = FALSE
  /\ progress' = NoProgress
  /\ overtaken' = FALSE
  /\ \E p \in Free(NoPolls) : polls' = [NoPolls EXCEPT ![p] = Ask(b)]

-----------------------------------------------------------------------------
(* Polling.                                                                *)

\* The interval is armed once the first poll is over, unless that stopped it.
Tick ==
  /\ route # Away /\ timer = "armed"
  /\ \E p \in Free(polls) : polls' = [polls EXCEPT ![p] = Ask(route)]
  /\ UNCHANGED <<stage, route, effect, timer, late, failures, timedOut, progress,
                 overtaken, loadVars>>

\* The clock of the effect matters while there is a poll to look at it.
TimePasses ==
  /\ route # Away /\ ~late
  /\ timer # "off" \/ \E p \in Polls : polls[p].at # "idle"
  /\ late' = TRUE
  /\ UNCHANGED <<stage, route, effect, timer, failures, timedOut, polls, progress,
                 overtaken, loadVars>>

\* Then the scorecards: one is proof of everything before it.
ReadScores(p) ==
  /\ polls[p].at = "listed"
  /\ polls' = [polls EXCEPT ![p].at = "ready",
       ![p].seen = [c \in DOMAIN @ |-> IF HasCard(c) THEN "done" ELSE @[c]]]
  /\ UNCHANGED <<stage, route, effect, timer, late, failures, timedOut, progress,
                 overtaken, loadVars>>

\* The end of a poll that did not finish the batch: ten minutes, or go on.
Clock ==
  IF late
  THEN timedOut' = TRUE /\ timer' = "off"
  ELSE /\ timedOut' = timedOut
       /\ timer' = IF timer = "first" THEN "armed" ELSE timer

Answer(p) ==
  /\ polls[p].at = "ready"
  /\ polls' = [polls EXCEPT ![p] = NoPoll]
  /\ failures' = 0
  /\ progress' = [batch |-> polls[p].batch, seen |-> polls[p].seen]
  /\ IF IsDone(progress')
     THEN timer' = "off" /\ timedOut' = timedOut
     ELSE Clock
  /\ overtaken' = (overtaken \/ (IsDone(progress) /\ ~IsDone(progress')))
  /\ LoadsAfterRender(route, IsDone(progress'), ~IsDone(progress))
  /\ UNCHANGED <<stage, route, effect, late, loaded>>

\* Mutant: a failure stops the interval.
Fail_Stops(p) ==
  /\ polls[p].at # "idle"
  /\ polls' = [polls EXCEPT ![p] = NoPoll]
  /\ failures' = IF failures < ErrorThreshold THEN failures + 1 ELSE failures
  /\ timer' = "off" /\ timedOut' = timedOut
  /\ UNCHANGED <<stage, route, effect, late, progress, overtaken, loadVars>>

\* One of its requests failed.  The interval goes on.
Fail(p) ==
  /\ polls[p].at # "idle"
  /\ polls' = [polls EXCEPT ![p] = NoPoll]
  /\ failures' = IF failures < ErrorThreshold THEN failures + 1 ELSE failures
  /\ Clock
  /\ UNCHANGED <<stage, route, effect, late, progress, overtaken, loadVars>>

-----------------------------------------------------------------------------
(* The results.                                                            *)

\* What the queries after the first see.  review_request_summaries, which calls a
\* batch failed if all of it did, is read with the scores: both are final when the
\* results are asked for.
See(r, b, got) ==
  CASE r = "scores" ->
         [got EXCEPT !.scores = {c \in Listed(b) : HasCard(c)},
                     !.failed = /\ Listed(b) # {}
                                /\ \A c \in Listed(b) : stage[c] = "unscored"]
    [] r = "issues" -> [got EXCEPT !.issues = {c \in Listed(b) : HasIssues(c)}]

\* They see no one snapshot.
ReadPart(l, r) ==
  /\ loads[l].at = "reading" /\ r \in loads[l].unread
  /\ loads' = [loads EXCEPT ![l].unread = @ \ {r},
                            ![l].got = See(r, loads[l].batch, @)]
  /\ UNCHANGED <<stage, route, pollVars, loaded>>

\* setLoaded, whatever the page shows by now: results of another batch are never
\* shown, but they replace the ones that are.
Loaded(l, failed) ==
  /\ overtaken' = (overtaken \/ (loaded.batch = route /\ loads[l].batch # route))
  /\ loads' = [loads EXCEPT ![l] = NoLoad]
  /\ loaded' = [batch |-> loads[l].batch, early |-> loads[l].early, error |-> failed,
                listed |-> IF failed THEN {} ELSE loads[l].listed,
                got |-> IF failed THEN NoRows ELSE loads[l].got]
  /\ UNCHANGED <<stage, route, effect, timer, late, failures, timedOut, polls, progress>>

LoadEnds(l)  == loads[l].at = "reading" /\ loads[l].unread = {} /\ Loaded(l, FALSE)
LoadFails(l) == loads[l].at # "idle" /\ Loaded(l, TRUE)

-----------------------------------------------------------------------------
(* What the page shows.                                                    *)

ForThisBatch == IF loaded.batch = route THEN loaded ELSE NoResults

Ranked == ForThisBatch.listed \cap ForThisBatch.got.scores

ReviewFailed == ForThisBatch.got.failed

\* The states of ResultPage, in their order.
View ==
  IF route = Away THEN "away"
  ELSE IF progress = NoProgress
       THEN IF failures = ErrorThreshold \/ timedOut THEN "could not load" ELSE "connecting"
  ELSE IF DOMAIN progress.seen = {} THEN "not found"
  ELSE IF ~IsDone(progress) THEN "processing"
  ELSE CASE ForThisBatch.error       -> "error"
         [] ForThisBatch = NoResults -> "loading"
         [] ReviewFailed             -> "failed review"
         [] OTHER                    -> IF Ranked = {} THEN "no results" ELSE "results"

Cards == [c \in Creatives |-> Scorecard(Rows(JudgmentOf[c]))]
IssuesOf == [c \in Creatives |-> buildIssuesSummary(Rows(JudgmentOf[c]))]

\* A video of the ranking, as it is shown.
Shown(c) ==
  Video(Cards[c], IF c \in ForThisBatch.got.issues THEN IssuesOf[c] ELSE {})

-----------------------------------------------------------------------------
(* The user.                                                               *)

\* The address changes and React Router keeps the component: a render with the
\* new batch and the progress of the old one, and then the effects.
Navigate(b) ==
  /\ route # Away /\ b # route
  /\ route' = b
  /\ RunEffect(b)
  /\ LoadsAfterRender(b, IsDone(progress), TRUE)
  /\ UNCHANGED <<stage, loaded>>

\* The button beside what could not be loaded or has timed out.
Retry ==
  /\ View = "could not load" \/ (View = "processing" /\ timedOut)
  /\ RunEffect(route)
  /\ UNCHANGED <<stage, route, loadVars>>

\* The button beside results that could not be loaded.
Reload ==
  /\ View = "error"
  /\ \E l \in Free(loads) :
       loads' = [loads EXCEPT ![l] = Request(route, FALSE)]
  /\ UNCHANGED <<stage, route, pollVars, loaded>>

\* Any link, and the end of a deletion from this page: React forgets the page.
Leave ==
  /\ route # Away
  /\ route' = Away
  /\ timer' = "off"
  /\ late' = FALSE /\ failures' = 0 /\ timedOut' = FALSE /\ overtaken' = FALSE
  /\ polls' = NoPolls /\ progress' = NoProgress
  /\ loads' = NoLoads /\ loaded' = NoResults
  /\ UNCHANGED <<stage, effect>>

-----------------------------------------------------------------------------
Init ==
  /\ stage = [c \in Creatives |-> "running"]
  /\ route \in Batches
  /\ effect = 1
  /\ timer = "first"
  /\ late = FALSE
  /\ failures = 0
  /\ timedOut = FALSE
  /\ \E p \in Free(NoPolls) : polls = [NoPolls EXCEPT ![p] = Ask(route)]
  /\ progress = NoProgress
  /\ loads = NoLoads
  /\ loaded = NoResults
  /\ overtaken = FALSE

Polling(p) ==
  ReadScores(p) \/ Answer(p) \/ Fail(p)

Loading(l) ==
  (\E r \in Reads : ReadPart(l, r)) \/ LoadEnds(l) \/ LoadFails(l)

Next ==
  \/ \E c \in Creatives : Pipeline(c)
  \/ \E b \in Batches : Delete(b) \/ Navigate(b)
  \/ Tick \/ TimePasses \/ Retry \/ Reload \/ Leave
  \/ \E p \in Polls : Polling(p)
  \/ \E l \in Loads : Loading(l)

Spec == Init /\ [][Next]_vars

\* A request is answered or fails, the interval ticks and time passes.  Nothing is
\* promised of the pipeline or the user.
Fairness ==
  /\ WF_vars(Tick) /\ WF_vars(TimePasses)
  /\ \A p \in Polls : WF_vars(Polling(p))
  /\ \A l \in Loads : WF_vars(Loading(l))

FairSpec == Spec /\ Fairness

-----------------------------------------------------------------------------
(* Properties.                                                             *)

Marks   == {"open", "done", "failed"}
Seen    == UNION {[shown -> Marks] : shown \in SUBSET Creatives}
Answers == [scores : SUBSET Creatives, issues : SUBSET Creatives, failed : BOOLEAN]
Tags    == Batches \cup {NoBatch}

TypeOK ==
  /\ stage \in [Creatives -> Stages]
  /\ route \in Batches \cup {Away}
  /\ effect \in Nat
  /\ timer \in {"first", "armed", "off"}
  /\ late \in BOOLEAN /\ timedOut \in BOOLEAN /\ overtaken \in BOOLEAN
  /\ failures \in 0..ErrorThreshold
  /\ polls \in [Polls -> [at : {"idle", "listed", "ready"}, batch : Tags, seen : Seen]]
  /\ progress \in [batch : Tags, seen : Seen]
  /\ loads \in [Loads -> [at : {"idle", "reading"}, batch : Tags, early : BOOLEAN,
                         listed : SUBSET Creatives, got : Answers, unread : SUBSET Reads]]
  /\ loaded \in [batch : Tags, early : BOOLEAN, error : BOOLEAN,
                 listed : SUBSET Creatives, got : Answers]

Outcomes == {"results", "failed review", "no results", "error"}

\* What is shown is of the batch in the address, although answers for another one
\* may come at any time (ResultPage.tsx:94-98, 240-245).
ShowsOwnBatch ==
  /\ progress.batch \in {route, NoBatch} \/ route = Away
  /\ View \in Outcomes => ForThisBatch.batch = route

\* No video is quietly absent: each video of a batch is in the ranking or among the
\* ones that could not be reviewed, though progress and results are read at
\* different times.  Results asked for under the progress of another batch are not
\* meant.
NobodyIsMissing ==
  View = "results" /\ ~ForThisBatch.early =>
    \A c \in Of(route) : c \in Ranked \/ progress.seen[c] = "failed"

\* Where results are shown, whatever the evaluators said: a video found worse in one
\* respect never has a higher per cent or a better verdict, through combination,
\* weights, gates and two roundings (scoreEngine.ts, fromAgentResults.ts:96-133).
WorseRowsNeverHelp == View = "results" => WorseNeverScoresBetter

\* The headline of a video lies within the bars below it, although weights and bars
\* are two tables (config.ts:9-19, 44-80).
HeadlineWithinBreakdown == View = "results" => BarsEncloseHeadline

\* Verdict, per cent and the list of issues, derived apart, do not contradict each
\* other (scoreEngine.ts:199-217, resultsTransform.ts:232-281).
VerdictIsExplained == View = "results" => IssuesExplainVerdict

\* Whatever becomes of the pipeline and of the requests, the page does not wait for
\* ever: it comes to an outcome, or says that it has given up.  The exception is an
\* answer that was overtaken: the poll of an earlier tick, the results of a batch
\* that the user has left.
PageSettles ==
  (route # Away) ~> (View \in Outcomes \/ timedOut \/ overtaken \/ route = Away)

-----------------------------------------------------------------------------
(* What the repository says of this code and the runs refute.              *)

\* "complete-evaluation only writes after both projections have succeeded. So by
\* the time we ask for results, they are there" (ResultPage.tsx:15-16): a video
\* that is said to have no issues is ready.
ResultsAreWhole ==
  View = "results" /\ ~ForThisBatch.early =>
    \A c \in Ranked : stage[c] = "completed" /\ Shown(c).summary = "no_issues_found" =>
      Shown(c).status = "ready"
=============================================================================
