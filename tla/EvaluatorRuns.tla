---------------------------- MODULE EvaluatorRuns ----------------------------
(***************************************************************************)
(* The evaluators of one Ad Creative: the evaluator_runs rows that record  *)
(* their lifecycle, the Edge Function calls that carry them out, the       *)
(* agent_results rows they produce, and the evaluation completion those    *)
(* rows schedule (scorecard and issues).                                   *)
(*                                                                         *)
(* Postgres functions and triggers are atomic.  Between two of them an     *)
(* Edge Function may be overtaken by another call or be killed.  pg_net    *)
(* delivers a request at most once, after the commit, at any later time.   *)
(*                                                                         *)
(* status 'pending' is written and overwritten inside the dispatching      *)
(* transaction, so no other session ever sees it.                          *)
(***************************************************************************)
EXTENDS Naturals, FiniteSets

CONSTANTS
  Evaluators,   \* the evaluators of a creative
  Metrics,      \* the canonical atomic metrics
  MetricsOf,    \* MetricsOf[e]: the metrics evaluator e must return
  Calls,        \* <<e, i>>: the i-th HTTP call of evaluator e; the trigger sends the first
  Handlers      \* invocations of complete-evaluation that may run at one time

ASSUME EvaluatorsAssumption ==
  /\ IsFiniteSet(Evaluators) /\ Evaluators # {}
  /\ MetricsOf \in [Evaluators -> SUBSET Metrics]
  /\ \A e \in Evaluators : MetricsOf[e] # {}
  /\ \A d, e \in Evaluators : d # e => MetricsOf[d] \cap MetricsOf[e] = {}
  /\ \A m \in Metrics : \E e \in Evaluators : m \in MetricsOf[e]
  /\ Calls \subseteq Evaluators \X (Nat \ {0})
  /\ \A e \in Evaluators : <<e, 1>> \in Calls

VARIABLES
  run,        \* run[e]: evaluator_runs.status, "absent" before the dispatch
  stale,      \* stale[e]: its updated_at is older than 10 minutes
  result,     \* result[m]: the agent_results row of metric m
  at,         \* at[c]: where call c is
  output,     \* output[c]: what its evaluator returned
  completion, \* requests.evaluation_completion_status
  lastError,  \* what evaluation_completion_last_error is about
  posts,      \* complete-evaluation requests queued in pg_net
  phase,      \* phase[h]: where invocation h of complete-evaluation is
  scorecard,  \* the result_score_table row exists
  issues      \* the completion has projected the issues of the results

runVars        == <<run, stale>>
callVars       == <<at, output>>
completionVars == <<completion, lastError, posts, phase, scorecard, issues>>
evalVars       == <<runVars, result, callVars, completionVars>>

RunStatus  == {"absent", "dispatched", "processing", "completed",
               "dispatch_failed", "failed", "timed_out"}
Ended      == {"completed", "dispatch_failed", "failed", "timed_out"}
Claimable  == {"dispatched", "failed", "timed_out"}

\* "judged" is a row with result true or false, "abstained" one with
\* result and severity 'cannot_assess'.
Results == {"absent", "judged", "abstained"}

RunsTypeOK ==
  /\ run \in [Evaluators -> RunStatus]
  /\ stale \in [Evaluators -> BOOLEAN]
  /\ result \in [Metrics -> Results]
  /\ at \in [Calls -> {"unused", "inflight", "evaluating", "complete",
                       "failing", "over"}]
  /\ output \in [Calls -> {"none", "judged", "abstained", "incomplete"}]
  /\ completion \in {"null", "pending", "processing", "completed", "failed"}
  /\ lastError \in {"none", "not_scheduled", "metrics_not_ready", "projection"}
  /\ posts \in Nat
  /\ phase \in [Handlers -> {"idle", "score", "issues", "finish",
                             "not_ready", "broken"}]
  /\ scorecard \in BOOLEAN /\ issues \in BOOLEAN

RunsInit ==
  /\ run = [e \in Evaluators |-> "absent"]
  /\ stale = [e \in Evaluators |-> FALSE]
  /\ result = [m \in Metrics |-> "absent"]
  /\ at = [c \in Calls |-> "unused"]
  /\ output = [c \in Calls |-> "none"]
  /\ completion = "null"
  /\ lastError = "none"
  /\ posts = 0
  /\ phase = [h \in Handlers |-> "idle"]
  /\ scorecard = FALSE /\ issues = FALSE

-----------------------------------------------------------------------------
(* Dispatch and delivery.                                                  *)

\* The trigger plans every run and posts to every endpoint in one transaction;
\* a post that raises marks its own evaluator and no other.
Dispatch(posted) ==
  /\ \A e \in Evaluators : run[e] = "absent"
  /\ run' = [e \in Evaluators |->
               IF e \in posted THEN "dispatched" ELSE "dispatch_failed"]
  /\ at' = [c \in Calls |->
               IF c[1] \in posted /\ c[2] = 1 THEN "inflight" ELSE at[c]]
  /\ UNCHANGED <<stale, result, output, completionVars>>

\* Someone who holds the internal secret calls an endpoint, after the trigger or
\* because its post failed.
Resend(c) ==
  /\ at[c] = "unused"
  /\ run[c[1]] # "absent"
  /\ at' = [at EXCEPT ![c] = "inflight"]
  /\ UNCHANGED <<runVars, result, output, completionVars>>

\* The request is lost, or the function is killed between two statements.
Lose(c) ==
  /\ at[c] \in {"inflight", "evaluating", "complete", "failing"}
  /\ at' = [at EXCEPT ![c] = "over"]
  /\ UNCHANGED <<runVars, result, output, completionVars>>

-----------------------------------------------------------------------------
(* createEvaluatorHandler.                                                 *)

SetRun(e, status) ==
  /\ run' = [run EXCEPT ![e] = status]
  /\ stale' = [stale EXCEPT ![e] = FALSE]

\* Mutant: a completed run can be claimed again.
Claim_AnyEnded(c) ==
  /\ at[c] = "inflight" /\ run[c[1]] \in {"dispatched"} \cup Ended
  /\ SetRun(c[1], "processing")
  /\ at' = [at EXCEPT ![c] = "evaluating"]
  /\ UNCHANGED <<result, output, completionVars>>

\* mark_evaluator_run_started.
Claim(c) ==
  /\ at[c] = "inflight" /\ run[c[1]] \in Claimable
  /\ SetRun(c[1], "processing")
  /\ at' = [at EXCEPT ![c] = "evaluating"]
  /\ UNCHANGED <<result, output, completionVars>>

\* EVALUATOR_RUN_NOT_AVAILABLE.
Refuse(c) ==
  /\ at[c] = "inflight" /\ run[c[1]] \notin Claimable
  /\ at' = [at EXCEPT ![c] = "over"]
  /\ UNCHANGED <<runVars, result, output, completionVars>>

\* The evaluator returns; one that abstains does so for its whole metric set.
Evaluate(c, answer) ==
  /\ at[c] = "evaluating"
  /\ output' = [output EXCEPT ![c] = answer]
  /\ at' = [at EXCEPT ![c] = "complete"]
  /\ UNCHANGED <<runVars, result, completionVars>>

\* evaluate() or validateMetricResults throws.
EvaluateThrows(c) ==
  /\ at[c] = "evaluating"
  /\ at' = [at EXCEPT ![c] = "failing"]
  /\ UNCHANGED <<runVars, result, output, completionVars>>

\* Mutant: any evaluator's rows are taken for the complete set.
Schedule_AnyRows(rows) ==
  IF (\E m \in Metrics : rows[m] # "absent") /\ completion # "pending"
  THEN completion' = "pending" /\ lastError' = "none" /\ posts' = posts + 1
  ELSE UNCHANGED <<completion, lastError, posts>>

\* trigger_evaluation_completion. It runs for every row written; only the first
\* run that finds the ten metrics can find a status other than 'pending'.
Schedule(rows) ==
  IF (\A m \in Metrics : rows[m] # "absent") /\ completion # "pending"
  THEN \/ completion' = "pending" /\ lastError' = "none" /\ posts' = posts + 1
       \/ completion' = "failed" /\ lastError' = "not_scheduled" /\ UNCHANGED posts
  ELSE UNCHANGED <<completion, lastError, posts>>

\* The call is over, or its answer is lost after the commit and the handler
\* takes that for a failure of its own.
Answer(c) == \E place \in {"over", "failing"} : at' = [at EXCEPT ![c] = place]

\* complete_evaluator_run: rows and status in one transaction.
Complete(c) ==
  LET e == c[1]
      rows == [m \in Metrics |-> IF m \in MetricsOf[e] THEN output[c] ELSE result[m]]
  IN
  /\ at[c] = "complete"
  /\ run[e] = "processing" /\ output[c] # "incomplete"
  /\ result' = rows
  /\ SetRun(e, "completed")
  /\ Schedule(rows)
  /\ Answer(c)
  /\ UNCHANGED <<output, phase, scorecard, issues>>

\* The run was completed by another call: nothing is written.
CompleteAgain(c) ==
  /\ at[c] = "complete" /\ run[c[1]] = "completed"
  /\ Answer(c)
  /\ UNCHANGED <<runVars, result, output, completionVars>>

\* The run is not processing, the metric set is not the canonical one, or the
\* transaction is rolled back: a lost connection or a deadlock.
CompleteRaises(c) ==
  /\ at[c] = "complete"
  /\ at' = [at EXCEPT ![c] = "failing"]
  /\ UNCHANGED <<runVars, result, output, completionVars>>

\* Mutant: a failure overwrites whatever the run has become.
Fail_AnyStatus(c) ==
  /\ at[c] = "failing"
  /\ SetRun(c[1], "failed")
  /\ at' = [at EXCEPT ![c] = "over"]
  /\ UNCHANGED <<result, output, completionVars>>

\* mark_evaluator_run_failed: whichever attempt the processing run belongs to.
Fail(c) ==
  /\ at[c] = "failing"
  /\ IF run[c[1]] = "processing" THEN SetRun(c[1], "failed") ELSE UNCHANGED runVars
  /\ at' = [at EXCEPT ![c] = "over"]
  /\ UNCHANGED <<result, output, completionVars>>

-----------------------------------------------------------------------------
(* Reconciliation: pg_cron runs it every minute.                           *)

Age(e) ==
  /\ run[e] \in {"dispatched", "processing"} /\ ~stale[e]
  /\ stale' = [stale EXCEPT ![e] = TRUE]
  /\ UNCHANGED <<run, result, callVars, completionVars>>

\* Mutant: only runs that were never claimed time out.
TimedOut_Unclaimed(e) == stale[e] /\ run[e] = "dispatched"

TimedOut(e) == stale[e] /\ run[e] \in {"dispatched", "processing"}

\* One sweep ends the runs that had timed out when it began and still have when
\* it comes to them; others may have timed out since.
Reconcile(found) ==
  /\ found # {} /\ \A e \in found : TimedOut(e)
  /\ run' = [e \in Evaluators |-> IF e \in found THEN "timed_out" ELSE run[e]]
  /\ stale' = [e \in Evaluators |-> stale[e] /\ e \notin found]
  /\ UNCHANGED <<result, callVars, completionVars>>

-----------------------------------------------------------------------------
(* complete-evaluation.                                                    *)

EnterPhase(h, p) == phase' = [phase EXCEPT ![h] = p]

\* The request is lost, or mark_evaluation_completion_started cannot be called.
LosePost ==
  /\ posts > 0
  /\ posts' = posts - 1
  /\ UNCHANGED <<runVars, result, callVars, completion, lastError, phase, scorecard,
                 issues>>

StartCompletion(h) ==
  /\ posts > 0 /\ phase[h] = "idle"
  /\ posts' = posts - 1
  /\ completion' = "processing"
  /\ lastError' = "none"
  /\ EnterPhase(h, "score")
  /\ UNCHANGED <<runVars, result, callVars, scorecard, issues>>

\* metricInputsFromAgentResults accepts no row whose severity is
\* 'cannot_assess', and none may be missing.
Scorable == \A m \in Metrics : result[m] = "judged"

ProjectScorecard(h) ==
  /\ phase[h] = "score" /\ Scorable
  /\ scorecard' = TRUE
  /\ EnterPhase(h, "issues")
  /\ UNCHANGED <<runVars, result, callVars, completion, lastError, posts, issues>>

\* METRICS_NOT_READY.
RejectMetrics(h) ==
  /\ phase[h] = "score" /\ ~Scorable
  /\ EnterPhase(h, "not_ready")
  /\ UNCHANGED <<runVars, result, callVars, completion, lastError, posts, scorecard, issues>>

ProjectIssues(h) ==
  /\ phase[h] = "issues"
  /\ issues' = TRUE
  /\ EnterPhase(h, "finish")
  /\ UNCHANGED <<runVars, result, callVars, completion, lastError, posts, scorecard>>

\* Mutant: the outcome of the issues projection is not looked at.
ProjectionFails_Unnoticed(h) ==
  /\ phase[h] \in {"score", "issues"}
  /\ EnterPhase(h, IF phase[h] = "issues" THEN "finish" ELSE "broken")
  /\ UNCHANGED <<runVars, result, callVars, completion, lastError, posts, scorecard, issues>>

\* A lookup or a write of either projection fails.
ProjectionFails(h) ==
  /\ phase[h] \in {"score", "issues"}
  /\ EnterPhase(h, "broken")
  /\ UNCHANGED <<runVars, result, callVars, completion, lastError, posts, scorecard, issues>>

\* Mutant: every outcome is reported as a success.
FinishCompletion_IgnoresErrors(h) ==
  /\ phase[h] \in {"finish", "not_ready", "broken"}
  /\ completion' = "completed" /\ lastError' = "none"
  /\ EnterPhase(h, "idle")
  /\ UNCHANGED <<runVars, result, callVars, posts, scorecard, issues>>

\* mark_evaluation_completion_finished, unconditional on the current status.
FinishCompletion(h) ==
  /\ \/ phase[h] = "finish" /\ completion' = "completed" /\ lastError' = "none"
     \/ phase[h] = "not_ready" /\ completion' = "failed"
                               /\ lastError' = "metrics_not_ready"
     \/ phase[h] = "broken" /\ completion' = "failed" /\ lastError' = "projection"
  /\ EnterPhase(h, "idle")
  /\ UNCHANGED <<runVars, result, callVars, posts, scorecard, issues>>

\* The function is killed, throws, or cannot reach the database to finish.
HandlerDies(h) ==
  /\ phase[h] # "idle"
  /\ EnterPhase(h, "idle")
  /\ UNCHANGED <<runVars, result, callVars, completion, lastError, posts, scorecard, issues>>

\* score-result, called by hand, rebuilds the scorecard alone.
RebuildScorecard ==
  /\ Scorable
  /\ scorecard' = TRUE
  /\ UNCHANGED <<runVars, result, callVars, completion, lastError, posts, phase, issues>>

-----------------------------------------------------------------------------
CallStep(c) ==
  \/ Claim(c) \/ Refuse(c)
  \/ \E answer \in {"judged", "abstained", "incomplete"} : Evaluate(c, answer)
  \/ EvaluateThrows(c)
  \/ Complete(c) \/ CompleteAgain(c) \/ CompleteRaises(c)
  \/ Fail(c)

HandlerStep(h) ==
  \/ StartCompletion(h)
  \/ ProjectScorecard(h) \/ RejectMetrics(h)
  \/ ProjectIssues(h) \/ ProjectionFails(h)
  \/ FinishCompletion(h)

\* Everything that happens to the runs once they are dispatched.
Activity ==
  \/ \E c \in Calls : Resend(c) \/ Lose(c) \/ CallStep(c)
  \/ \E e \in Evaluators : Age(e)
  \/ \E found \in SUBSET Evaluators : Reconcile(found)
  \/ LosePost
  \/ \E h \in Handlers : HandlerStep(h) \/ HandlerDies(h)
  \/ RebuildScorecard

RunsNext == (\E posted \in SUBSET Evaluators : Dispatch(posted)) \/ Activity

RunsSpec == RunsInit /\ [][RunsNext]_evalVars

\* Time passes, pg_cron runs every minute, and a function that is neither lost
\* nor killed goes on. A request of pg_net arrives unless it is lost.
RunsFairness ==
  /\ \A e \in Evaluators : WF_evalVars(Age(e))
  /\ \A e \in Evaluators :
       WF_evalVars(\E found \in SUBSET Evaluators : e \in found /\ Reconcile(found))
  /\ \A c \in Calls : WF_evalVars(CallStep(c))
  /\ \A h \in Handlers : WF_evalVars(HandlerStep(h))

RunsFairSpec == RunsSpec /\ RunsFairness

-----------------------------------------------------------------------------
(* Properties.                                                             *)

\* Lifecycle and output never disagree: a run is completed exactly when all its
\* metrics are stored, and otherwise none is (migration 059's reason to exist).
ResultsMatchLifecycle ==
  \A e \in Evaluators :
    IF run[e] = "completed" THEN \A m \in MetricsOf[e] : result[m] # "absent"
                            ELSE \A m \in MetricsOf[e] : result[m] = "absent"

AllCompleted == \A e \in Evaluators : run[e] = "completed"

\* Completion is asked for when the last evaluator completes and not before,
\* in whichever order, and after however many attempts, they complete.
CompletionFollowsEvaluators == (completion # "null") <=> AllCompleted

\* Completion of one creative is requested only once, although every row of a
\* multi-row evaluator write runs the trigger (comment of migration 051:65).
CompletionRequestedOnce ==
  [][completion # "null" => posts' <= posts]_evalVars

\* A scorecard is there only when every evaluator has completed, and an evaluation that is
\* called completed has both its scorecard and its issues, although either projection may
\* fail after the other was stored, and the handler die between any two statements
\* (complete-evaluation/index.ts:47-74).
ScorecardIsGrounded ==
  /\ scorecard => AllCompleted
  /\ completion = "completed" => scorecard /\ issues

\* Completed work is idempotent: a duplicate, late or failing call changes
\* neither the status of a completed run nor any of its rows.
CompletedWorkIsKept ==
  [][\A e \in Evaluators : run[e] = "completed" =>
       /\ run'[e] = "completed"
       /\ \A m \in MetricsOf[e] : result'[m] = result[m]]_evalVars

\* Whatever is lost or killed, a dispatched run ends, and stays ended once the
\* calls are over: no evaluator keeps a review waiting (migration 060).
RunsEnd == \A e \in Evaluators : (run[e] = "dispatched") ~> [](run[e] \in Ended)
=============================================================================
