------------------------ MODULE CreativeReviewProofs ------------------------
(***************************************************************************)
(* What holds of one Ad Creative from its submission to its verdict: first *)
(* of its evaluators on their own, for every set of evaluators and metrics *)
(* and every number of calls and handlers; then of the evaluators beside   *)
(* Media Processing, from what MediaQueueProofs says of the workers.       *)
(***************************************************************************)
EXTENDS CreativeReview, MediaQueueProofs

-----------------------------------------------------------------------------
(* The evaluators on their own (EvaluatorRuns).                            *)

\* A call that is about to complete its run has an output.
OutputReady == \A c \in Calls : at[c] = "complete" => output[c] # "none"

\* The parts of the inductive invariant that concern completion: nothing of it
\* exists before every evaluator has completed, and a handler that is past a
\* projection has left what that projection stores.
CompletionPending ==
  /\ posts > 0 => completion # "null"
  /\ \A h \in Handlers : phase[h] # "idle" => completion # "null"
  /\ \A h \in Handlers : phase[h] \in {"issues", "finish"} => scorecard
  /\ \A h \in Handlers : phase[h] = "finish" => issues

RunsIInv ==
  /\ RunsTypeOK
  /\ OutputReady
  /\ ResultsMatchLifecycle
  /\ CompletionFollowsEvaluators
  /\ CompletionPending
  /\ ScorecardIsGrounded

\* Before the dispatch there is nothing to disagree about.
LEMMA RunsInitIInv == RunsInit => RunsIInv
<1> SUFFICES ASSUME RunsInit PROVE RunsIInv
  OBVIOUS
<1> USE DEF RunsInit
<1>1. RunsTypeOK
  BY DEF RunsTypeOK, RunStatus, Results
<1>2. OutputReady /\ CompletionPending
  BY DEF OutputReady, CompletionPending
<1>3. ResultsMatchLifecycle
  BY EvaluatorsAssumption DEF ResultsMatchLifecycle
<1>4. ~AllCompleted
  BY EvaluatorsAssumption DEF AllCompleted
<1>5. CompletionFollowsEvaluators /\ ScorecardIsGrounded
  BY <1>4 DEF CompletionFollowsEvaluators, ScorecardIsGrounded
<1> QED  BY <1>1, <1>2, <1>3, <1>5 DEF RunsIInv

\* Dispatch, claim, failure and timeout: an action that leaves rows and
\* completion alone and neither completes a run nor reopens a completed one.
LifecycleStep ==
  /\ run' \in [Evaluators -> RunStatus]
  /\ stale' \in [Evaluators -> BOOLEAN]
  /\ \A e \in Evaluators : (run'[e] = "completed") <=> (run[e] = "completed")
  /\ at' \in [Calls -> {"unused", "inflight", "evaluating", "complete",
                        "failing", "over"}]
  /\ output' \in [Calls -> {"none", "judged", "abstained", "incomplete"}]
  /\ \A c \in Calls : at'[c] = "complete" =>
       output'[c] # "none"
  /\ UNCHANGED <<result, completion, lastError, posts, phase, scorecard, issues>>

\* A step that moves runs as the lifecycle allows, and leaves the rows alone, keeps the
\* agreement.
LEMMA LifecycleKeeps ==
  ASSUME RunsIInv, LifecycleStep
  PROVE  RunsIInv'
<1>1. RunsTypeOK' /\ OutputReady'
  BY DEF RunsIInv, RunsTypeOK, LifecycleStep, OutputReady
<1>2. AllCompleted' <=> AllCompleted
  BY DEF AllCompleted, LifecycleStep
<1>3. ResultsMatchLifecycle'
  BY DEF RunsIInv, ResultsMatchLifecycle, LifecycleStep
<1>4. CompletionFollowsEvaluators'
  BY <1>2 DEF RunsIInv, CompletionFollowsEvaluators, LifecycleStep
<1>5. CompletionPending' /\ ScorecardIsGrounded'
  BY <1>2 DEF RunsIInv, CompletionPending, ScorecardIsGrounded, LifecycleStep
<1> QED  BY <1>1, <1>3, <1>4, <1>5 DEF RunsIInv

\* The dispatching trigger is such a step.
LEMMA DispatchStep ==
  ASSUME RunsIInv, NEW posted \in SUBSET Evaluators, Dispatch(posted)
  PROVE  LifecycleStep
  BY DEF Dispatch, LifecycleStep, RunsIInv, RunsTypeOK, RunStatus, OutputReady, completionVars

\* So is every step of a call but the completion.
LEMMA CallLifecycleStep ==
  ASSUME RunsIInv, NEW c \in Calls,
         \/ Resend(c) \/ Lose(c) \/ Claim(c) \/ Refuse(c) \/ EvaluateThrows(c)
         \/ CompleteAgain(c) \/ CompleteRaises(c) \/ Fail(c)
         \/ \E answer \in {"judged", "abstained", "incomplete"} : Evaluate(c, answer)
  PROVE  LifecycleStep
<1>0. c[1] \in Evaluators  BY EvaluatorsAssumption
<1> USE <1>0 DEF RunsIInv, RunsTypeOK, completionVars, runVars
<1>1. \A e \in Evaluators : (run'[e] = "completed") <=> (run[e] = "completed")
  BY DEF Resend, Lose, Claim, Refuse, EvaluateThrows, CompleteAgain,
         CompleteRaises, Fail, Evaluate, SetRun, Claimable
<1>2. run' \in [Evaluators -> RunStatus] /\ stale' \in [Evaluators -> BOOLEAN]
  BY DEF Resend, Lose, Claim, Refuse, EvaluateThrows, CompleteAgain,
         CompleteRaises, Fail, Evaluate, SetRun, RunStatus
<1>3. \/ \E place \in {"inflight", "evaluating", "failing", "over"} :
           at' = [at EXCEPT ![c] = place] /\ output' = output
      \/ \E answer \in {"judged", "abstained", "incomplete"} :
           /\ at' = [at EXCEPT ![c] = "complete"]
           /\ output' = [output EXCEPT ![c] = answer]
  BY DEF Resend, Lose, Claim, Refuse, EvaluateThrows, CompleteAgain,
         CompleteRaises, Fail, Evaluate, Answer
<1>4. UNCHANGED <<result, completion, lastError, posts, phase, scorecard, issues>>
  BY DEF Resend, Lose, Claim, Refuse, EvaluateThrows, CompleteAgain,
         CompleteRaises, Fail, Evaluate
<1>5. /\ at' \in [Calls -> {"unused", "inflight", "evaluating", "complete",
                            "failing", "over"}]
      /\ output' \in [Calls -> {"none", "judged", "abstained", "incomplete"}]
      /\ \A d \in Calls : at'[d] = "complete" => output'[d] # "none"
  <2>1. CASE \E place \in {"inflight", "evaluating", "failing", "over"} :
               at' = [at EXCEPT ![c] = place] /\ output' = output
    BY <2>1 DEF OutputReady
  <2>2. CASE \E answer \in {"judged", "abstained", "incomplete"} :
               /\ at' = [at EXCEPT ![c] = "complete"]
               /\ output' = [output EXCEPT ![c] = answer]
    BY <2>2 DEF OutputReady
  <2> QED  BY <1>3, <2>1, <2>2
<1> QED  BY <1>1, <1>2, <1>4, <1>5 DEF LifecycleStep

\* So are the passing of time and the sweep for stale runs.
LEMMA TimeStep ==
  ASSUME RunsIInv, (\E found \in SUBSET Evaluators : Reconcile(found)) \/ \E e \in Evaluators : Age(e)
  PROVE  LifecycleStep
<1> USE DEF RunsIInv, RunsTypeOK, RunStatus, OutputReady, callVars, completionVars
<1>1. ASSUME NEW found \in SUBSET Evaluators, Reconcile(found)  PROVE LifecycleStep
  <2>1. run' \in [Evaluators -> RunStatus] /\ stale' \in [Evaluators -> BOOLEAN]
    BY <1>1 DEF Reconcile
  <2>2. \A e \in Evaluators : (run'[e] = "completed") <=> (run[e] = "completed")
    BY <1>1 DEF Reconcile, TimedOut
  <2> QED  BY <1>1, <2>1, <2>2 DEF Reconcile, LifecycleStep
<1>2. ASSUME NEW e \in Evaluators, Age(e)  PROVE LifecycleStep
  BY <1>2 DEF Age, LifecycleStep
<1> QED  BY <1>1, <1>2

\* What CompletedWorkIsKept demands of one step.
KeepsCompleted ==
  \A e \in Evaluators : run[e] = "completed" =>
    /\ run'[e] = "completed"
    /\ \A m \in MetricsOf[e] : result'[m] = result[m]

\* Before an evaluator completes nothing has been asked of the completion.
LEMMA CompletePrecedes ==
  ASSUME RunsIInv, NEW c \in Calls, Complete(c)
  PROVE  completion = "null" /\ posts = 0 /\ ~scorecard /\ \A h \in Handlers : phase[h] = "idle"
<1>1. c[1] \in Evaluators /\ run[c[1]] = "processing"
  BY EvaluatorsAssumption DEF Complete
<1> QED
  BY <1>1 DEF RunsIInv, RunsTypeOK, CompletionFollowsEvaluators, AllCompleted,
              CompletionPending, ScorecardIsGrounded

\* The last evaluator to complete finds every row, and no earlier one does: the
\* metric sets are disjoint, not empty, and cover all metrics.
LEMMA CompleteStep ==
  ASSUME RunsIInv, NEW c \in Calls, Complete(c)
  PROVE  RunsIInv' /\ (completion # "null" => posts' <= posts) /\ KeepsCompleted
<1> USE EvaluatorsAssumption DEF RunsIInv, RunsTypeOK
<1> DEFINE e == c[1]
<1>1. e \in Evaluators /\ run[e] = "processing" /\ output[c] \in {"judged", "abstained"}
  BY DEF Complete, OutputReady
<1>2. run' = [run EXCEPT ![e] = "completed"]
  BY DEF Complete, SetRun
<1>3. \A m \in Metrics : result'[m] = IF m \in MetricsOf[e] THEN output[c] ELSE result[m]
  BY DEF Complete
<1>4. completion = "null" /\ posts = 0 /\ ~scorecard /\ \A h \in Handlers : phase[h] = "idle"
  BY CompletePrecedes
<1>5. ResultsMatchLifecycle'
  <2> SUFFICES ASSUME NEW d \in Evaluators
               PROVE  IF run'[d] = "completed"
                      THEN \A m \in MetricsOf[d] : result'[m] # "absent"
                      ELSE \A m \in MetricsOf[d] : result'[m] = "absent"
    BY DEF ResultsMatchLifecycle
  <2>1. CASE d = e  BY <2>1, <1>1, <1>2, <1>3
  <2>2. CASE d # e
    <3>1. \A m \in MetricsOf[d] : result'[m] = result[m]  BY <2>2, <1>1, <1>3
    <3> QED  BY <3>1, <2>2, <1>1, <1>2 DEF ResultsMatchLifecycle
  <2> QED  BY <2>1, <2>2
<1>6. AllCompleted' <=> \A m \in Metrics : result'[m] # "absent"
  <2>1. ASSUME AllCompleted', NEW m \in Metrics  PROVE result'[m] # "absent"
    <3>1. PICK d \in Evaluators : m \in MetricsOf[d]  OBVIOUS
    <3> QED  BY <1>5, <2>1, <3>1 DEF AllCompleted, ResultsMatchLifecycle
  <2>2. ASSUME \A m \in Metrics : result'[m] # "absent", NEW d \in Evaluators
        PROVE  run'[d] = "completed"
    <3>1. PICK m \in MetricsOf[d] : m \in Metrics  OBVIOUS
    <3> QED  BY <1>5, <2>2, <3>1 DEF ResultsMatchLifecycle
  <2> QED  BY <2>1, <2>2 DEF AllCompleted
<1>7. Schedule(result')
  <2>1. result' = [m \in Metrics |-> IF m \in MetricsOf[e] THEN output[c] ELSE result[m]]
    BY DEF Complete
  <2> QED  BY <2>1 DEF Complete
<1>8. CompletionFollowsEvaluators'
  BY <1>4, <1>6, <1>7 DEF Schedule, CompletionFollowsEvaluators
<1>9. phase' = phase /\ scorecard' = scorecard /\ issues' = issues /\ output' = output
  BY DEF Complete
<1>10. CompletionPending' /\ ScorecardIsGrounded'
  BY <1>4, <1>7, <1>9 DEF Schedule, CompletionPending, ScorecardIsGrounded
<1>11. RunsTypeOK'
  <2>1. result' \in [Metrics -> Results]
    BY <1>1 DEF Complete, Results
  <2>2. run' \in [Evaluators -> RunStatus] /\ stale' \in [Evaluators -> BOOLEAN]
    BY <1>1, <1>2 DEF Complete, SetRun, RunStatus
  <2>3. at' \in [Calls -> {"unused", "inflight", "evaluating", "complete",
                           "failing", "over"}]
    BY DEF Complete, Answer
  <2>4. /\ completion' \in {"null", "pending", "processing", "completed", "failed"}
        /\ lastError' \in {"none", "not_scheduled", "metrics_not_ready", "projection"}
        /\ posts' \in Nat
    BY <1>4, <1>7 DEF Schedule
  <2> QED  BY <2>1, <2>2, <2>3, <2>4, <1>9
<1>12. OutputReady'
  BY <1>9 DEF Complete, Answer, OutputReady
<1>13. KeepsCompleted
  <2> SUFFICES ASSUME NEW d \in Evaluators, run[d] = "completed"
               PROVE  run'[d] = "completed" /\ \A m \in MetricsOf[d] : result'[m] = result[m]
    BY DEF KeepsCompleted
  <2>1. d # e  BY <1>1
  <2>2. \A m \in MetricsOf[d] : result'[m] = result[m]  BY <2>1, <1>1, <1>3
  <2> QED  BY <2>1, <2>2, <1>1, <1>2
<1> QED  BY <1>4, <1>5, <1>8, <1>10, <1>11, <1>12, <1>13

\* complete-evaluation and score-result, over runs and rows they do not change.
ProjectionStep ==
  \/ LosePost
  \/ \E h \in Handlers : HandlerStep(h) \/ HandlerDies(h)
  \/ RebuildScorecard

\* The completion handler writes none of what the runs are judged by, and a scorecard
\* only from the rows of all of them.
LEMMA ProjectionKeeps ==
  ASSUME RunsIInv, ProjectionStep
  PROVE  RunsIInv' /\ posts' <= posts /\ KeepsCompleted
<1> USE EvaluatorsAssumption DEF RunsIInv, RunsTypeOK
<1>1. UNCHANGED <<run, stale, result, at, output>>
  BY DEF ProjectionStep, LosePost, HandlerStep, HandlerDies, RebuildScorecard,
         StartCompletion, ProjectScorecard, RejectMetrics, ProjectIssues,
         ProjectionFails, FinishCompletion, runVars, callVars
<1>2. /\ AllCompleted' <=> AllCompleted
      /\ Scorable' <=> Scorable
      /\ OutputReady' /\ ResultsMatchLifecycle'
  BY <1>1 DEF AllCompleted, Scorable, OutputReady, ResultsMatchLifecycle
<1>3. Scorable => AllCompleted
  BY DEF Scorable, AllCompleted, ResultsMatchLifecycle
<1> USE DEF CompletionFollowsEvaluators, CompletionPending, ScorecardIsGrounded,
            EnterPhase
<1>4. ASSUME LosePost  PROVE RunsIInv' /\ posts' <= posts
  BY <1>1, <1>2, <1>4 DEF LosePost
<1>5. ASSUME RebuildScorecard  PROVE RunsIInv' /\ posts' <= posts
  BY <1>1, <1>2, <1>3, <1>5 DEF RebuildScorecard
<1>6. ASSUME NEW h \in Handlers, StartCompletion(h)  PROVE RunsIInv' /\ posts' <= posts
  BY <1>1, <1>2, <1>6 DEF StartCompletion
<1>7. ASSUME NEW h \in Handlers, ProjectScorecard(h)  PROVE RunsIInv' /\ posts' <= posts
  BY <1>1, <1>2, <1>3, <1>7 DEF ProjectScorecard
<1>8. ASSUME NEW h \in Handlers,
             RejectMetrics(h) \/ ProjectIssues(h) \/ ProjectionFails(h) \/ HandlerDies(h)
      PROVE  RunsIInv' /\ posts' <= posts
  <2>1. CASE RejectMetrics(h)  BY <1>1, <1>2, <2>1 DEF RejectMetrics
  <2>2. CASE ProjectIssues(h)  BY <1>1, <1>2, <2>2 DEF ProjectIssues
  <2>3. CASE ProjectionFails(h) \/ HandlerDies(h)
    BY <1>1, <1>2, <2>3 DEF ProjectionFails, HandlerDies
  <2> QED  BY <1>8, <2>1, <2>2, <2>3
<1>9. ASSUME NEW h \in Handlers, FinishCompletion(h)  PROVE RunsIInv' /\ posts' <= posts
  BY <1>1, <1>2, <1>9 DEF FinishCompletion
<1>10. RunsIInv' /\ posts' <= posts
  BY <1>4, <1>5, <1>6, <1>7, <1>8, <1>9 DEF ProjectionStep, HandlerStep
<1>11. KeepsCompleted
  BY <1>1 DEF KeepsCompleted
<1> QED  BY <1>10, <1>11

\* Every step keeps the invariant, and what the action properties say.
LEMMA RunsNextIInv ==
  ASSUME RunsIInv, [RunsNext]_evalVars
  PROVE  RunsIInv' /\ (completion # "null" => posts' <= posts) /\ KeepsCompleted
<1>1. CASE UNCHANGED evalVars
  BY <1>1 DEF evalVars, runVars, callVars, completionVars, RunsIInv, RunsTypeOK, OutputReady,
              ResultsMatchLifecycle, CompletionFollowsEvaluators, AllCompleted,
              CompletionPending, ScorecardIsGrounded, KeepsCompleted
<1>2. CASE LifecycleStep
  <2>1. posts' = posts /\ posts \in Nat  BY <1>2 DEF LifecycleStep, RunsIInv, RunsTypeOK
  <2>2. KeepsCompleted  BY <1>2 DEF LifecycleStep, KeepsCompleted
  <2> QED  BY <1>2, <2>1, <2>2, LifecycleKeeps
<1>3. CASE \E c \in Calls : Complete(c)  BY <1>3, CompleteStep
<1>4. CASE ProjectionStep  BY <1>4, ProjectionKeeps
<1>5. RunsNext => LifecycleStep \/ (\E c \in Calls : Complete(c)) \/ ProjectionStep
  BY DispatchStep, CallLifecycleStep, TimeStep
  DEF RunsNext, Activity, CallStep, ProjectionStep
<1> QED  BY <1>1, <1>2, <1>3, <1>4, <1>5

\* All invariants of the run evaluators_retry, in every instance: the types, the
\* agreement of lifecycle and rows, completion after the last evaluator and not
\* before, and a scorecard only then, which a completed evaluation has with its issues.
THEOREM Invariants ==
  RunsSpec => [](RunsTypeOK /\ ResultsMatchLifecycle /\ CompletionFollowsEvaluators
             /\ ScorecardIsGrounded)
<1>1. RunsIInv /\ [RunsNext]_evalVars => RunsIInv'  BY RunsNextIInv
<1>2. RunsIInv => RunsTypeOK /\ ResultsMatchLifecycle /\ CompletionFollowsEvaluators
              /\ ScorecardIsGrounded
  BY DEF RunsIInv
<1> QED  BY <1>1, <1>2, RunsInitIInv, PTL DEF RunsSpec

\* Completion is asked for when every evaluator has completed, and not before.
THEOREM CompletionIsLast == RunsSpec => []CompletionFollowsEvaluators
BY Invariants, PTL

\* A scorecard is there only when every evaluator has completed, and an evaluation called
\* completed has its scorecard and its issues, wherever a projection fails or a handler dies.
THEOREM ScorecardGrounded == RunsSpec => []ScorecardIsGrounded
BY Invariants, PTL

\* Completion of a creative is requested at most once, although every row of a
\* multi-row write runs the trigger.
THEOREM RequestedOnce == RunsSpec => CompletionRequestedOnce
<1>1. RunsIInv /\ [RunsNext]_evalVars => RunsIInv'  BY RunsNextIInv
<1>2. RunsIInv /\ [RunsNext]_evalVars => [completion # "null" => posts' <= posts]_evalVars
  BY RunsNextIInv
<1> QED  BY <1>1, <1>2, RunsInitIInv, PTL DEF RunsSpec, CompletionRequestedOnce

\* No call, late, repeated or failing, touches a completed run or its rows.
THEOREM WorkKept == RunsSpec => CompletedWorkIsKept
<1>1. RunsIInv /\ [RunsNext]_evalVars => RunsIInv'  BY RunsNextIInv
<1>2. RunsIInv /\ [RunsNext]_evalVars => [KeepsCompleted]_evalVars  BY RunsNextIInv
<1> QED  BY <1>1, <1>2, RunsInitIInv, PTL DEF RunsSpec, CompletedWorkIsKept, KeepsCompleted

-----------------------------------------------------------------------------
(* The evaluators beside Media Processing.                                 *)

\* A step of a review is a step, or none, of each of its two parts.
LEMMA ReviewParts ==
  ASSUME [ReviewNext]_reviewVars
  PROVE  [Next]_vars /\ [RunsNext]_evalVars
  BY DEF ReviewNext, reviewVars, MediaStep, Handover, EvaluatorStep, RunsNext

\* Each part of a review behaves as it does on its own: joined by the trigger, the
\* workers and the evaluators do nothing that MediaQueue and EvaluatorRuns do not
\* allow, so whatever has been proved of those holds of a review.
THEOREM PartsBehave == ReviewSpec => Spec /\ RunsSpec
<1>1. ReviewInit => Init /\ RunsInit
  BY DEF ReviewInit
<1>2. [ReviewNext]_reviewVars => [Next]_vars /\ [RunsNext]_evalVars
  BY ReviewParts
<1> QED  BY <1>1, <1>2, PTL DEF ReviewSpec, Spec, RunsSpec

\* The invariant of the evaluators on their own, for use beside the workers.
LEMMA RunsIInvHolds == RunsSpec => []RunsIInv
<1>1. RunsIInv /\ [RunsNext]_evalVars => RunsIInv'  BY RunsNextIInv
<1> QED  BY <1>1, RunsInitIInv, PTL DEF RunsSpec

\* Once dispatched, a run is never absent again, and nothing else makes it appear.
LEMMA ActivityKeepsRuns ==
  ASSUME RunsIInv, Activity
  PROVE  \A e \in Evaluators : (run'[e] = "absent") <=> (run[e] = "absent")
<1>0. /\ run \in [Evaluators -> RunStatus]
      /\ \A c \in Calls : c[1] \in Evaluators
  BY EvaluatorsAssumption DEF RunsIInv, RunsTypeOK
<1> USE <1>0
<1>1. ASSUME NEW c \in Calls,
             \/ Resend(c) \/ Lose(c) \/ Refuse(c) \/ EvaluateThrows(c)
             \/ CompleteAgain(c) \/ CompleteRaises(c)
             \/ \E answer \in {"judged", "abstained", "incomplete"} : Evaluate(c, answer)
      PROVE  UNCHANGED run
  BY <1>1 DEF Resend, Lose, Refuse, EvaluateThrows, CompleteAgain, CompleteRaises,
              Evaluate, runVars
<1>2. ASSUME NEW c \in Calls, Claim(c) \/ Complete(c) \/ Fail(c)
      PROVE  \A e \in Evaluators : (run'[e] = "absent") <=> (run[e] = "absent")
  BY <1>2 DEF Claim, Complete, Fail, SetRun, Claimable, runVars
<1>3. ASSUME NEW found \in SUBSET Evaluators, Reconcile(found)
      PROVE  \A e \in Evaluators : (run'[e] = "absent") <=> (run[e] = "absent")
  BY <1>3 DEF Reconcile, TimedOut
<1>4. ASSUME \/ \E e \in Evaluators : Age(e)
             \/ LosePost \/ RebuildScorecard
             \/ \E h \in Handlers : HandlerStep(h) \/ HandlerDies(h)
      PROVE  UNCHANGED run
  BY <1>4 DEF Age, LosePost, RebuildScorecard, HandlerStep, HandlerDies,
              StartCompletion, ProjectScorecard, RejectMetrics, ProjectIssues,
              ProjectionFails, FinishCompletion, runVars
<1> QED  BY <1>1, <1>2, <1>3, <1>4 DEF Activity, CallStep

\* The trigger has fired exactly when the runs of the creative exist.
RunsFollowTrigger ==
  \A e \in Evaluators : (run[e] # "absent") <=> triggered[Creative]

\* Every step keeps that: the handover is the step of both.
LEMMA FollowStep ==
  ASSUME TypeOK, TypeOK', RunsIInv, RunsFollowTrigger, [ReviewNext]_reviewVars
  PROVE  RunsFollowTrigger'
<1>0. triggered[Creative] \in BOOLEAN /\ triggered'[Creative] \in BOOLEAN
  BY CreativeAssumption DEF TypeOK
<1>1. CASE UNCHANGED reviewVars
  BY <1>1 DEF reviewVars, vars, dbVars, evalVars, runVars, RunsFollowTrigger
<1>2. CASE MediaStep
  BY <1>2 DEF MediaStep, evalVars, runVars, RunsFollowTrigger
<1>3. CASE Handover
  <2>1. PICK posted \in SUBSET Evaluators : Dispatch(posted)  BY <1>3 DEF Handover
  <2>2. \A e \in Evaluators : run[e] = "absent" /\ run'[e] # "absent"
    BY <2>1 DEF Dispatch
  <2>3. ~triggered[Creative]
    BY <2>2, EvaluatorsAssumption DEF RunsFollowTrigger
  <2>4. triggered'[Creative]  BY <1>0, <1>3, <2>3 DEF Handover
  <2> QED  BY <2>2, <2>4 DEF RunsFollowTrigger
<1>4. CASE EvaluatorStep
  <2>1. triggered' = triggered  BY <1>4 DEF EvaluatorStep, vars, dbVars
  <2>2. \A e \in Evaluators : (run'[e] = "absent") <=> (run[e] = "absent")
    BY <1>4, ActivityKeepsRuns DEF EvaluatorStep
  <2> QED  BY <2>1, <2>2 DEF RunsFollowTrigger
<1> QED  BY <1>1, <1>2, <1>3, <1>4 DEF ReviewNext

\* It holds throughout every review, whatever MAX_RETRIES is.
LEMMA TriggerFollowed == ReviewSpec => []RunsFollowTrigger
<1>1. ReviewInit => RunsFollowTrigger
  BY CreativeAssumption DEF ReviewInit, Init, RunsInit, RunsFollowTrigger
<1>2. TypeOK /\ TypeOK' /\ RunsIInv /\ RunsFollowTrigger /\ [ReviewNext]_reviewVars
        => RunsFollowTrigger'
  BY FollowStep
<1> QED
  BY <1>1, <1>2, PartsBehave, TypeCorrect, RunsIInvHolds, PTL DEF ReviewSpec

\* Runs exist exactly when the trigger has fired, and no evaluator is at work on a
\* creative one of whose tasks is not finished: with the shipped MAX_RETRIES of 1,
\* whatever leases, calls and processes are lost.
THEOREM EvaluatedLast ==
  ASSUME MaxRetries <= 1
  PROVE  ReviewSpec => []EvaluatedAfterMedia
<1>1. OnlyAttempt /\ RunsFollowTrigger => EvaluatedAfterMedia
  BY CreativeAssumption DEF OnlyAttempt, Finished, RunsFollowTrigger, EvaluatedAfterMedia
<1> QED  BY <1>1, TriggerFollowed, OnlyAttemptHolds, PartsBehave, PTL

\* The evaluators judge evidence that no longer changes: neither a second replica
\* nor a retry touches a row after the dispatch, with MAX_RETRIES 1.
THEOREM EvidenceFrozen ==
  ASSUME MaxRetries <= 1
  PROVE  ReviewSpec => EvidenceIsFrozen
<1> DEFINE Frozen == triggered[Creative] => row'[Creative] = row[Creative]
<1>1. AttemptInv /\ MarkedHaveRows /\ OnlyAttempt /\ [ReviewNext]_reviewVars
        => [Frozen]_reviewVars
  <2> SUFFICES ASSUME AttemptInv, MarkedHaveRows, OnlyAttempt, [ReviewNext]_reviewVars
               PROVE  Frozen
    OBVIOUS
  <2>1. EvidenceStays  BY ReviewParts, OnlyAttemptStep
  <2> QED  BY <2>1, CreativeAssumption DEF EvidenceStays
<1>2. ReviewSpec => [][Frozen]_reviewVars
  BY <1>1, OnlyAttemptHolds, PartsBehave, PTL DEF ReviewSpec
<1> QED  BY <1>2 DEF EvidenceIsFrozen

\* A creative the progress page has released is over for the history too, in every
\* instance: its last unit is the completion, and that leaves a scorecard or fails.
THEOREM DoneOver == ReviewSpec => []DoneMeansOver
<1>1. RunsIInv => DoneMeansOver
  <2> SUFFICES ASSUME RunsIInv, IsDone, ~Scored  PROVE Failed
    BY DEF DoneMeansOver
  <2>1. ScoringUnit \in TerminalStatuses  BY DEF IsDone, Units
  <2>2. IsFatalMediaFailure \/ completion \in {"completed", "failed"}
    BY <2>1 DEF ScoringUnit, TerminalStatuses, RunsIInv, RunsTypeOK
  <2>3. completion # "completed"  BY DEF RunsIInv, ScorecardIsGrounded, Scored
  <2> QED  BY <2>2, <2>3 DEF Failed, IsFatalMediaFailure
<1> QED  BY <1>1, PartsBehave, RunsIInvHolds, PTL

-----------------------------------------------------------------------------
(* Done, once dispatched, is for good.                                     *)

\* Completion goes on one foot: one request, then one handler, then an outcome.
CompletionInTurn ==
  /\ posts > 0 => /\ posts = 1 /\ completion = "pending"
                  /\ \A h \in Handlers : phase[h] = "idle"
  /\ \A h \in Handlers : phase[h] # "idle" =>
       /\ completion = "processing" /\ posts = 0
       /\ \A g \in Handlers \ {h} : phase[g] = "idle"

\* A completion that has failed stays failed, and a scorecard stays.
OutcomeStays ==
  /\ scorecard => scorecard'
  /\ completion = "failed" => completion' = "failed"

\* Every step of the evaluators keeps the turn, and with it the outcome.
LEMMA TurnStep ==
  ASSUME RunsIInv, CompletionInTurn, [RunsNext]_evalVars
  PROVE  CompletionInTurn' /\ OutcomeStays
<1>0. /\ posts \in Nat /\ scorecard \in BOOLEAN
      /\ phase \in [Handlers -> {"idle", "score", "issues", "finish", "not_ready", "broken"}]
  BY DEF RunsIInv, RunsTypeOK
<1> USE <1>0
<1>1. ASSUME UNCHANGED <<posts, completion, phase, scorecard>>
      PROVE  CompletionInTurn' /\ OutcomeStays
  BY <1>1 DEF CompletionInTurn, OutcomeStays
<1>2. CASE UNCHANGED evalVars
  BY <1>1, <1>2 DEF evalVars, completionVars
<1>3. CASE LifecycleStep
  BY <1>1, <1>3 DEF LifecycleStep
<1>4. ASSUME NEW c \in Calls, Complete(c)  PROVE CompletionInTurn' /\ OutcomeStays
  <2>1. completion = "null" /\ posts = 0 /\ ~scorecard /\ \A h \in Handlers : phase[h] = "idle"
    BY <1>4, CompletePrecedes
  <2>2. phase' = phase /\ \/ posts' = 0
                          \/ posts' = 1 /\ completion' = "pending"
    BY <1>4, <2>1 DEF Complete, Schedule
  <2> QED  BY <2>1, <2>2 DEF CompletionInTurn, OutcomeStays
<1> USE DEF EnterPhase
<1>5. ASSUME LosePost \/ RebuildScorecard  PROVE CompletionInTurn' /\ OutcomeStays
  BY <1>5 DEF LosePost, RebuildScorecard, CompletionInTurn, OutcomeStays
<1>6. ASSUME NEW h \in Handlers, StartCompletion(h)
      PROVE  CompletionInTurn' /\ OutcomeStays
  <2>1. posts = 1 /\ completion = "pending" /\ \A g \in Handlers : phase[g] = "idle"
    BY <1>6 DEF StartCompletion, CompletionInTurn
  <2> QED  BY <1>6, <2>1 DEF StartCompletion, CompletionInTurn, OutcomeStays
<1>7. ASSUME NEW h \in Handlers,
             \/ ProjectScorecard(h) \/ RejectMetrics(h) \/ ProjectIssues(h)
             \/ ProjectionFails(h) \/ FinishCompletion(h) \/ HandlerDies(h)
      PROVE  CompletionInTurn' /\ OutcomeStays
  <2>1. phase[h] # "idle"
    BY <1>7 DEF ProjectScorecard, RejectMetrics, ProjectIssues, ProjectionFails,
                FinishCompletion, HandlerDies
  <2>2. /\ completion = "processing" /\ posts = 0
        /\ \A g \in Handlers \ {h} : phase[g] = "idle"
    BY <2>1 DEF CompletionInTurn
  <2>3. posts' = posts /\ (scorecard => scorecard')
    BY <1>7 DEF ProjectScorecard, RejectMetrics, ProjectIssues, ProjectionFails,
                FinishCompletion, HandlerDies
  <2>4. \A g \in Handlers \ {h} : phase'[g] = phase[g]
    BY <1>7 DEF ProjectScorecard, RejectMetrics, ProjectIssues, ProjectionFails,
                FinishCompletion, HandlerDies
  <2>5. completion' = completion \/ phase'[h] = "idle"
    BY <1>7 DEF ProjectScorecard, RejectMetrics, ProjectIssues, ProjectionFails,
                FinishCompletion, HandlerDies
  <2> QED  BY <2>2, <2>3, <2>4, <2>5 DEF CompletionInTurn, OutcomeStays
<1>8. RunsNext => LifecycleStep \/ (\E c \in Calls : Complete(c)) \/ ProjectionStep
  BY DispatchStep, CallLifecycleStep, TimeStep
  DEF RunsNext, Activity, CallStep, ProjectionStep
<1> QED
  BY <1>2, <1>3, <1>4, <1>5, <1>6, <1>7, <1>8 DEF ProjectionStep, HandlerStep

\* The turn is kept from the start.
LEMMA TurnHolds == RunsSpec => []CompletionInTurn
<1>1. RunsInit => CompletionInTurn
  BY DEF RunsInit, CompletionInTurn
<1>2. RunsIInv /\ CompletionInTurn /\ [RunsNext]_evalVars => CompletionInTurn'
  BY TurnStep
<1> QED  BY <1>1, <1>2, RunsIInvHolds, PTL DEF RunsSpec

\* The three ways in which the progress page finds a creative done.
LEMMA DoneShape ==
  TypeOK /\ RunsIInv /\ RunsFollowTrigger =>
    (IsDone <=> \/ Scored
                \/ IsFatalMediaFailure
                \/ completion = "failed" /\ media[Creative] # "null")
<1> SUFFICES ASSUME TypeOK, RunsIInv, RunsFollowTrigger
             PROVE  IsDone <=> \/ Scored
                               \/ IsFatalMediaFailure
                               \/ completion = "failed" /\ media[Creative] # "null"
  OBVIOUS
<1>0. media[Creative] \in MediaStatus /\ triggered[Creative] \in BOOLEAN
  BY CreativeAssumption DEF TypeOK
<1>1. CASE Scored
  BY <1>1 DEF IsDone, Units, MediaUnit, ScoringUnit, EvaluationUnit, TerminalStatuses
<1>2. CASE ~Scored /\ IsFatalMediaFailure
  <2>1. MediaUnit = "error"
    BY <1>2 DEF MediaUnit, IsFatalMediaFailure, MediaFailed
  <2>2. ScoringUnit = "error" /\ \A e \in Evaluators : EvaluationUnit(e) = "error"
    BY <1>2 DEF ScoringUnit, EvaluationUnit
  <2> QED  BY <1>2, <2>1, <2>2 DEF IsDone, Units, TerminalStatuses
<1>3. CASE ~Scored /\ ~IsFatalMediaFailure
  <2>1. completion # "completed" /\ completion \in {"null", "pending", "processing", "failed"}
    BY <1>3 DEF RunsIInv, RunsTypeOK, ScorecardIsGrounded, Scored
  <2>2. ScoringUnit \in TerminalStatuses <=> completion = "failed"
    BY <1>3, <2>1 DEF ScoringUnit, TerminalStatuses
  <2>3. ASSUME completion = "failed"
        PROVE  /\ \A e \in Evaluators : EvaluationUnit(e) \in TerminalStatuses
               /\ triggered[Creative]
    <3>1. \A e \in Evaluators : run[e] = "completed"
      BY <2>3 DEF RunsIInv, CompletionFollowsEvaluators, AllCompleted
    <3>2. triggered[Creative]
      BY <3>1, EvaluatorsAssumption DEF RunsFollowTrigger
    <3> QED  BY <1>3, <3>1, <3>2 DEF EvaluationUnit, TerminalStatuses
  <2>4. ASSUME triggered[Creative]
        PROVE  MediaUnit \in TerminalStatuses <=> media[Creative] # "null"
    BY <1>0, <1>3, <2>4 DEF MediaUnit, MediaStatus, MediaFailed, TerminalStatuses
  <2> QED  BY <1>3, <2>2, <2>3, <2>4 DEF IsDone, Units
<1> QED  BY <1>1, <1>2, <1>3

\* No statement takes a media status back to null.
LEMMA MediaNeverUnset ==
  ASSUME TypeOK, BusyHasMessage, NEW j \in Jobs, media[j] # "null", [Next]_vars
  PROVE  media'[j] # "null"
<1>1. CASE NoMediaStep
  BY <1>1 DEF NoMediaStep
<1>2. ASSUME NEW w \in Workers,
             \/ WritesMedia(w, "start", "processing", "prepare")
             \/ WritesMedia(w, "exhausted", "exhausted", "archive")
             \/ WritesMedia(w, "fail", "failed", "archive")
             \/ WritesMedia(w, "finish", "completed", "delete")
      PROVE  media'[j] # "null"
  BY <1>2 DEF WritesMedia, SetMedia, TypeOK
<1> QED  BY <1>1, <1>2, MediaFrame

\* A creative that is done after the dispatch stays done and does not turn into a failure.
DoneStays == triggered[Creative] /\ IsDone => IsDone' /\ (FatalError' => FatalError)

\* After the dispatch a scorecard and a failed completion are all that makes a creative
\* done, and both are there to stay, whatever the workers still write.
LEMMA DoneStaysStep ==
  ASSUME TypeOK, TypeOK', BusyHasMessage, RunsIInv, RunsIInv', RunsFollowTrigger,
         RunsFollowTrigger', CompletionInTurn, [ReviewNext]_reviewVars
  PROVE  DoneStays
<1> SUFFICES ASSUME triggered[Creative], IsDone  PROVE IsDone' /\ (FatalError' => FatalError)
  BY DEF DoneStays
<1>1. \/ Scored
      \/ completion = "failed" /\ media[Creative] # "null"
  BY DoneShape DEF IsFatalMediaFailure
<1>2. (\/ Scored
       \/ completion = "failed" /\ media[Creative] # "null")' => IsDone'
  <2>1. (TypeOK /\ RunsIInv /\ RunsFollowTrigger =>
          (IsDone <=> \/ Scored
                      \/ IsFatalMediaFailure
                      \/ completion = "failed" /\ media[Creative] # "null"))'
    BY DoneShape, PTL
  <2> QED  BY <2>1
<1>3. OutcomeStays /\ [Next]_vars  BY ReviewParts, TurnStep
<1>4. CASE Scored
  <2>1. Scored'  BY <1>3, <1>4 DEF OutcomeStays, Scored
  <2>2. ~FatalError'  BY <2>1 DEF FatalError
  <2> QED  BY <1>2, <2>1, <2>2
<1>5. CASE ~Scored /\ completion = "failed" /\ media[Creative] # "null"
  <2>1. completion' = "failed"  BY <1>3, <1>5 DEF OutcomeStays
  <2>2. media'[Creative] # "null"  BY <1>3, <1>5, CreativeAssumption, MediaNeverUnset
  <2> QED  BY <1>2, <1>5, <2>1, <2>2 DEF FatalError
<1> QED  BY <1>1, <1>4, <1>5

\* Once the evaluators have been dispatched the polling may stop at the first answer
\* that is done: no lost lease, late worker, repeated call or rebuilt scorecard makes
\* the creative undone, or a finished one a failure, for any number of retries.
THEOREM DispatchedDoneFinal == ReviewSpec => DispatchedDoneIsFinal
<1>1. AttemptInv /\ AttemptInv' /\ RunsIInv /\ RunsIInv' /\ RunsFollowTrigger
      /\ RunsFollowTrigger' /\ CompletionInTurn /\ [ReviewNext]_reviewVars
        => [DoneStays]_reviewVars
  <2> SUFFICES ASSUME AttemptInv, AttemptInv', RunsIInv, RunsIInv', RunsFollowTrigger,
                      RunsFollowTrigger', CompletionInTurn, [ReviewNext]_reviewVars
               PROVE  DoneStays
    OBVIOUS
  <2>1. TypeOK /\ TypeOK' /\ BusyHasMessage  BY DEF AttemptInv
  <2> QED  BY <2>1, DoneStaysStep
<1>2. ReviewSpec => [][DoneStays]_reviewVars
  BY <1>1, PartsBehave, AttemptInvHolds, RunsIInvHolds, TriggerFollowed, TurnHolds, PTL
  DEF ReviewSpec
<1> QED  BY <1>2 DEF DispatchedDoneIsFinal, DoneStays
=============================================================================
