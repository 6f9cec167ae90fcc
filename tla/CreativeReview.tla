--------------------------- MODULE CreativeReview ---------------------------
(***************************************************************************)
(* One Ad Creative from its submission to its verdict: Media Processing    *)
(* (MediaQueue) and the evaluators (EvaluatorRuns), which meet in a single *)
(* transaction, the row update whose trigger dispatches the evaluators.    *)
(*                                                                         *)
(* Two readers derive a status from the same columns, each with rules of   *)
(* its own: the history page through the view review_request_summaries,    *)
(* and the progress page through buildVideoProgress.                       *)
(***************************************************************************)
EXTENDS MediaQueue, EvaluatorRuns

\* The Ad Creative that is followed, one of those the workers process.
CONSTANT Creative

ASSUME CreativeAssumption == Creative \in Jobs

reviewVars == <<vars, evalVars>>

ReviewInit == Init /\ RunsInit

MediaStep ==
  /\ Next
  /\ triggered'[Creative] = triggered[Creative]
  /\ UNCHANGED evalVars

\* The update of the last row, its trigger and the evaluator runs it plans are
\* one transaction.
Handover ==
  /\ Next
  /\ triggered'[Creative] # triggered[Creative]
  /\ \E posted \in SUBSET Evaluators : Dispatch(posted)

EvaluatorStep ==
  /\ Activity
  /\ UNCHANGED vars

ReviewNext == MediaStep \/ Handover \/ EvaluatorStep

ReviewSpec == ReviewInit /\ [][ReviewNext]_reviewVars

-----------------------------------------------------------------------------
(* review_request_summaries.                                               *)

MediaFailed == media[Creative] \in {"failed", "exhausted"}
RunFailures == {"dispatch_failed", "failed", "timed_out"}

Scored == scorecard

Failed ==
  /\ ~Scored
  /\ \/ completion = "failed"
     \/ MediaFailed /\ ~triggered[Creative]
     \/ \E e \in Evaluators : run[e] \in RunFailures

-----------------------------------------------------------------------------
(* buildVideoProgress.  A scorecard is proof of everything before it.      *)

TerminalStatuses == {"success", "warning", "error"}

\* Mutant: media that failed is fatal although the evaluators were dispatched.
IsFatalMediaFailure_AnyTime == MediaFailed

IsFatalMediaFailure == MediaFailed /\ ~triggered[Creative]

MediaUnit ==
  CASE Scored \/ media[Creative] = "completed"  -> "success"
    [] ~Scored /\ MediaFailed                   ->
         IF triggered[Creative] THEN "warning" ELSE "error"
    [] ~Scored /\ media[Creative] = "processing" ->
         IF triggered[Creative] THEN "success" ELSE "processing"
    [] OTHER                                    -> "queued"

EvaluationUnit(e) ==
  IF Scored THEN "success"
  ELSE IF IsFatalMediaFailure THEN "error"
  ELSE CASE run[e] = "completed"                    -> "success"
         [] run[e] \in RunFailures                  -> "error"
         [] run[e] \in {"dispatched", "processing"} -> "processing"
         [] OTHER -> IF triggered[Creative] THEN "processing" ELSE "queued"

ScoringUnit ==
  IF Scored THEN "success"
  ELSE IF IsFatalMediaFailure THEN "error"
  ELSE CASE completion = "completed"                 -> "success"
         [] completion = "failed"                    -> "error"
         [] completion \in {"pending", "processing"} -> "processing"
         [] OTHER                                    -> "queued"

Units == {MediaUnit, ScoringUnit} \cup {EvaluationUnit(e) : e \in Evaluators}

IsDone == Units \subseteq TerminalStatuses

FatalError ==
  /\ ~Scored
  /\ \/ IsFatalMediaFailure
     \/ completion = "failed"
     \/ \E e \in Evaluators : run[e] \in RunFailures

-----------------------------------------------------------------------------
(* Properties.                                                             *)

\* The evaluators judge evidence that no longer changes: once they have been
\* dispatched, no second replica that reads the message after a lost lease touches
\* a task's row, with the shipped MAX_RETRIES of 1. With more, a retry may rewrite
\* rows under dispatched evaluators, as migration 044 allows.
EvidenceIsFrozen ==
  [][triggered[Creative] => row'[Creative] = row[Creative]]_reviewVars

\* Runs exist exactly when the trigger has fired, and no evaluator is at work
\* on a creative one of whose tasks is not finished, though a second replica may
\* have read its message and the first may answer late.
EvaluatedAfterMedia ==
  \A e \in Evaluators :
    /\ (run[e] # "absent") <=> triggered[Creative]
    /\ run[e] # "absent" =>
         \A t \in Tasks : row[Creative][t] \in {"success", "error"}

\* A creative the progress page has released is over for the history as well:
\* it has its scorecard, or the history says that it failed.
DoneMeansOver == IsDone => Scored \/ Failed

\* "Nothing will change again, so stop asking" (useRequestProgress.ts:90), of a
\* creative that is done after its evaluators were dispatched: it stays done and
\* does not turn into a failure, whatever replica gives its message up late,
\* whatever call is late or repeated and whoever rebuilds its scorecard.  One that
\* is done because its media failed is another matter: a replica that gave the
\* message up after a lost lease says so while the first still works on it.
DispatchedDoneIsFinal ==
  [][triggered[Creative] /\ IsDone => IsDone' /\ (FatalError' => FatalError)]_reviewVars
=============================================================================
