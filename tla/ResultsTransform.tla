-------------------------- MODULE ResultsTransform --------------------------
(***************************************************************************)
(* What the results page says of one Ad Creative.  Scorecard and issues    *)
(* are projected from the same rows by two functions that know nothing of  *)
(* each other, and read by the browser as two tables; the page puts the    *)
(* verdict of the one over the list of the other.                          *)
(***************************************************************************)
EXTENDS ScoreEngine

CONSTANT Judgments \* what the evaluators may say: functions from the atomic metrics

Pairs ==
  [result : {"true", "false", "cannot_assess"}, severity : Severities \cup {"cannot_assess"}]

ASSUME JudgmentsAssumption == \A j \in Judgments : j \in [AtomicMetrics -> Pairs]

\* The rows that the owners of the metrics write.
Rows(j) ==
  {[agent |-> AgentOf[m], metric_id |-> m, result |-> j[m].result,
    severity |-> j[m].severity] : m \in AtomicMetrics}

-----------------------------------------------------------------------------
(* The issues of a creative.                                               *)

\* One for each row that failed.
buildIssuesSummary(rows) ==
  {[metric |-> r.metric_id, severity |-> r.severity] :
     r \in {q \in rows : q.result = "false"}}

isDisplaySeverity(s) == s \in {"critical", "high", "medium", "low"}

toIssues(issues) == {i \in issues : isDisplaySeverity(i.severity)}

-----------------------------------------------------------------------------
(* The texts that depend on both.                                          *)

toShipStatus(status) ==
  CASE status = "Ready"          -> "ready"
    [] status = "Needs_Revision" -> "revision"
    [] status = "High_Risk"      -> "nope"
    [] OTHER                     -> "unassessed"

\* The line under the name of the video.
buildSummary(shown, status) ==
  CASE status = "unassessed"                -> "could_not_be_assessed"
    [] status # "unassessed" /\ shown = {}  -> "no_issues_found"
    [] OTHER                                -> "issues_found"

\* The text in place of a list that is empty.
emptyIssuesCopy(status) ==
  CASE status = "ready"      -> "ready_to_ship"
    [] status = "unassessed" -> "nothing_to_show"
    [] OTHER                 -> "no_specific_issues_were_listed"

\* Null scores last.
RanksAbove(p, q) == p # NoScore /\ (q = NoScore \/ p > q)

\* A video of the ranking, from its scorecard and its issues.
Video(card, issues) ==
  [score   |-> card.pct,
   status  |-> toShipStatus(card.status),
   metrics |-> card.dimensions,
   issues  |-> toIssues(issues),
   summary |-> buildSummary(toIssues(issues), toShipStatus(card.status))]

-----------------------------------------------------------------------------
(* What holds of every creative whose evaluators say one of Judgments; the *)
(* properties of ResultPage state it of what is shown.                     *)

Scored(j) == Scorable(Rows(j))

VerdictRank ==
  [v \in {"Ready", "Needs_Revision", "High_Risk"} |->
     CASE v = "Ready" -> 3 [] v = "Needs_Revision" -> 2 [] v = "High_Risk" -> 1]

Worsening == [none |-> "low", low |-> "medium", medium |-> "high", high |-> "critical"]

\* One metric fails that passed, or fails one step worse.
Worsened(j) ==
  {[j EXCEPT ![m] = [result |-> "false", severity |-> Worsening[@.severity]]] :
     m \in {n \in AtomicMetrics :
              j[n].result # "cannot_assess" /\ j[n].severity \in DOMAIN Worsening}}

\* The two judgments of the composite metric: one that abstains keeps a pass of the
\* other out of the score and lets its failure in.
CompositeEnters(j, w) ==
  "cannot_assess" \in {j["audience_fit"].result, j["channel_readiness"].result}
    /\ \E m \in {"audience_fit", "channel_readiness"} :
         j[m].result = "true" /\ w[m].result = "false"

\* Through combination, weights, gates and two roundings: a creative that is found
\* worse in one respect never gets a higher per cent or a better verdict, but for a
\* failure that enters the score only because it is one.
WorseNeverScoresBetter ==
  \A j \in Judgments : Scored(j) =>
    LET card == Scorecard(Rows(j)) IN
    \A w \in Worsened(j) :
      LET worse == Scorecard(Rows(w)) IN
      \/ CompositeEnters(j, w)
      \/ /\ worse.pct <= card.pct
         /\ card.status # "Cannot_Assess" =>
              VerdictRank[worse.status] <= VerdictRank[card.status]

\* The headline is explained by the breakdown below it: it lies between the lowest
\* and the highest bar of a metric that has a weight.  Weights, bars and the metrics
\* under them are three tables of the configuration.
BarsEncloseHeadline ==
  \A j \in Judgments :
    LET card == Scorecard(Rows(j))
        bars == {card.dimensions[d] :
                   d \in DOMAIN card.dimensions \ {"visual_asset_quality"}} \ {NoScore}
    IN  card.pct # NoScore =>
          \E low, high \in bars : low <= card.pct /\ card.pct <= high

\* The verdict and the list of issues, derived apart, do not contradict each other:
\* a video that is said to have no issues is ready; one that is ready shows 85 or
\* more and no issue that stops a launch; one that shows 65 or more and is not to be
\* shipped has such an issue, at the head of what is to be fixed.
IssuesExplainVerdict ==
  \A j \in Judgments : Scored(j) =>
    LET card  == Scorecard(Rows(j))
        video == Video(card, buildIssuesSummary(Rows(j)))
        stops == \E i \in video.issues :
                   i.metric \in DOMAIN GatingRules /\ i.severity \in {"high", "critical"}
    IN  /\ video.summary = "no_issues_found" => emptyIssuesCopy(video.status) = "ready_to_ship"
        /\ video.status = "ready" => video.score >= ReadyMin /\ ~stops
        /\ stops => video.status = "nope" /\ card.first \in DOMAIN GatingRules
        /\ video.status = "nope" /\ video.score > NeedsRevisionMin => stops
        /\ video.status = "unassessed" => video.score = NoScore /\ ~stops
=============================================================================
