---------------------------- MODULE ScoreEngine ----------------------------
(***************************************************************************)
(* The Launch-Readiness Scorecard of one Ad Creative: from the rows of the *)
(* evaluators to the nine metrics, and from these to the readiness per     *)
(* cent, the verdict and the bars of the breakdown.                        *)
(*                                                                         *)
(* Scores are exact here and floating-point numbers in the code.  Over all *)
(* severities of the seven weighted metrics the two differ by one tenth in *)
(* fourteen sums, and neither in the whole per cent nor in the verdict.    *)
(***************************************************************************)
EXTENDS Integers, FiniteSets

-----------------------------------------------------------------------------
(* Configuration v0.3.                                                     *)

Weights ==
  [brief_adherence        |-> 20,
   product_truth          |-> 20,
   product_clarity        |-> 15,
   audience_channel_fit   |-> 15,
   brand_fit              |-> 10,
   cta_clarity            |-> 10,
   creative_effectiveness |-> 10,
   production_readiness   |-> 0,
   policy_compliance      |-> 0]

ScoredMetrics == DOMAIN Weights

Deductions ==
  [none |-> 0, low |-> 5, medium |-> 20, high |-> 40, critical |-> 100]

Severities        == DOMAIN Deductions
FailureSeverities == Severities \ {"none"}

ReadyMin         == 85
NeedsRevisionMin == 65

\* Metrics that stop a launch, from which severity on.
GatingRules == [production_readiness |-> "high", policy_compliance |-> "high"]

DisplayDimensions ==
  [claims_accuracy        |-> {"product_truth"},
   product_representation |-> {"product_clarity"},
   storyline_brief        |-> {"brief_adherence", "creative_effectiveness",
                               "audience_channel_fit"},
   cta_effectiveness      |-> {"cta_clarity"},
   brand_alignment        |-> {"brand_fit"},
   visual_asset_quality   |-> {"production_readiness"}]

\* A score that does not exist: null in the tables, "Cannot_Assess" of a bar.
NoScore == -1

-----------------------------------------------------------------------------
(* From the rows of agent_results to the inputs of the engine.             *)

\* The ten atomic metrics and the evaluators that own them.
AgentOf ==
  [brief_adherence        |-> "brief_alignment",
   product_truth          |-> "claims_accuracy",
   product_clarity        |-> "product_representation",
   audience_fit           |-> "brief_alignment",
   channel_readiness      |-> "storyline_clarity",
   brand_fit              |-> "brand_alignment",
   cta_clarity            |-> "cta_effectiveness",
   creative_effectiveness |-> "storyline_clarity",
   production_readiness   |-> "visual_quality",
   policy_compliance      |-> "claims_accuracy"]

AtomicMetrics == DOMAIN AgentOf

\* A failure has a severity, everything else has none.
ValidPair(r) ==
  \/ r.result = "false" /\ r.severity \in FailureSeverities
  \/ r.result \in {"true", "cannot_assess"} /\ r.severity = "none"

validateAtomicRow(r) == r.agent = AgentOf[r.metric_id] /\ ValidPair(r)

\* Metrics that the engine does not know are ignored; of those it knows every one
\* must be there exactly once.
Scorable(rows) ==
  LET known == {r \in rows : r.metric_id \in AtomicMetrics} IN
  /\ \A r \in known : validateAtomicRow(r)
  /\ \A m \in AtomicMetrics : Cardinality({r \in known : r.metric_id = m}) = 1

WorseOf(s, t) == IF Deductions[s] >= Deductions[t] THEN s ELSE t

\* Mutant: of two failures the milder one counts.
combineAudienceChannelFit_Milder(a, c) ==
  LET failures == {r \in {a, c} : r.result = "false"} IN
  IF failures # {}
  THEN [result   |-> "false",
        severity |-> (CHOOSE r \in failures : \A q \in failures :
                        Deductions[r.severity] <= Deductions[q.severity]).severity]
  ELSE [result   |-> IF "cannot_assess" \in {a.result, c.result}
                     THEN "cannot_assess" ELSE "true",
        severity |-> "none"]

\* One metric of two judgments: a failure of either stands even if the other
\* abstained.
combineAudienceChannelFit(a, c) ==
  CASE "false" \in {a.result, c.result} ->
         [result |-> "false", severity |-> WorseOf(a.severity, c.severity)]
    [] "cannot_assess" \in {a.result, c.result} /\ "false" \notin {a.result, c.result} ->
         [result |-> "cannot_assess", severity |-> "none"]
    [] OTHER -> [result |-> "true", severity |-> "none"]

RowOf(rows, m) == CHOOSE r \in rows : r.metric_id = m

\* Of scorable rows.
metricInputsFromAgentResults(rows) ==
  [m \in ScoredMetrics |->
     IF m = "audience_channel_fit"
     THEN combineAudienceChannelFit(RowOf(rows, "audience_fit"),
                                    RowOf(rows, "channel_readiness"))
     ELSE [result   |-> RowOf(rows, m).result,
           severity |-> RowOf(rows, m).severity]]

\* The same checks again, on the inputs: exactly the nine metrics, valid pairs.
parseScoreEngineRequest(inputs) ==
  DOMAIN inputs = ScoredMetrics /\ \A m \in ScoredMetrics : ValidPair(inputs[m])

-----------------------------------------------------------------------------
(* The engine.                                                             *)

clampSeverity(input) == IF input.result = "false" THEN input.severity ELSE "none"

metricScore(severity) == 100 - Deductions[severity]

scoreOne(input) ==
  IF input.result = "cannot_assess" THEN NoScore ELSE metricScore(clampSeverity(input))

isGatingFailure(m, input) ==
  /\ input.result = "false"
  /\ m \in DOMAIN GatingRules
  /\ Deductions[clampSeverity(input)] >= Deductions[GatingRules[m]]

\* Half up: to tenths, and from tenths to a whole number.
round1(n, d) == (20 * n + d) \div (2 * d)
roundInt(tenths) == (tenths + 5) \div 10

\* The sum of the numbers of ms, written out over the metrics there are: a fold
\* is beyond the provers.
SumOver(number, ms) ==
  LET of(m) == IF m \in ms THEN number[m] ELSE 0 IN
  of("product_truth") + of("product_clarity") + of("brief_adherence")
    + of("creative_effectiveness") + of("audience_channel_fit") + of("cta_clarity")
    + of("brand_fit") + of("production_readiness") + of("policy_compliance")

WeightOf(ms) == SumOver(Weights, ms)

Points(inputs) == [m \in ScoredMetrics |-> Weights[m] * scoreOne(inputs[m])]

\* Weighted mean of the scores of ms, in tenths.
WeightedMean(inputs, ms) == round1(SumOver(Points(inputs), ms), WeightOf(ms))

Assessed(inputs, ms) == {m \in ms : inputs[m].result # "cannot_assess"}

\* The per cent of the assessed metrics that have a weight, in tenths.
computeAdReadinessPct(inputs) ==
  LET applicable == {m \in Assessed(inputs, ScoredMetrics) : Weights[m] > 0} IN
  IF applicable = {} THEN NoScore ELSE WeightedMean(inputs, applicable)

\* Mutant: the members of a bar count alike.
DimensionScore_Unweighted(inputs, d) ==
  LET members == Assessed(inputs, DisplayDimensions[d]) IN
  IF members = {} THEN NoScore
  ELSE roundInt(round1(SumOver([m \in members |-> scoreOne(inputs[m])], members),
                       Cardinality(members)))

\* A bar; the one whose only metric has no weight shows its score.
DimensionScore(inputs, d) ==
  LET members == Assessed(inputs, DisplayDimensions[d]) IN
  CASE members = {} -> NoScore
    [] members # {} /\ WeightOf(members) = 0 ->
         scoreOne(inputs[CHOOSE m \in members : TRUE])
    [] OTHER -> roundInt(WeightedMean(inputs, members))

GatingFailures(inputs) == {m \in ScoredMetrics : isGatingFailure(m, inputs[m])}

\* Mutant: what cannot be scored cannot be assessed, gate or not.
computeStatus_GateAfterScore(pct, gates) ==
  CASE pct = NoScore                                  -> "Cannot_Assess"
    [] pct # NoScore /\ gates # {}                    -> "High_Risk"
    [] pct >= 10 * ReadyMin /\ gates = {}             -> "Ready"
    [] pct \in 10 * NeedsRevisionMin .. 10 * ReadyMin - 1 /\ gates = {} ->
         "Needs_Revision"
    [] OTHER -> "High_Risk"

\* The verdict, on tenths of a per cent.
computeStatus(pct, gates) ==
  CASE pct = NoScore /\ gates = {}                    -> "Cannot_Assess"
    [] pct >= 10 * ReadyMin /\ gates = {}             -> "Ready"
    [] pct \in 10 * NeedsRevisionMin .. 10 * ReadyMin - 1 /\ gates = {} ->
         "Needs_Revision"
    [] OTHER -> "High_Risk"

\* Positions in the order of names.
Alphabetical ==
  [audience_channel_fit   |-> 1, brand_fit         |-> 2, brief_adherence |-> 3,
   creative_effectiveness |-> 4, cta_clarity       |-> 5, policy_compliance |-> 6,
   product_clarity        |-> 7, product_truth     |-> 8, production_readiness |-> 9]

\* Gates come first, then the worse, then what weighs more (a gate: 100).
Priority(inputs, m) ==
  LET gate == m \in GatingFailures(inputs) IN
  <<IF gate THEN 0 ELSE 1, -Deductions[inputs[m].severity],
    IF gate THEN -100 ELSE -Weights[m], Alphabetical[m]>>

Precedes(p, q) ==
  \E i \in DOMAIN p : p[i] < q[i] /\ \A j \in 1 .. i - 1 : p[j] = q[j]

\* The head of the list of issues that the engine returns; "none" if it is empty.
FirstIssue(inputs) ==
  LET failed == {m \in ScoredMetrics : inputs[m].result = "false"} IN
  IF failed = {} THEN "none"
  ELSE CHOOSE m \in failed :
         \A n \in failed \ {m} : Precedes(Priority(inputs, m), Priority(inputs, n))

scoreEngine(inputs) ==
  LET pct == computeAdReadinessPct(inputs) IN
  [pct        |-> IF pct = NoScore THEN NoScore ELSE roundInt(pct),
   status     |-> computeStatus(pct, GatingFailures(inputs)),
   dimensions |-> [d \in DOMAIN DisplayDimensions |-> DimensionScore(inputs, d)],
   first      |-> FirstIssue(inputs)]

\* projectLaunchReadinessScorecard stores this, or nothing.
NotReady ==
  [pct |-> NoScore, status |-> "Not_Ready", dimensions |-> <<>>, first |-> "none"]

Scorecard(rows) ==
  IF ~Scorable(rows) \/ ~parseScoreEngineRequest(metricInputsFromAgentResults(rows))
  THEN NotReady
  ELSE scoreEngine(metricInputsFromAgentResults(rows))
=============================================================================
