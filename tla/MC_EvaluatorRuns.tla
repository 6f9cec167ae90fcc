-------------------------- MODULE MC_EvaluatorRuns --------------------------
(* Small instances of EvaluatorRuns for TLC.                               *)
EXTENDS EvaluatorRuns, TLC

CONSTANTS claims_accuracy, cta_effectiveness

TwoEvaluators == {claims_accuracy, cta_effectiveness}
TwoEvaluatorsMetrics ==
  (claims_accuracy :> {"product_truth", "policy_compliance"}) @@
  (cta_effectiveness :> {"cta_clarity"})
TwoEvaluatorsAll == {"product_truth", "policy_compliance", "cta_clarity"}

\* One call each; and a second call of the first evaluator.
SingleCalls == TwoEvaluators \X {1}
Resent == SingleCalls \cup {<<claims_accuracy, 2>>}
=============================================================================
