---------------------- MODULE MC_EvaluatorTransactions ----------------------
(* Small instances of EvaluatorTransactions for TLC.                       *)
EXTENDS EvaluatorTransactions, TLC

CONSTANTS claims_accuracy, cta_effectiveness

TwoEvaluators == {claims_accuracy, cta_effectiveness}
TwoEvaluatorsMetrics ==
  (claims_accuracy :> {"product_truth", "policy_compliance"}) @@
  (cta_effectiveness :> {"cta_clarity"})
TwoEvaluatorsAll == {"product_truth", "policy_compliance", "cta_clarity"}

\* One call of each evaluator.
SingleCalls == TwoEvaluators \X {1}
=============================================================================
