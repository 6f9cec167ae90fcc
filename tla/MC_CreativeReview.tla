------------------------- MODULE MC_CreativeReview --------------------------
(* Small instances of CreativeReview for TLC.                               *)
EXTENDS CreativeReview, TLC

CONSTANTS creative, w1, w2, transcription, ocr,
          claims_accuracy, cta_effectiveness, product_truth, cta_clarity

\* The replicas run the same program, the two evaluators differ in nothing but the
\* metric that each returns, and the run asks for no liveness.
SwapEvaluators ==
  (claims_accuracy :> cta_effectiveness) @@ (cta_effectiveness :> claims_accuracy) @@
  (product_truth :> cta_clarity) @@ (cta_clarity :> product_truth)
Interchangeable == Permutations(Workers) \cup {SwapEvaluators}

PromptAll == {"start", "exhausted", "archive", "delete", "fail", "retry"}

TwoEvaluators == {claims_accuracy, cta_effectiveness}
TwoMetricsOf == (claims_accuracy :> {product_truth}) @@ (cta_effectiveness :> {cta_clarity})
TwoMetrics == {product_truth, cta_clarity}
\* No call but the dispatched one.
TwoDispatched == TwoEvaluators \X {1}
=============================================================================
