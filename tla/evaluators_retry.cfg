SPECIFICATION RunsFairSpec
CONSTANTS
  claims_accuracy = claims_accuracy
  cta_effectiveness = cta_effectiveness
  Evaluators <- TwoEvaluators
  Metrics <- TwoEvaluatorsAll
  MetricsOf <- TwoEvaluatorsMetrics
  Calls <- Resent
  Handlers = {h1}
CHECK_DEADLOCK FALSE
INVARIANTS
  ResultsMatchLifecycle
  CompletionFollowsEvaluators
  ScorecardIsGrounded
PROPERTIES
  RunsEnd
  CompletionRequestedOnce
  CompletedWorkIsKept
