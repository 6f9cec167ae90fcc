SPECIFICATION FairSpec
CONSTANTS
  claims_accuracy = claims_accuracy
  cta_effectiveness = cta_effectiveness
  Evaluators <- TwoEvaluators
  Metrics <- TwoEvaluatorsAll
  MetricsOf <- TwoEvaluatorsMetrics
  Calls <- SingleCalls
  MaxDeletions = 1
CHECK_DEADLOCK FALSE
INVARIANTS
  NothingSurvivesDeletion
PROPERTIES
  CompletionsAreAtomic
  NobodyWaitsForEver
