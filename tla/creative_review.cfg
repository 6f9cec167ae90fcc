SPECIFICATION ReviewSpec
CONSTANTS
  w1 = w1
  w2 = w2
  transcription = transcription
  ocr = ocr
  claims_accuracy = claims_accuracy
  cta_effectiveness = cta_effectiveness
  product_truth = product_truth
  cta_clarity = cta_clarity
  creative = creative
  Creative = creative
  Jobs = {creative}
  NoJob = NoJob
  Workers = {w1, w2}
  Tasks = {transcription, ocr}
  OcrTask = ocr
  SkippableTasks = {}
  MaxRetries = 1
  PromptSteps <- PromptAll
  MaxCrashes = 1
  MaxMissedBeats = 1
  Evaluators <- TwoEvaluators
  Metrics <- TwoMetrics
  MetricsOf <- TwoMetricsOf
  Calls <- TwoDispatched
  Handlers = {h1}
SYMMETRY Interchangeable
CHECK_DEADLOCK FALSE
INVARIANTS
  EvaluatedAfterMedia
  DoneMeansOver
PROPERTIES
  EvidenceIsFrozen
  DispatchedDoneIsFinal
