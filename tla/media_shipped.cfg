SPECIFICATION FairSpec
CONSTANTS
  w1 = w1
  w2 = w2
  transcription = transcription
  ocr = ocr
  context = context
  NoJob = NoJob
  Jobs = {j1}
  Workers = {w1, w2}
  Tasks = {transcription, ocr}
  OcrTask = ocr
  SkippableTasks <- AllSkippable
  MaxRetries = 1
  PromptSteps <- PromptStart
  MaxCrashes = 2
  MaxMissedBeats = 2
CHECK_DEADLOCK FALSE
INVARIANTS
  ConcurrentAttemptsBounded
  UnattendedIsFinal
PROPERTIES
  AgentsSeeFinishedEvidence
  EventuallyFinal
