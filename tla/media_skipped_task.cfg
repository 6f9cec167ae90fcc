SPECIFICATION Spec
CONSTANTS
  w1 = w1
  w2 = w2
  transcription = transcription
  ocr = ocr
  context = context
  NoJob = NoJob
  Jobs = {j1}
  Workers = {w1, w2}
  Tasks = {transcription, ocr}
  OcrTask = ocr
  SkippableTasks <- OcrSkippable
  MaxRetries = 1
  PromptSteps <- PromptAll
  MaxCrashes = 0
  MaxMissedBeats = 0
CHECK_DEADLOCK FALSE
INVARIANTS
  UnfinishedTaskKeepsItsMessage
