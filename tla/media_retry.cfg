SPECIFICATION Spec
CONSTANTS
  w1 = w1
  w2 = w2
  transcription = transcription
  ocr = ocr
  context = context
  NoJob = NoJob
  Jobs = {j1}
  Workers = {w1, w2}
  Tasks = {transcription, ocr, context}
  OcrTask = ocr
  SkippableTasks = {}
  MaxRetries = 3
  PromptSteps <- PromptAll
  MaxCrashes = 3
  MaxMissedBeats = 0
CHECK_DEADLOCK FALSE
SYMMETRY WorkerSymmetry
INVARIANTS
  CompletedIsWhole
PROPERTIES
  SuccessIsKept
