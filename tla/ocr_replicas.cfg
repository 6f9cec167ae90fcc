SPECIFICATION Spec
CONSTANTS
  w1 = w1
  w2 = w2
  f1 = f1
  f2 = f2
  a = a
  b = b
  Workers = {w1, w2}
  Frames = {f1, f2}
  Images = {a, b}
  MaxDeliveries = 3
  TaskAttempts = 2
CHECK_DEADLOCK FALSE
INVARIANTS
  ResultIsEvidenced
  StatusMatchesResult
PROPERTIES
  ImplementsOcrResult
  OcrIsNotRepeated
