SPECIFICATION Spec
CONSTANTS
  Judgments  <- MC_Judgments
  Batches    <- MC_Batches
  Creatives  <- MC_Creatives
  BatchOf    <- MC_BatchOf
  JudgmentOf <- MC_JudgmentOf
  Reads = {"scores", "issues"}
  Polls = {p1, p2}
  Loads = {l1, l2}
  MaxEffects = 1
  Away = away
  NoBatch = none
INVARIANT ResultsAreWhole
\* The user leaves, and the requests are over.
CHECK_DEADLOCK FALSE
