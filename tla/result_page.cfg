SPECIFICATION FairSpec
CONSTANTS
  Judgments  <- MC_Judgments
  Batches    <- MC_Batches
  Creatives  <- MC_Creatives
  BatchOf    <- MC_BatchOf
  JudgmentOf <- MC_JudgmentOf
  Reads = {"scores"}
  Polls = {p1, p2}
  Loads = {l1, l2}
  MaxEffects = 3
  Away = away
  NoBatch = none
INVARIANTS
  ShowsOwnBatch
  NobodyIsMissing
  WorseRowsNeverHelp
  HeadlineWithinBreakdown
  VerdictIsExplained
PROPERTY PageSettles
\* The user leaves, and the requests are over.
CHECK_DEADLOCK FALSE
