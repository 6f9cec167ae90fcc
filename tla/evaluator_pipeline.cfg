SPECIFICATION FairSpec
CONSTANTS
  CtaTexts <- MC_CtaTexts
  Claims   <- MC_Claims
  Contexts <- MC_Contexts
  Replies  <- MC_Replies
INVARIANTS
  DegradingReturns
  AbstainsWithoutEvidence
  ClaimsAreExamined
  WorseAnswersNeverHelp
  SparseInputIsGentle
PROPERTY EveryRunEnds
\* An evaluation is over when its evaluator has returned or thrown.
CHECK_DEADLOCK FALSE
