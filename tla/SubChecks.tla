------------------------------ MODULE SubChecks ------------------------------
(***************************************************************************)
(* The verdicts that the seven evaluators share: the result of a sub-check *)
(* and its severity, what becomes of a model's answer to one, and how the  *)
(* sub-checks of a metric roll up into its result.                         *)
(*                                                                         *)
(* A verdict stands for the pair of result and severity.  A failure is     *)
(* named by its severity; "passed" is passed/none (true/none of a metric)  *)
(* and "cannot_assess" is cannot_assess/cannot_assess.  Any other pair is  *)
(* "unrated": the validation refuses it.                                   *)
(***************************************************************************)
EXTENDS Integers, FiniteSets

Failures == {"low", "medium", "high", "critical"}
Verdicts == {"passed", "cannot_assess"} \cup Failures

\* What a model says of one sub-check: nothing, a verdict, or a failure whose
\* severity is none or cannot_assess.
Answers == Verdicts \cup {"missing", "unrated"}

severityRank ==
  [v \in Verdicts \cup {"unrated"} |->
     CASE v = "cannot_assess" -> -1
       [] v = "low"           -> 1
       [] v = "medium"        -> 2
       [] v = "high"          -> 3
       [] v = "critical"      -> 4
       [] OTHER               -> 0]

Worst(vs) == CHOOSE v \in vs : \A w \in vs : severityRank[w] <= severityRank[v]

\* A check is judged if it passed or failed.
Judged(v) == v # "cannot_assess"

-----------------------------------------------------------------------------
(* A metric's sub-checks are a function from check identifiers.            *)

\* Mutant: the mildest failure counts.
highestFailedSeverity_Mildest(checks) ==
  LET failed == {checks[c] : c \in DOMAIN checks} \cap Failures
  IN  IF failed = {} THEN "passed"
      ELSE CHOOSE v \in failed : \A w \in failed : severityRank[v] <= severityRank[w]

highestFailedSeverity(checks) ==
  LET failed == {checks[c] : c \in DOMAIN checks} \cap Failures
  IN  IF failed = {} THEN "passed" ELSE Worst(failed)

\* Abstention only if there is nothing to judge, otherwise the worst failure.
rollupChecks(checks) ==
  IF \A c \in DOMAIN checks : ~Judged(checks[c])
  THEN "cannot_assess"
  ELSE highestFailedSeverity(checks)

\* assertMetricSemantics and assertSubCheckSemantics.
WellFormed(verdicts) == \A c \in DOMAIN verdicts : verdicts[c] \in Verdicts

-----------------------------------------------------------------------------
(* From a model's answer to a verdict.                                     *)

clampSeverity(v, max) ==
  IF severityRank[v] > severityRank[max] THEN max ELSE v

\* Call-to-action and storyline: a failure without a severity is a low one.
fromLlmSubCheck(answer, max) ==
  CASE answer = "missing" -> "cannot_assess"
    [] answer = "unrated" -> "low"
    [] OTHER              -> clampSeverity(answer, max)

\* Mutant: a failure without a severity is passed on as it is.
normalizeModelSubCheck_Raw(answer) ==
  IF answer = "missing" THEN "cannot_assess" ELSE answer

\* Brief and product: a failure without a severity says nothing.
normalizeModelSubCheck(answer) ==
  IF answer \in {"missing", "unrated"} THEN "cannot_assess" ELSE answer

\* Brand: a failure without a severity is a medium one.
makeCheck(answer) == IF answer = "unrated" THEN "medium" ELSE answer
=============================================================================
