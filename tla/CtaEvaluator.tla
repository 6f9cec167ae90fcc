---------------------------- MODULE CtaEvaluator ----------------------------
(***************************************************************************)
(* The metric of the call-to-action evaluator, from the review's inputs,   *)
(* the calls to action that the first model call found, and what the       *)
(* second call said of them.  Times are in seconds.  Two texts match, by   *)
(* the share of their words, if they are equal here.                       *)
(***************************************************************************)
EXTENDS SubChecks

CtaGoals == {"awareness", "consideration", "repurchase", "conversion", "unknown"}

\* The sub-checks that the second model call is asked to judge.
CtaModelChecks == {"cta_absent", "cta_language_weak", "cta_goal_mismatch",
                   "cta_no_urgency", "cta_destination_unclear"}

CONSTANT CtaTexts   \* wordings of calls to action

Occurrences == [text : CtaTexts, onScreen : BOOLEAN, start : Nat, end : Nat]
TextSegments == [text : CtaTexts \cup {"other"}, start : Nat, end : Nat,
                 size : {"unmeasured", "below", "marginal", "fine"}]

CtaContexts == [goal : CtaGoals, duration : Nat, required : SUBSET CtaTexts,
                platformKnown : BOOLEAN, discouraged : SUBSET CtaTexts,
                ocr : SUBSET TextSegments]
Acquisitions == [usable : BOOLEAN, present : BOOLEAN, ctas : SUBSET Occurrences]
NoAcquisition == [usable |-> FALSE, present |-> FALSE, ctas |-> {}]

-----------------------------------------------------------------------------
(* Arithmetic on what was found.                                           *)

BuriedWindow == 5
MinDwell     == 2

ctaBuried(ctas) ==
  IF ctas # {} /\ \A c \in ctas : c.start <= BuriedWindow THEN "high" ELSE "passed"

\* The landing zone is from 70% to 100% of the running time.
InZone(c, duration) == 10 * c.start >= 7 * duration /\ c.start <= duration

ctaMistimed(ctas, duration) ==
  LET landing == {c \in ctas : InZone(c, duration)} IN
  CASE duration <= 0 -> "cannot_assess"
    [] duration > 0 /\ ctas = {} -> "passed"
    [] OTHER ->
         IF \E c \in landing : c.end - c.start >= MinDwell THEN "passed"
         ELSE IF landing # {} THEN "low" ELSE "medium"

overlaps(c, o) == c.start <= o.end /\ o.start <= c.end

\* The segments that render a call to action are measured; if there is none,
\* every measured segment shown with one is.
ctaLowVisibility(ctas, ocr) ==
  LET onScreen == {c \in ctas : c.onScreen}
      temporal == {o \in ocr : o.size # "unmeasured" /\ \E c \in onScreen : overlaps(c, o)}
      rendered == {o \in temporal : \E c \in onScreen : overlaps(c, o) /\ o.text = c.text}
      sizes    == {o.size : o \in IF rendered # {} THEN rendered ELSE temporal}
  IN  CASE onScreen = {} -> "passed"
        [] onScreen # {} /\ temporal = {} -> "cannot_assess"
        [] OTHER -> IF "below" \in sizes THEN "medium"
                    ELSE IF "marginal" \in sizes THEN "low" ELSE "passed"

ctaPlatformMismatch(ctx, ctas) ==
  IF ~ctx.platformKnown THEN "cannot_assess"
  ELSE IF \E c \in ctas : c.text \in ctx.discouraged THEN "medium" ELSE "passed"

CTA_ABSENT_SEVERITY ==
  [g \in CtaGoals |-> CASE g = "awareness"  -> "passed"
                        [] g = "repurchase" -> "high"
                        [] g = "conversion" -> "critical"
                        [] OTHER            -> "medium"]

\* The second call is asked for the presence only if the first one failed.
buildCtaAbsent(goal, acquisition, answer) ==
  LET present == IF acquisition.usable THEN acquisition.present ELSE answer = "passed" IN
  IF ~acquisition.usable /\ answer \in {"missing", "cannot_assess"} THEN "cannot_assess"
  ELSE IF present THEN "passed" ELSE CTA_ABSENT_SEVERITY[goal]

-----------------------------------------------------------------------------
(* The nine sub-checks.  A call to action that the brief asks for caps two *)
(* judgments of its wording.                                               *)

matchesRequiredCta(ctx, acquisition) ==
  \E c \in acquisition.ctas : c.text \in ctx.required

capToBriefLow(v, matched) == IF matched THEN clampSeverity(v, "low") ELSE v

buildCtaClarity(ctx, acquisition, answers) ==
  LET ctas    == acquisition.ctas
      matched == matchesRequiredCta(ctx, acquisition)
  IN  [cta_absent  |-> buildCtaAbsent(ctx.goal, acquisition, answers["cta_absent"]),
       cta_buried  |-> ctaBuried(ctas),
       cta_mistimed |-> ctaMistimed(ctas, ctx.duration),
       cta_language_weak |->
         capToBriefLow(fromLlmSubCheck(answers["cta_language_weak"], "medium"), matched),
       cta_goal_mismatch |->
         IF ctx.goal = "unknown" THEN "cannot_assess"
         ELSE capToBriefLow(fromLlmSubCheck(answers["cta_goal_mismatch"], "high"), matched),
       cta_no_urgency |->
         IF ctx.goal = "conversion" THEN fromLlmSubCheck(answers["cta_no_urgency"], "low")
         ELSE "passed",
       cta_destination_unclear |->
         fromLlmSubCheck(answers["cta_destination_unclear"], "medium"),
       cta_low_visibility    |-> ctaLowVisibility(ctas, ctx.ocr),
       cta_platform_mismatch |-> ctaPlatformMismatch(ctx, ctas)]

CtaSubChecks(ctx, acquisition, answers) ==
  [cta_clarity |-> buildCtaClarity(ctx, acquisition, answers)]
=============================================================================
