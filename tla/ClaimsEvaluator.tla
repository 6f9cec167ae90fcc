--------------------------- MODULE ClaimsEvaluator ---------------------------
(***************************************************************************)
(* The two metrics of the claims evaluator.  Claims are known by the       *)
(* identifier the extraction gave them.  A claim is kept if it was said or *)
(* shown in the ad, triage sorts out puffery, the substantiation finds     *)
(* fault with the claims that are left, and one more model call looks at   *)
(* the whole ad for its policy.                                            *)
(***************************************************************************)
EXTENDS SubChecks

CONSTANT Claims   \* identifiers of claims

ClaimsContexts == [evidence : BOOLEAN]   \* there is a transcript or OCR segment

\* The claims that the extraction names, and whether one of the segments it gives for
\* a claim is a segment of the transcript or of the OCR.
Extractions == UNION {[cs -> BOOLEAN] : cs \in SUBSET Claims}

\* Triage may not cover a claim, and may call one verifiable without giving it
\* a category.
TriageAnswers == {"uncovered", "puffery", "verifiable", "uncategorised"}

Faults == {"unsupported", "contradicted", "forbidden_claim"}
Findings == [classification : Faults \cup {"none"}, severity : 0 .. 4]
FindingAnswers == [covered : {TRUE}, finding : Findings] \cup
                  [covered : {FALSE}, finding : {[classification |-> "none", severity |-> 0]}]

\* The OCR segment that the model named as the disclaimer, if it resolves.
DisclaimerTexts == [found : BOOLEAN, font : {"unknown", "small", "fine"}, brief : BOOLEAN]
Policies == [required : BOOLEAN, present : BOOLEAN, onScreen : DisclaimerTexts,
             detected : BOOLEAN, severity : 0 .. 4]

ScoreVerdict == [s \in 0 .. 4 |-> CASE s = 0 -> "unrated"
                                    [] s = 1 -> "low"
                                    [] s = 2 -> "medium"
                                    [] s = 3 -> "high"
                                    [] s = 4 -> "critical"]

-----------------------------------------------------------------------------
(* Extraction, triage and substantiation.                                  *)

\* A claim none of whose segments resolves is dropped, without a word.
processExtractionResponse(reply) == {c \in DOMAIN reply : reply[c]}

\* A claim that triage did not cover is verifiable, for safety.
processTriageResponse(claims, reply) ==
  [c \in claims |-> IF reply[c] = "uncovered" THEN "verifiable" ELSE reply[c]]

verifiableClaims(triage) == {c \in DOMAIN triage : triage[c] = "verifiable"}

\* Mutant: a claim that substantiation did not cover has no finding.
processSubstantiationResponse_DropsUncovered(claims, reply) ==
  [c \in {d \in claims : reply[d].covered} |-> reply[c].finding]

\* A claim that substantiation did not cover is flagged for manual review.
processSubstantiationResponse(claims, reply) ==
  [c \in claims |->
     IF reply[c].covered THEN reply[c].finding
     ELSE [classification |-> "unsupported", severity |-> 2]]

-----------------------------------------------------------------------------
(* Product truth: one sub-check for every kind of fault.                   *)

FaultScore(findings, fault) ==
  LET scores == {findings[c].severity :
                   c \in {d \in DOMAIN findings : findings[d].classification = fault}} IN
  IF scores = {} THEN 0 ELSE CHOOSE s \in scores : \A t \in scores : t <= s

evaluateProductTruth(evidence, findings) ==
  [fault \in Faults |->
     IF ~evidence THEN "cannot_assess"
     ELSE IF FaultScore(findings, fault) = 0 THEN "passed"
     ELSE ScoreVerdict[FaultScore(findings, fault)]]

-----------------------------------------------------------------------------
(* Policy compliance.  Only a disclaimer on screen has a size and a        *)
(* duration.                                                               *)

MatchedOcr(policy) == policy.present /\ policy.onScreen.found

evaluatePolicyCompliance(policy) ==
  [missing_disclaimer |->
     IF policy.required /\ ~policy.present THEN "critical" ELSE "passed",
   disclaimer_contrast_low |->
     IF ~MatchedOcr(policy) \/ policy.onScreen.font = "unknown" THEN "cannot_assess"
     ELSE IF policy.onScreen.font = "small" THEN "low" ELSE "passed",
   disclaimer_duration_insufficient |->
     IF ~MatchedOcr(policy) THEN "cannot_assess"
     ELSE IF policy.onScreen.brief THEN "low" ELSE "passed",
   policy_violation_depicted |->
     IF policy.detected THEN ScoreVerdict[policy.severity] ELSE "passed"]

-----------------------------------------------------------------------------

\* The metrics roll up like those of the other evaluators: product truth abstains
\* with all its checks, and policy compliance always has a check that is judged.
ClaimsSubChecks(ctx, findings, policy) ==
  [product_truth     |-> evaluateProductTruth(ctx.evidence, findings),
   policy_compliance |-> evaluatePolicyCompliance(policy)]
=============================================================================
