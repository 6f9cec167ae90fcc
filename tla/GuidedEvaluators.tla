-------------------------- MODULE GuidedEvaluators --------------------------
(***************************************************************************)
(* The evaluators whose sub-checks are judged by one model call against    *)
(* guidance that may be absent: brief alignment, product representation    *)
(* and brand alignment.  Every field of a context says whether an input    *)
(* the code looks at is there.                                             *)
(***************************************************************************)
EXTENDS SubChecks

BriefContexts == [rawBrief : BOOLEAN, goal : BOOLEAN, requiredMessages : BOOLEAN,
                  targetAudience : BOOLEAN]
ProductContexts == [productFrames : BOOLEAN, visualFrames : BOOLEAN,
                    productPage : BOOLEAN, transcript : BOOLEAN, ocr : BOOLEAN]

BriefChecks == [brief_adherence |-> {"objective_missed", "required_message_missing"},
                audience_fit    |-> {"demographic_mismatch", "demographic_restricted"}]
BriefModelChecks == UNION {BriefChecks[m] : m \in DOMAIN BriefChecks}
ProductModelChecks == {"product_not_shown", "product_obscured",
                       "product_appearance_wrong", "product_name_unspoken"}

-----------------------------------------------------------------------------
(* Which check has no input to be judged by.                               *)

briefInputMissing(ctx, c) ==
  CASE c = "required_message_missing" -> ~ctx.requiredMessages
    [] c = "objective_missed"         -> ~ctx.goal /\ ~ctx.rawBrief
    [] OTHER                          -> ~ctx.targetAudience /\ ~ctx.rawBrief

productInputMissing(ctx, c) ==
  CASE c = "product_not_shown"        -> ~ctx.productFrames /\ ~ctx.visualFrames
    [] c = "product_obscured"         -> ~ctx.productFrames
    [] c = "product_appearance_wrong" -> ~ctx.productPage
    [] c = "product_name_unspoken"    -> ~ctx.transcript /\ ~ctx.ocr

\* Mutant: a check without its input is what the model says of it.
Guarded_TrustsModel(missing, answer) == normalizeModelSubCheck(answer)

Guarded(missing, answer) ==
  IF missing THEN "cannot_assess" ELSE normalizeModelSubCheck(answer)

BriefSubChecks(ctx, answers) ==
  [m \in DOMAIN BriefChecks |->
     [c \in BriefChecks[m] |-> Guarded(briefInputMissing(ctx, c), answers[c])]]

ProductSubChecks(ctx, answers) ==
  [product_clarity |->
     [c \in ProductModelChecks |-> Guarded(productInputMissing(ctx, c), answers[c])]]

-----------------------------------------------------------------------------
(* Brand alignment measures the logo itself and asks the model for palette *)
(* and voice, which it must both judge.                                    *)

LogoFrames == [reliable : BOOLEAN, reference : {"matches", "differs", "none"}]
BrandContexts == [logoRequired : BOOLEAN, logoFrames : SUBSET LogoFrames,
                  paletteGuidance : BOOLEAN, voiceGuidance : BOOLEAN]
BrandModelChecks == {"color_palette_off", "brand_voice_drift"}

\* No reply that can be used: both checks abstain.
NoBrandAnswers == [c \in BrandModelChecks |-> "cannot_assess"]

evaluateLogoChecks(ctx) ==
  LET detected  == {f \in ctx.logoFrames : f.reliable}
      incorrect == \E f \in detected : f.reference = "differs"
  IN  IF ~ctx.logoRequired
      THEN [logo_absent |-> "cannot_assess", logo_incorrect |-> "cannot_assess"]
      ELSE IF detected = {}
      THEN [logo_absent |-> "high", logo_incorrect |-> "cannot_assess"]
      ELSE [logo_absent |-> "passed",
            logo_incorrect |-> IF incorrect THEN "medium" ELSE "passed"]

BrandAsksModel(ctx) == ctx.paletteGuidance \/ ctx.voiceGuidance

evaluateQualitativeChecks(ctx, answers) ==
  [color_palette_off |-> IF ctx.paletteGuidance
                         THEN makeCheck(answers["color_palette_off"]) ELSE "cannot_assess",
   brand_voice_drift |-> IF ctx.voiceGuidance
                         THEN makeCheck(answers["brand_voice_drift"]) ELSE "cannot_assess"]

buildBrandResult(ctx, answers) ==
  LET logo        == evaluateLogoChecks(ctx)
      qualitative == evaluateQualitativeChecks(ctx, answers)
  IN  [c \in DOMAIN logo \cup DOMAIN qualitative |->
         IF c \in DOMAIN logo THEN logo[c] ELSE qualitative[c]]

BrandSubChecks(ctx, answers) == [brand_fit |-> buildBrandResult(ctx, answers)]
=============================================================================
