--------------------------- MODULE VisualEvaluator ---------------------------
(***************************************************************************)
(* The metric of the visual-quality evaluator: three checks measured by    *)
(* the media pipeline and three audited by a model, whose findings have a  *)
(* score from 0 to 4.                                                      *)
(***************************************************************************)
EXTENDS SubChecks

VisualModelChecks == {"ai_artifacts", "poor_framing_lighting", "jarring_transitions"}

\* What an OCR segment measured: its font size if there is one, else its region.
TextSizes == {"unmeasured", "small", "fine"}
VisualContexts == [corruption : {"unknown", "detected", "clean"}, droppedFrames : Nat,
                   illegibleFlag : BOOLEAN, ocr : SUBSET TextSizes]

ScoreSeverity == [s \in 0 .. 4 |-> CASE s = 0 -> "passed"
                                     [] s = 1 -> "low"
                                     [] s = 2 -> "medium"
                                     [] s = 3 -> "high"
                                     [] s = 4 -> "critical"]

evaluateVideoCorruption(ctx) ==
  CASE ctx.corruption = "unknown"  -> "cannot_assess"
    [] ctx.corruption = "detected" -> "critical"
    [] ctx.corruption = "clean"    -> "passed"

evaluateDroppedFrames(ctx) ==
  CASE ctx.droppedFrames = 0 -> "passed"
    [] ctx.droppedFrames \in 1 .. 4 -> "low"
    [] ctx.droppedFrames \in 5 .. 9 -> "medium"
    [] OTHER -> "high"

\* A frame that was flagged counts whatever OCR measured.
evaluateTextLegibility(ctx) ==
  IF ctx.illegibleFlag THEN "medium"
  ELSE IF ctx.ocr = {} THEN "cannot_assess"
  ELSE IF "small" \in ctx.ocr THEN "medium"
  ELSE IF "unmeasured" \in ctx.ocr THEN "cannot_assess" ELSE "passed"

evaluateProductionChecks(ctx, findings) ==
  [video_corruption      |-> evaluateVideoCorruption(ctx),
   dropped_frames        |-> evaluateDroppedFrames(ctx),
   ai_artifacts          |-> ScoreSeverity[findings["ai_artifacts"]],
   poor_framing_lighting |-> ScoreSeverity[findings["poor_framing_lighting"]],
   jarring_transitions   |-> ScoreSeverity[findings["jarring_transitions"]],
   illegible_text        |-> evaluateTextLegibility(ctx)]

VisualSubChecks(ctx, findings) ==
  [production_readiness |-> evaluateProductionChecks(ctx, findings)]
=============================================================================
