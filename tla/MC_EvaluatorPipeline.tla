------------------------ MODULE MC_EvaluatorPipeline ------------------------
(***************************************************************************)
(* Inputs and replies on both sides of every threshold and guard of the    *)
(* evaluators.  A model mostly finds one thing at a time.                  *)
(***************************************************************************)
EXTENDS EvaluatorPipeline

MC_CtaTexts == {"buy", "see"}
MC_Claims   == {"c1", "c2"}

-----------------------------------------------------------------------------
(* Contexts.                                                               *)

Segment(t, z) == [text |-> t, start |-> 14, end |-> 17, size |-> z]

MC_CtaContexts ==
  [goal : {"awareness", "conversion", "unknown"}, duration : {0, 20},
   required : {{}, {"buy"}}, platformKnown : {TRUE}, discouraged : {{}, {"buy"}},
   ocr : {{Segment("buy", "marginal"), Segment("other", "below")},
          {Segment("other", "below")}}]
  \cup
  [goal : {"repurchase"}, duration : {20}, required : {{}}, platformKnown : {FALSE},
   discouraged : {{}}, ocr : {{}, {Segment("buy", "unmeasured")}, {Segment("see", "fine")}}]

MC_StorylineContexts ==
  [platformKnown : BOOLEAN, platform : {[optimal |-> 30, max |-> 60]},
   corrupt : {FALSE}, shapeFits : BOOLEAN, duration : {20, 40, 50, 70},
   frames : {4, 8, 20}]
  \cup
  [platformKnown : {TRUE}, platform : {[optimal |-> 30, max |-> 60]},
   corrupt : {TRUE}, shapeFits : BOOLEAN, duration : {20}, frames : {4}]

MC_BrandContexts ==
  [logoRequired : BOOLEAN, paletteGuidance : BOOLEAN, voiceGuidance : BOOLEAN,
   logoFrames : {{}} \cup {{f, [reliable |-> TRUE, reference |-> "none"]} : f \in LogoFrames}
                     \cup {{[reliable |-> FALSE, reference |-> "differs"]}}]

MC_VisualContexts ==
  [corruption : {"unknown", "detected", "clean"}, droppedFrames : {0, 4, 5, 10},
   illegibleFlag : BOOLEAN, ocr : SUBSET TextSizes]

MC_Contexts(e) ==
  CASE e = "cta_effectiveness" -> MC_CtaContexts
    [] e = "storyline_clarity" -> MC_StorylineContexts
    [] e = "brand_alignment"   -> MC_BrandContexts
    [] e = "visual_quality"    -> MC_VisualContexts
    [] OTHER                   -> ContextsOf(e)

-----------------------------------------------------------------------------
(* Replies.                                                                *)

\* Calls to action early, late, late and too brief, and spoken.
MC_Occurrences ==
  {[text |-> "buy", onScreen |-> TRUE,  start |-> 5,  end |-> 8],
   [text |-> "buy", onScreen |-> TRUE,  start |-> 14, end |-> 16],
   [text |-> "see", onScreen |-> TRUE,  start |-> 14, end |-> 15],
   [text |-> "see", onScreen |-> FALSE, start |-> 6,  end |-> 9]}

MC_Acquisitions ==
  [usable : {TRUE}, present : {FALSE}, ctas : {{}}]
    \cup [usable : {TRUE}, present : {TRUE},
          ctas : {os \in SUBSET MC_Occurrences : Cardinality(os) \in 1 .. 2}]

\* All checks passed, or all failed a little, but for one.
AllButOne(cs, fills) ==
  {[c \in cs |-> IF c = d THEN v ELSE w] : d \in cs, v \in Answers, w \in fills}

MC_Arcs ==
  [usable : {TRUE}, confident : BOOLEAN, payoffResolved : BOOLEAN,
   roles : {{"hook", "payoff"}, {"hook", "problem", "payoff"}, {"problem", "cta"}}]
    \cup {NoArc}

MC_Scores ==
  {[c \in VisualModelChecks |-> IF c = d THEN s ELSE t] :
     d \in VisualModelChecks, s \in 0 .. 4, t \in {0, 2}}

\* What is not there has no size, and what is not depicted no severity.
MC_Policies ==
  {p \in [required : BOOLEAN, present : BOOLEAN, detected : BOOLEAN, severity : {0, 2, 4},
          onScreen : {[found |-> FALSE, font |-> "unknown", brief |-> FALSE],
                      [found |-> TRUE,  font |-> "small",   brief |-> FALSE],
                      [found |-> TRUE,  font |-> "fine",    brief |-> TRUE]}] :
     (p.onScreen.found => p.present) /\ (~p.detected => p.severity = 0)}

MC_FindingAnswers ==
  {f \in FindingAnswers :
     \/ f.finding = [classification |-> "none", severity |-> 0]
     \/ f.finding.classification = "unsupported" /\ f.finding.severity \in {0, 1, 4}
     \/ f.finding.classification = "forbidden_claim" /\ f.finding.severity \in {1, 4}}

MC_Replies(e, c, cs) ==
  CASE c = "acquisition"    -> MC_Acquisitions
    [] c = "substantiation" -> [cs -> MC_FindingAnswers]
    [] c = "policy"         -> MC_Policies
    [] c = "judgment" /\ e = "storyline_clarity" ->
         [arc : MC_Arcs, answers : AllButOne(StorylineModelChecks, {"passed"})]
    [] c = "judgment" /\ e = "visual_quality" -> MC_Scores
    [] c = "judgment" /\ e = "brand_alignment" -> RepliesOf(e, c, cs)
    [] c \in {"judgment", "evaluation"} ->
         AllButOne(ModelChecks(e), IF c = "evaluation" THEN {"passed"} ELSE {"passed", "low"})
    [] OTHER -> RepliesOf(e, c, cs)
=============================================================================
