----------------------- MODULE EvaluatorPipelineProofs -----------------------
(***************************************************************************)
(* For every review and every reply a model may give: an evaluator that    *)
(* degrades returns results that the validation accepts, of its own        *)
(* metrics; it does not approve what nobody looked at; claims are          *)
(* examined; thin evidence decides nothing; and a worse answer never gives *)
(* a better metric, through caps, clamps, reconciliation and rollup.       *)
(***************************************************************************)
EXTENDS EvaluatorPipeline, TLAPS

-----------------------------------------------------------------------------
(* From answers to verdicts.                                               *)

\* The clamp and the three treatments of an answer yield verdicts.
LEMMA ClampedIsVerdict ==
  ASSUME NEW v \in Verdicts, NEW max \in Verdicts
  PROVE  clampSeverity(v, max) \in Verdicts
BY DEF clampSeverity

\* What the call-to-action and the storyline evaluator make of an answer.
LEMMA LlmIsVerdict ==
  ASSUME NEW a \in Answers, NEW max \in Verdicts
  PROVE  fromLlmSubCheck(a, max) \in Verdicts
<1>1. CASE a = "missing" BY <1>1 DEF fromLlmSubCheck, Verdicts
<1>2. CASE a = "unrated" BY <1>2 DEF fromLlmSubCheck, Verdicts, Failures
<1>3. CASE a \in Verdicts /\ a # "missing" /\ a # "unrated"
  BY <1>3, ClampedIsVerdict DEF fromLlmSubCheck
<1> QED BY <1>1, <1>2, <1>3 DEF Answers

\* What the brief and the product evaluator make of one.
LEMMA GuardedIsVerdict ==
  ASSUME NEW a \in Answers, NEW missing
  PROVE  Guarded(missing, a) \in Verdicts
BY DEF Guarded, normalizeModelSubCheck, Answers, Verdicts

\* What the brand evaluator makes of one.
LEMMA MadeIsVerdict ==
  ASSUME NEW a \in Answers \ {"missing"}
  PROVE  makeCheck(a) \in Verdicts
BY DEF makeCheck, Answers, Verdicts, Failures

-----------------------------------------------------------------------------
(* The sub-checks of the evaluators that degrade.                          *)

AllWellFormed(results, e) ==
  /\ DOMAIN results = MetricsOf[e]
  /\ \A m \in DOMAIN results : WellFormed(results[m])

\* Brief alignment.
LEMMA BriefWellFormed ==
  ASSUME NEW ctx \in BriefContexts, NEW answers \in [BriefModelChecks -> Answers]
  PROVE  AllWellFormed(BriefSubChecks(ctx, answers), "brief_alignment")
<1>1. DOMAIN BriefSubChecks(ctx, answers) = MetricsOf["brief_alignment"]
  BY DEF BriefSubChecks, BriefChecks, MetricsOf
<1>2. ASSUME NEW m \in DOMAIN BriefChecks, NEW c \in BriefChecks[m]
      PROVE  Guarded(briefInputMissing(ctx, c), answers[c]) \in Verdicts
  <2>1. c \in BriefModelChecks BY DEF BriefModelChecks
  <2> QED BY <2>1, GuardedIsVerdict
<1>3. ASSUME NEW m \in DOMAIN BriefSubChecks(ctx, answers)
      PROVE  WellFormed(BriefSubChecks(ctx, answers)[m])
  <2>1. m \in DOMAIN BriefChecks BY DEF BriefSubChecks
  <2> QED BY <1>2, <2>1 DEF BriefSubChecks, WellFormed
<1> QED BY <1>1, <1>3 DEF AllWellFormed

\* Product representation.
LEMMA ProductWellFormed ==
  ASSUME NEW ctx \in ProductContexts, NEW answers \in [ProductModelChecks -> Answers]
  PROVE  AllWellFormed(ProductSubChecks(ctx, answers), "product_representation")
<1>1. \A c \in ProductModelChecks :
        Guarded(productInputMissing(ctx, c), answers[c]) \in Verdicts
  BY GuardedIsVerdict
<1>2. WellFormed([c \in ProductModelChecks |->
                    Guarded(productInputMissing(ctx, c), answers[c])])
  BY <1>1 DEF WellFormed
<1> QED BY <1>2 DEF AllWellFormed, ProductSubChecks, MetricsOf

\* Brand alignment.
LEMMA BrandWellFormed ==
  ASSUME NEW ctx \in BrandContexts,
         NEW answers \in [BrandModelChecks -> Answers \ {"missing"}]
  PROVE  AllWellFormed(BrandSubChecks(ctx, answers), "brand_alignment")
<1>1. WellFormed(evaluateLogoChecks(ctx))
  BY DEF WellFormed, evaluateLogoChecks, Verdicts, Failures
<1>2. WellFormed(evaluateQualitativeChecks(ctx, answers))
  <2>1. \A c \in BrandModelChecks : makeCheck(answers[c]) \in Verdicts
    BY MadeIsVerdict
  <2> QED BY <2>1 DEF WellFormed, evaluateQualitativeChecks, BrandModelChecks, Verdicts
<1>3. WellFormed(buildBrandResult(ctx, answers))
  BY <1>1, <1>2 DEF WellFormed, buildBrandResult
<1> QED BY <1>3 DEF AllWellFormed, BrandSubChecks, MetricsOf

\* Calls to action: the nine checks one by one.
LEMMA CtaWellFormed ==
  ASSUME NEW ctx \in CtaContexts, NEW acquisition \in Acquisitions,
         NEW answers \in [CtaModelChecks -> Answers]
  PROVE  AllWellFormed(CtaSubChecks(ctx, acquisition, answers), "cta_effectiveness")
<1> DEFINE ctas == acquisition.ctas
           V(c, max) == fromLlmSubCheck(answers[c], max)
<1>1. \A c \in CtaModelChecks, max \in Failures : V(c, max) \in Verdicts
  BY LlmIsVerdict DEF Verdicts
<1>2. ASSUME NEW v \in Verdicts, NEW matched
      PROVE  capToBriefLow(v, matched) \in Verdicts
  BY ClampedIsVerdict DEF capToBriefLow, Verdicts, Failures
<1>3. buildCtaAbsent(ctx.goal, acquisition, answers["cta_absent"]) \in Verdicts
  <2>1. ctx.goal \in CtaGoals BY DEF CtaContexts
  <2>2. CTA_ABSENT_SEVERITY[ctx.goal] \in Verdicts
    BY <2>1 DEF CTA_ABSENT_SEVERITY, Verdicts, Failures
  <2> QED BY <2>2 DEF buildCtaAbsent, Verdicts
<1>4. ctaBuried(ctas) \in Verdicts BY DEF ctaBuried, Verdicts, Failures
<1>5. ctaMistimed(ctas, ctx.duration) \in Verdicts
  <2>1. ctx.duration \in Nat BY DEF CtaContexts
  <2> QED BY <2>1 DEF ctaMistimed, Verdicts, Failures
<1>6. ctaLowVisibility(ctas, ctx.ocr) \in Verdicts
  BY Zenon DEF ctaLowVisibility, Verdicts, Failures
<1>7. ctaPlatformMismatch(ctx, ctas) \in Verdicts
  BY DEF ctaPlatformMismatch, Verdicts, Failures
<1>8. WellFormed(buildCtaClarity(ctx, acquisition, answers))
  <2>1. /\ V("cta_language_weak", "medium") \in Verdicts
        /\ V("cta_goal_mismatch", "high") \in Verdicts
        /\ V("cta_no_urgency", "low") \in Verdicts
        /\ V("cta_destination_unclear", "medium") \in Verdicts
    BY <1>1 DEF CtaModelChecks, Failures
  <2>2. "cannot_assess" \in Verdicts /\ "passed" \in Verdicts BY DEF Verdicts
  <2> HIDE DEF V
  <2> QED BY <1>2, <1>3, <1>4, <1>5, <1>6, <1>7, <2>1, <2>2 DEF WellFormed, buildCtaClarity, V
<1> QED BY <1>8 DEF AllWellFormed, CtaSubChecks, MetricsOf

\* Storyline: two metrics.
LEMMA StorylineWellFormed ==
  ASSUME NEW ctx \in StorylineContexts, NEW arc \in Arcs,
         NEW answers \in [StorylineModelChecks -> Answers]
  PROVE  AllWellFormed(StorylineSubChecks(ctx, arc, answers), "storyline_clarity")
<1>1. \A c \in StorylineModelChecks : StorylineVerdict(c, answers) \in Verdicts
  <2>1. \A c \in StorylineModelChecks : StorylineMax[c] \in Verdicts
    BY DEF StorylineModelChecks, StorylineMax, Verdicts, Failures
  <2> QED BY <2>1, LlmIsVerdict DEF StorylineVerdict
<1>2. formatNoncompliant(ctx) \in Verdicts
  BY DEF formatNoncompliant, StorylineContexts, Platforms, Verdicts, Failures
<1>3. StorylineModelChecks = {"hook_missing", "narrative_gap", "value_prop_unclear",
        "story_incomplete", "pacing_misallocation", "placement_mismatch"}
  BY DEF StorylineModelChecks, StorylineMax
<1>4. WellFormed(buildChannelReadiness(ctx, arc, answers))
  <2>1. StorylineVerdict("placement_mismatch", answers) \in Verdicts BY <1>1, <1>3
  <2>2. clampSeverity(StorylineVerdict("placement_mismatch", answers), "low") \in Verdicts
    BY <2>1, ClampedIsVerdict DEF Verdicts, Failures
  <2> QED BY <1>2, <2>1, <2>2 DEF WellFormed, buildChannelReadiness
<1>5. WellFormed(buildCreativeEffectiveness(ctx, arc, answers))
  <2>1. ASSUME NEW v \in Verdicts PROVE reconcileStoryIncomplete(ctx, arc, v) \in Verdicts
    BY DEF reconcileStoryIncomplete, Verdicts
  <2> QED BY <1>1, <1>3, <2>1 DEF WellFormed, buildCreativeEffectiveness
<1> QED BY <1>4, <1>5 DEF AllWellFormed, StorylineSubChecks, MetricsOf

-----------------------------------------------------------------------------
(* The invariant.                                                          *)

Degrading == Evaluators \ Retrying

DegradingCalls(e) == IF e = "cta_effectiveness" THEN {"acquisition", "evaluation"}
                     ELSE {"judgment"}

\* Types, and for an evaluator that degrades: only its own calls are over, each
\* with a reply that its parser lets pass or the stand-in, and it has not thrown.
IInv ==
  /\ TypeOK
  /\ evaluator \in Degrading =>
       /\ \A c \in DOMAIN reply : /\ c \in DegradingCalls(evaluator)
                                   /\ reply[c] \in RepliesOf(evaluator, c, {})
       /\ at # "thrown"

\* Each evaluator is one of the seven, so that a step can be split by evaluator.
LEMMA EvaluatorNames ==
  /\ Evaluators = {"brief_alignment", "product_representation", "brand_alignment",
                   "cta_effectiveness", "storyline_clarity", "visual_quality",
                   "claims_accuracy"}
  /\ Degrading = {"brief_alignment", "product_representation", "brand_alignment",
                  "cta_effectiveness", "storyline_clarity"}
BY DEF Evaluators, MetricsOf, Degrading, Retrying

\* What stands for a reply that is not there is as good as one that is.
LEMMA UnusableIsReply ==
  ASSUME evaluator \in Degrading, NEW c \in DegradingCalls(evaluator)
  PROVE  Unusable(c) \in RepliesOf(evaluator, c, {})
<1>1. CASE evaluator = "cta_effectiveness"
  <2>1. NoAcquisition \in Acquisitions BY DEF NoAcquisition, Acquisitions
  <2>2. Silence(evaluator) \in [CtaModelChecks -> Answers]
    BY <1>1 DEF Silence, ModelChecks, Answers
  <2> QED BY <1>1, <2>1, <2>2 DEF DegradingCalls, Unusable, RepliesOf, ModelChecks
<1>2. CASE evaluator = "storyline_clarity"
  <2>1. NoArc \in Arcs BY DEF NoArc, Arcs
  <2>2. Silence(evaluator) \in [StorylineModelChecks -> Answers]
    BY <1>2 DEF Silence, ModelChecks, Answers
  <2> QED BY <1>2, <2>1, <2>2 DEF DegradingCalls, Unusable, RepliesOf
<1>3. CASE evaluator = "brand_alignment"
  <2>1. NoBrandAnswers \in [BrandModelChecks -> Answers \ {"missing"}]
    BY DEF NoBrandAnswers, Answers, Verdicts
  <2> QED BY <1>3, <2>1 DEF DegradingCalls, Unusable, RepliesOf
<1>4. CASE evaluator \in {"brief_alignment", "product_representation"}
  <2>1. Silence(evaluator) \in [ModelChecks(evaluator) -> Answers]
    BY DEF Silence, Answers
  <2> QED BY <1>4, <2>1 DEF DegradingCalls, Unusable, RepliesOf
<1> QED BY <1>1, <1>2, <1>3, <1>4, EvaluatorNames

\* The calls that an evaluator that degrades awaits are its own.
LEMMA AwaitedIsOwn ==
  ASSUME evaluator \in Degrading, NEW c \in Awaited
  PROVE  c \in DegradingCalls(evaluator)
BY EvaluatorNames DEF Awaited, DegradingCalls

\* A reply that Replies offers is one the parser lets pass, whatever the claims.
LEMMA OfferedIsReply ==
  ASSUME evaluator \in Degrading, NEW c \in DegradingCalls(evaluator),
         NEW r \in Replies(evaluator, c, Subject(c))
  PROVE  r \in RepliesOf(evaluator, c, {})
<1>1. Subject(c) \in SUBSET Claims /\ Subject(c) = {}
  BY DEF Subject, DegradingCalls
<1>2. c \in Calls /\ evaluator \in Evaluators BY DEF DegradingCalls, Calls, Degrading
<1> QED BY <1>1, <1>2, PipelineAssumption

\* What an evaluator that degrades has assembled passes the validation.
LEMMA AssembledWellFormed ==
  ASSUME IInv, evaluator \in Degrading, Awaited = {}
  PROVE  AllWellFormed(Assembled(reply), evaluator)
<1> USE DEF IInv, TypeOK
<1>1. CASE evaluator = "brief_alignment"
  <2>1. "judgment" \in DOMAIN reply BY <1>1 DEF Awaited
  <2>2. reply["judgment"] \in [BriefModelChecks -> Answers]
    BY <1>1, <2>1 DEF RepliesOf, ModelChecks
  <2>3. context \in BriefContexts BY <1>1 DEF ContextsOf
  <2> QED BY <1>1, <2>2, <2>3, BriefWellFormed DEF Assembled
<1>2. CASE evaluator = "product_representation"
  <2>1. "judgment" \in DOMAIN reply BY <1>2 DEF Awaited
  <2>2. reply["judgment"] \in [ProductModelChecks -> Answers]
    BY <1>2, <2>1 DEF RepliesOf, ModelChecks
  <2>3. context \in ProductContexts BY <1>2 DEF ContextsOf
  <2> QED BY <1>2, <2>2, <2>3, ProductWellFormed DEF Assembled
<1>3. CASE evaluator = "brand_alignment"
  <2> DEFINE answers == IF BrandAsksModel(context) THEN reply["judgment"] ELSE NoBrandAnswers
  <2>1. answers \in [BrandModelChecks -> Answers \ {"missing"}]
    <3>1. CASE BrandAsksModel(context)
      <4>1. "judgment" \in DOMAIN reply BY <1>3, <3>1 DEF Awaited
      <4> QED BY <1>3, <3>1, <4>1 DEF RepliesOf
    <3>2. CASE ~BrandAsksModel(context)
      BY <3>2 DEF NoBrandAnswers, Answers, Verdicts
    <3> QED BY <3>1, <3>2
  <2>2. context \in BrandContexts BY <1>3 DEF ContextsOf
  <2> QED BY <1>3, <2>1, <2>2, BrandWellFormed DEF Assembled
<1>4. CASE evaluator = "cta_effectiveness"
  <2>1. {"acquisition", "evaluation"} \subseteq DOMAIN reply BY <1>4 DEF Awaited, Over
  <2>2. /\ reply["acquisition"] \in Acquisitions
        /\ reply["evaluation"] \in [CtaModelChecks -> Answers]
    BY <1>4, <2>1 DEF RepliesOf, ModelChecks
  <2>3. context \in CtaContexts BY <1>4 DEF ContextsOf
  <2> QED BY <1>4, <2>2, <2>3, CtaWellFormed DEF Assembled
<1>5. CASE evaluator = "storyline_clarity"
  <2>1. "judgment" \in DOMAIN reply BY <1>5 DEF Awaited
  <2>2. /\ reply["judgment"].arc \in Arcs
        /\ reply["judgment"].answers \in [StorylineModelChecks -> Answers]
    BY <1>5, <2>1 DEF RepliesOf
  <2>3. context \in StorylineContexts BY <1>5 DEF ContextsOf
  <2> QED BY <1>5, <2>2, <2>3, StorylineWellFormed DEF Assembled
<1> QED BY <1>1, <1>2, <1>3, <1>4, <1>5, EvaluatorNames

-----------------------------------------------------------------------------
(* Every step keeps the invariant.                                         *)

\* A handler starts with no reply and no result.
LEMMA InitIInv == Init => IInv
<1> SUFFICES ASSUME Init PROVE IInv OBVIOUS
<1>1. context \in ContextsOf(evaluator) BY PipelineAssumption DEF Init
<1>2. DOMAIN reply = {} BY DEF Init, Nothing
<1> QED BY <1>1, <1>2 DEF Init, IInv, TypeOK, Calls, MaxAttempts

\* Replies, or what stands for them, are learned.
LEMMA LearnIInv ==
  ASSUME IInv, at = "running", UNCHANGED <<evaluator, context, at, checks>>,
         tries' \in [Calls -> 0 .. MaxAttempts - 1],
         DOMAIN reply' \subseteq Calls,
         evaluator \in Degrading =>
           \A d \in DOMAIN reply' :
             \/ d \in DOMAIN reply /\ reply'[d] = reply[d]
             \/ d \in DegradingCalls(evaluator) /\ reply'[d] \in RepliesOf(evaluator, d, {})
  PROVE  IInv'
<1>1. TypeOK' BY DEF IInv, TypeOK
<1>2. ASSUME evaluator \in Degrading, NEW d \in DOMAIN reply'
      PROVE  d \in DegradingCalls(evaluator) /\ reply'[d] \in RepliesOf(evaluator, d, {})
  BY <1>2 DEF IInv
<1>3. (evaluator \in Degrading => at # "thrown")' OBVIOUS
<1> QED BY <1>1, <1>2, <1>3 DEF IInv

\* The reply of a call that can be parsed.
LEMMA ReplyIInv ==
  ASSUME IInv, NEW c \in Calls, Reply(c)
  PROVE  IInv'
<1> PICK r \in Replies(evaluator, c, Subject(c)) : Learn(c, r) BY DEF Reply
<1>1. DOMAIN reply' = DOMAIN reply \cup {c} BY DEF Learn
<1>2. reply' = [d \in DOMAIN reply \cup {c} |-> IF d = c THEN r ELSE reply[d]] BY DEF Learn
<1>3. DOMAIN reply' \subseteq Calls BY <1>1 DEF IInv, TypeOK
<1>4. tries' \in [Calls -> 0 .. MaxAttempts - 1] BY DEF Reply, IInv, TypeOK, MaxAttempts
<1>5. ASSUME evaluator \in Degrading
      PROVE  c \in DegradingCalls(evaluator) /\ r \in RepliesOf(evaluator, c, {})
  <2>1. c \in DegradingCalls(evaluator) BY <1>5, AwaitedIsOwn DEF Reply
  <2> QED BY <1>5, <2>1, OfferedIsReply
<1> QED BY <1>1, <1>2, <1>3, <1>4, <1>5, LearnIInv DEF Reply

\* A reply that cannot be parsed, of an evaluator that degrades.
LEMMA GarbledIgnoredIInv ==
  ASSUME IInv, NEW c \in Calls, GarbledIgnored(c)
  PROVE  IInv'
<1>1. reply' = [d \in DOMAIN reply \cup {c} |-> IF d = c THEN Unusable(c) ELSE reply[d]]
  BY DEF GarbledIgnored, Learn
<1>2. DOMAIN reply' \subseteq Calls BY <1>1 DEF IInv, TypeOK
<1>3. tries' \in [Calls -> 0 .. MaxAttempts - 1] BY DEF GarbledIgnored, IInv, TypeOK
<1>4. ASSUME evaluator \in Degrading
      PROVE  c \in DegradingCalls(evaluator) /\ Unusable(c) \in RepliesOf(evaluator, c, {})
  <2>1. c \in DegradingCalls(evaluator) BY <1>4, AwaitedIsOwn DEF GarbledIgnored
  <2> QED BY <1>4, <2>1, UnusableIsReply
<1> QED BY <1>1, <1>2, <1>3, <1>4, LearnIInv DEF GarbledIgnored

\* A call that fails, of an evaluator that degrades.
LEMMA ProviderFailsQuietlyIInv ==
  ASSUME IInv, NEW c \in Calls, ProviderFailsQuietly(c)
  PROVE  IInv'
<1> DEFINE more == {c} \cup (IF c = "acquisition" THEN {"evaluation"} ELSE {})
<1>1. reply' = [d \in DOMAIN reply \cup more |->
                  IF d \in DOMAIN reply THEN reply[d] ELSE Unusable(d)]
  <2>1. DOMAIN reply \cup {c} \cup (IF c = "acquisition" THEN {"evaluation"} ELSE {})
          = DOMAIN reply \cup more
    OBVIOUS
  <2> QED BY <2>1 DEF ProviderFailsQuietly
<1>2. DOMAIN reply' \subseteq Calls BY <1>1 DEF IInv, TypeOK, Calls
<1>3. tries' \in [Calls -> 0 .. MaxAttempts - 1] BY DEF ProviderFailsQuietly, IInv, TypeOK
<1>4. ASSUME evaluator \in Degrading, NEW d \in more
      PROVE  d \in DegradingCalls(evaluator) /\ Unusable(d) \in RepliesOf(evaluator, d, {})
  <2>1. c \in DegradingCalls(evaluator) BY <1>4, AwaitedIsOwn DEF ProviderFailsQuietly
  <2>2. d \in DegradingCalls(evaluator) BY <2>1 DEF DegradingCalls
  <2> QED BY <1>4, <2>2, UnusableIsReply
<1> HIDE DEF more
<1> QED BY <1>1, <1>2, <1>3, <1>4, LearnIInv DEF ProviderFailsQuietly

\* What the metrics of a result are.
LEMMA AssembledMetrics ==
  ASSUME evaluator \in Evaluators
  PROVE  DOMAIN Assembled(reply) = MetricsOf[evaluator]
<1>1. CASE evaluator = "brief_alignment"
  BY <1>1 DEF Assembled, MetricsOf, BriefSubChecks, BriefChecks
<1>2. CASE evaluator = "product_representation"
  BY <1>2 DEF Assembled, MetricsOf, ProductSubChecks
<1>3. CASE evaluator = "brand_alignment"
  BY <1>3 DEF Assembled, MetricsOf, BrandSubChecks
<1>4. CASE evaluator = "cta_effectiveness"
  BY <1>4 DEF Assembled, MetricsOf, CtaSubChecks
<1>5. CASE evaluator = "storyline_clarity"
  BY <1>5 DEF Assembled, MetricsOf, StorylineSubChecks
<1>6. CASE evaluator = "visual_quality"
  BY <1>6 DEF Assembled, MetricsOf, VisualSubChecks
<1>7. CASE evaluator = "claims_accuracy"
  BY <1>7 DEF Assembled, MetricsOf, ClaimsSubChecks
<1> QED BY <1>1, <1>2, <1>3, <1>4, <1>5, <1>6, <1>7, EvaluatorNames

\* The results are validated.
LEMMA FinishIInv ==
  ASSUME IInv, Finish
  PROVE  IInv'
<1> DEFINE results == Assembled(reply)
           accepted == \A m \in DOMAIN results : WellFormed(results[m])
<1> USE DEF IInv, TypeOK
<1>1. /\ UNCHANGED <<evaluator, context, reply, tries>>
      /\ accepted => at' = "returned" /\ checks' = results
      /\ ~accepted => at' = "thrown" /\ checks' = checks
      /\ at = "running" /\ Awaited = {}
  BY DEF Finish
<1>2. DOMAIN results = MetricsOf[evaluator] BY AssembledMetrics
<1>3. evaluator \in Degrading => accepted BY <1>1, AssembledWellFormed DEF AllWellFormed
<1> HIDE DEF results
<1>4. TypeOK'
  <2>1. CASE accepted BY <1>1, <1>2, <2>1
  <2>2. CASE ~accepted BY <1>1, <2>2
  <2> QED BY <2>1, <2>2
<1>5. evaluator \in Degrading => at' # "thrown" BY <1>1, <1>3
<1> QED BY <1>1, <1>4, <1>5

\* Whatever is answered or fails, the invariant stays.
LEMMA StepIInv == IInv /\ [Next]_vars => IInv'
<1> SUFFICES ASSUME IInv, [Next]_vars PROVE IInv' OBVIOUS
<1>1. ASSUME NEW c \in Calls, Reply(c) PROVE IInv' BY <1>1, ReplyIInv
<1>2. ASSUME NEW c \in Calls, GarbledIgnored(c) PROVE IInv' BY <1>2, GarbledIgnoredIInv
<1>3. ASSUME NEW c \in Calls, GarbledRetried(c) PROVE IInv'
  <2>1. TypeOK' BY <1>3 DEF GarbledRetried, IInv, TypeOK, MaxAttempts
  <2> QED BY <1>3, <2>1 DEF GarbledRetried, IInv, Degrading
<1>4. ASSUME NEW c \in Calls, ProviderFailsQuietly(c) PROVE IInv'
  BY <1>4, ProviderFailsQuietlyIInv
<1>5. ASSUME NEW c \in Calls, ProviderFails(c) PROVE IInv'
  <2>1. TypeOK' BY <1>5 DEF ProviderFails, IInv, TypeOK
  <2> QED BY <1>5, <2>1 DEF ProviderFails, IInv, Degrading
<1>6. CASE Finish BY <1>6, FinishIInv
<1>7. CASE UNCHANGED vars BY <1>7 DEF vars, IInv, TypeOK
<1> QED BY <1>1, <1>2, <1>3, <1>4, <1>5, <1>6, <1>7 DEF Next

\* It holds in every state of a run.
LEMMA PipelineInvariant == Spec => []IInv
BY InitIInv, StepIInv, PTL DEF Spec

-----------------------------------------------------------------------------
(* The theorems.                                                           *)

\* What an evaluator returns are verdicts on its own metrics, whatever the models
\* reply, fail to reply, or reply only after a retry.
THEOREM Typed == Spec => []TypeOK
<1>1. IInv => TypeOK BY DEF IInv
<1> QED BY <1>1, PipelineInvariant, PTL

\* No evaluator that degrades is thrown out by the validation of its own results.
THEOREM DegradedEvaluatorsReturn == Spec => []DegradingReturns
<1>1. IInv => DegradingReturns BY DEF IInv, TypeOK, DegradingReturns, Degrading
<1> QED BY <1>1, PipelineInvariant, PTL

-----------------------------------------------------------------------------
(* The rollup of a metric.  "unrated" is judged and no failure, as far as  *)
(* the rollup goes.                                                        *)

Rated == Verdicts \cup {"unrated"}

\* The ranks: an abstention is below whatever is judged, a failure above the rest.
LEMMA Ranks ==
  /\ \A v \in Rated : severityRank[v] \in -1 .. 4
  /\ \A v \in Rated : severityRank[v] >= 0 <=> Judged(v)
  /\ \A v \in Rated : severityRank[v] >= 1 <=> v \in Failures
BY DEF severityRank, Rated, Verdicts, Failures, Judged

\* Worst picks one that no other is worse than.
LEMMA WorstIsWorst ==
  ASSUME NEW vs \in SUBSET Failures, vs # {}
  PROVE  Worst(vs) \in vs /\ \A w \in vs : severityRank[w] <= severityRank[Worst(vs)]
<1>1. \E v \in vs : \A w \in vs : severityRank[w] <= severityRank[v]
  <2>1. CASE "critical" \in vs BY <2>1 DEF severityRank, Verdicts, Failures
  <2>2. CASE "critical" \notin vs /\ "high" \in vs
    BY <2>2 DEF severityRank, Verdicts, Failures
  <2>3. CASE "critical" \notin vs /\ "high" \notin vs /\ "medium" \in vs
    BY <2>3 DEF severityRank, Verdicts, Failures
  <2>4. CASE vs \subseteq {"low"} BY <2>4 DEF severityRank, Verdicts, Failures
  <2> QED BY <2>1, <2>2, <2>3, <2>4 DEF Failures
<1> QED BY <1>1 DEF Worst

Failed(cs) == {cs[c] : c \in DOMAIN cs} \cap Failures

\* The rollup, without the CHOOSE: an abstention if nothing is judged, a pass if no
\* check failed, and otherwise a failure that no failed check is worse than.
LEMMA Rollup ==
  ASSUME NEW cs
  PROVE  /\ ~Judged(rollupChecks(cs)) <=> \A c \in DOMAIN cs : ~Judged(cs[c])
         /\ (\E c \in DOMAIN cs : Judged(cs[c])) =>
              \/ rollupChecks(cs) = "passed" /\ \A c \in DOMAIN cs : cs[c] \notin Failures
              \/ /\ rollupChecks(cs) \in Failures
                 /\ \E c \in DOMAIN cs : cs[c] = rollupChecks(cs)
                 /\ \A c \in DOMAIN cs : cs[c] \in Failures =>
                      severityRank[cs[c]] <= severityRank[rollupChecks(cs)]
<1>1. CASE Failed(cs) = {}
  <2>1. highestFailedSeverity(cs) = "passed" BY <1>1 DEF highestFailedSeverity, Failed
  <2>2. \A c \in DOMAIN cs : cs[c] \notin Failures BY <1>1 DEF Failed
  <2> QED BY <2>1, <2>2 DEF rollupChecks, Judged
<1>2. CASE Failed(cs) # {}
  <2>1. highestFailedSeverity(cs) = Worst(Failed(cs))
    BY <1>2 DEF highestFailedSeverity, Failed
  <2>2. /\ Worst(Failed(cs)) \in Failed(cs)
        /\ \A w \in Failed(cs) : severityRank[w] <= severityRank[Worst(Failed(cs))]
    BY <1>2, WorstIsWorst DEF Failed
  <2>3. /\ Worst(Failed(cs)) \in Failures
        /\ \E c \in DOMAIN cs : cs[c] = Worst(Failed(cs))
        /\ \A c \in DOMAIN cs : cs[c] \in Failures => cs[c] \in Failed(cs)
    BY <2>2 DEF Failed
  <2>4. Judged(Worst(Failed(cs))) BY <2>3 DEF Failures, Judged
  <2> QED BY <2>1, <2>2, <2>3, <2>4 DEF rollupChecks, Judged
<1> QED BY <1>1, <1>2

\* The rollup is monotone: no check is better, so the metric is not.
LEMMA RollupIsMonotone ==
  ASSUME NEW cs, NEW ds, DOMAIN ds = DOMAIN cs,
         \A c \in DOMAIN cs : /\ cs[c] \in Rated /\ ds[c] \in Rated
                              /\ severityRank[cs[c]] <= severityRank[ds[c]]
  PROVE  severityRank[rollupChecks(cs)] <= severityRank[rollupChecks(ds)]
<1>0. /\ severityRank["passed"] = 0 /\ severityRank["cannot_assess"] = -1
      /\ \A v \in Failures : severityRank[v] \in 1 .. 4
  BY DEF severityRank, Verdicts, Failures
<1>1. \A c \in DOMAIN cs : severityRank[cs[c]] \in Int /\ severityRank[ds[c]] \in Int
  BY Ranks
<1>2. CASE \A c \in DOMAIN cs : ~Judged(cs[c])
  <2>1. severityRank[rollupChecks(cs)] = -1 BY <1>0, <1>2 DEF rollupChecks
  <2>2. severityRank[rollupChecks(ds)] \in -1 .. 4 BY <1>0, Rollup DEF Judged
  <2> QED BY <2>1, <2>2
<1>3. CASE \E c \in DOMAIN cs : Judged(cs[c])
  <2>1. \E c \in DOMAIN ds : Judged(ds[c]) BY <1>1, <1>3, Ranks
  <2>2. CASE rollupChecks(cs) = "passed"
    <3>1. severityRank[rollupChecks(ds)] >= 0 BY <1>0, <2>1, Rollup
    <3> QED BY <1>0, <2>2, <3>1
  <2>3. CASE rollupChecks(cs) \in Failures
    <3>1. PICK c \in DOMAIN cs : cs[c] = rollupChecks(cs) BY <1>0, <1>3, <2>3, Rollup DEF Failures
    <3>2. ds[c] \in Failures BY <1>1, <2>3, <3>1, Ranks
    <3>3. /\ rollupChecks(ds) \in Failures
          /\ severityRank[ds[c]] <= severityRank[rollupChecks(ds)]
      BY <2>1, <3>2, Rollup
    <3> QED BY <1>0, <1>1, <3>1, <3>2, <3>3
  <2> QED BY <1>3, <2>2, <2>3, Rollup
<1> QED BY <1>2, <1>3

-----------------------------------------------------------------------------
(* What the results are made of.                                           *)

\* Replies that an evaluator that retries has accepted: those of the claims
\* evaluator come in their order, each about the claims that the ones before left.
Accepted ==
  /\ evaluator = "visual_quality" =>
       \A c \in DOMAIN reply : reply[c] \in [VisualModelChecks -> 0 .. 4]
  /\ evaluator = "claims_accuracy" =>
       /\ ~Over("judgment")
       /\ Over("extraction") => reply["extraction"] \in Extractions
       /\ Over("triage") =>
            Over("extraction") /\ reply["triage"] \in [Candidates -> TriageAnswers]
       /\ Over("substantiation") =>
            /\ Over("triage")
            /\ reply["substantiation"] \in [verifiableClaims(Triage) -> FindingAnswers]

\* Results are assembled when no call is left, from the replies that are there.
Returned == at = "returned" => Awaited = {} /\ checks = Assembled(reply)

\* The claims that a call is about are claims.
LEMMA SubjectIsClaims ==
  ASSUME Accepted, evaluator = "claims_accuracy", NEW c \in Calls
  PROVE  Subject(c) \in SUBSET Claims
<1>1. Candidates \subseteq Claims
  <2>1. CASE Over("extraction")
    <3>1. DOMAIN reply["extraction"] \subseteq Claims BY <2>1 DEF Accepted, Extractions
    <3> QED BY <2>1, <3>1 DEF Candidates, processExtractionResponse
  <2> QED BY <2>1 DEF Candidates
<1>2. verifiableClaims(Triage) \subseteq Candidates
  BY DEF verifiableClaims, Triage, Nothing, processTriageResponse
<1> QED BY <1>1, <1>2 DEF Subject

\* A reply that the parser lets pass keeps what was accepted.
LEMMA ReplyAccepted ==
  ASSUME TypeOK, Accepted, NEW c \in Calls, Reply(c)
  PROVE  Accepted'
<1> PICK r \in Replies(evaluator, c, Subject(c)) : Learn(c, r) BY DEF Reply
<1>1. /\ reply' = [d \in DOMAIN reply \cup {c} |-> IF d = c THEN r ELSE reply[d]]
      /\ evaluator' = evaluator /\ c \in Awaited
  BY DEF Learn, Reply
<1>2. /\ DOMAIN reply' = DOMAIN reply \cup {c}
      /\ reply'[c] = r
      /\ \A d \in DOMAIN reply : d # c => reply'[d] = reply[d]
  BY <1>1
<1>3. CASE evaluator = "visual_quality"
  <2>1. c = "judgment" BY <1>1, <1>3 DEF Awaited
  <2>2. Subject(c) \in SUBSET Claims BY <2>1 DEF Subject
  <2>3. r \in RepliesOf(evaluator, c, Subject(c)) BY <2>2, PipelineAssumption DEF TypeOK
  <2>4. r \in [VisualModelChecks -> 0 .. 4] BY <1>3, <2>1, <2>3 DEF RepliesOf
  <2> QED BY <1>1, <1>2, <1>3, <2>4 DEF Accepted
<1>4. CASE evaluator = "claims_accuracy"
  <2>1. Subject(c) \in SUBSET Claims BY <1>4, SubjectIsClaims
  <2>2. r \in RepliesOf(evaluator, c, Subject(c)) BY <2>1, PipelineAssumption DEF TypeOK
  <2>3. c \in {"extraction", "triage", "substantiation", "policy"} /\ c \notin DOMAIN reply
    BY <1>1, <1>4 DEF Awaited, Over
  <2> ~Over("judgment")' BY <1>2, <1>4, <2>3 DEF Over, Accepted
  <2>4. CASE c = "extraction"
    <3>1. r \in Extractions BY <1>4, <2>2, <2>4 DEF RepliesOf
    <3>2. ~Over("triage")' /\ ~Over("substantiation")'
      BY <1>2, <1>4, <2>3, <2>4 DEF Over, Accepted
    <3> QED BY <1>1, <1>2, <1>4, <2>4, <3>1, <3>2 DEF Accepted
  <2>5. CASE c = "triage"
    <3>1. Over("extraction") BY <1>1, <1>4, <2>5 DEF Awaited, Candidates
    <3>2. r \in [Candidates -> TriageAnswers]
      BY <1>4, <2>2, <2>5 DEF RepliesOf, Subject
    <3>3. Over("extraction")' /\ reply'["extraction"] = reply["extraction"]
      BY <1>2, <2>5, <3>1 DEF Over
    <3>4. Candidates' = Candidates BY <3>1, <3>3 DEF Candidates
    <3>5. ~Over("substantiation")' BY <1>2, <1>4, <2>3, <2>5 DEF Over, Accepted
    <3> QED BY <1>1, <1>2, <1>4, <2>5, <3>2, <3>3, <3>4, <3>5 DEF Accepted, Over
  <2>6. CASE c = "substantiation"
    <3>1. verifiableClaims(Triage) # {} BY <1>1, <1>4, <2>6 DEF Awaited
    <3>2. Over("triage") BY <3>1 DEF verifiableClaims, Triage, Nothing
    <3>3. r \in [verifiableClaims(Triage) -> FindingAnswers]
      BY <1>4, <2>2, <2>6 DEF RepliesOf, Subject
    <3>4. /\ Over("triage")' /\ reply'["triage"] = reply["triage"]
          /\ Over("extraction")' /\ reply'["extraction"] = reply["extraction"]
      BY <1>2, <1>4, <2>6, <3>2 DEF Over, Accepted
    <3>5. Candidates' = Candidates BY <1>4, <3>2, <3>4 DEF Candidates, Accepted
    <3>6. Triage' = Triage BY <3>2, <3>4, <3>5 DEF Triage
    <3> QED BY <1>1, <1>2, <1>4, <2>6, <3>2, <3>3, <3>4, <3>5, <3>6 DEF Accepted
  <2>7. CASE c = "policy"
    <3>1. \A d \in {"extraction", "triage", "substantiation"} :
            /\ Over(d)' <=> Over(d)
            /\ Over(d) => reply'[d] = reply[d]
      BY <1>2, <2>7 DEF Over
    <3>2. Candidates' = Candidates BY <3>1 DEF Candidates
    <3>3. Triage' = Triage BY <3>1, <3>2 DEF Triage
    <3> QED BY <1>1, <1>4, <3>1, <3>2, <3>3 DEF Accepted
  <2> QED BY <2>3, <2>4, <2>5, <2>6, <2>7
<1> QED BY <1>1, <1>3, <1>4 DEF Accepted

\* Whatever is answered or fails, what was accepted stays, and results are final.
LEMMA StepReturned ==
  ASSUME IInv, Accepted, Returned, [Next]_vars
  PROVE  Accepted' /\ Returned'
<1>0. TypeOK BY DEF IInv
<1>1. ASSUME NEW c \in Calls, Reply(c) PROVE Accepted' /\ Returned'
  BY <1>0, <1>1, ReplyAccepted DEF Reply, Returned
<1>2. ASSUME NEW c \in Calls, GarbledIgnored(c) PROVE Accepted' /\ Returned'
  BY <1>2 DEF GarbledIgnored, Accepted, Returned, Retrying
<1>3. ASSUME NEW c \in Calls, ProviderFailsQuietly(c) PROVE Accepted' /\ Returned'
  BY <1>3 DEF ProviderFailsQuietly, Accepted, Returned, Retrying
<1>4. ASSUME UNCHANGED <<evaluator, context, reply, checks>>,
             at' = "returned" => at = "returned" \/ Finish
      PROVE  Accepted' /\ Returned'
  <2>1. /\ Awaited' = Awaited /\ Assembled(reply)' = Assembled(reply)
        /\ Candidates' = Candidates /\ Triage' = Triage
    BY <1>4 DEF Awaited, Assembled, Candidates, Triage, Over, Substantiated
  <2>2. Accepted' BY <1>4, <2>1 DEF Accepted, Over
  <2> QED BY <1>4, <2>1, <2>2 DEF Returned, Finish
<1>5. ASSUME NEW c \in Calls, GarbledRetried(c) PROVE Accepted' /\ Returned'
  BY <1>4, <1>5 DEF GarbledRetried
<1>6. ASSUME NEW c \in Calls, ProviderFails(c) PROVE Accepted' /\ Returned'
  BY <1>4, <1>6 DEF ProviderFails
<1>7. CASE Finish
  <2>1. UNCHANGED <<evaluator, context, reply>> /\ Awaited = {} BY <1>7 DEF Finish
  <2>2. /\ Awaited' = Awaited /\ Assembled(reply)' = Assembled(reply)
        /\ Candidates' = Candidates /\ Triage' = Triage
    BY <2>1 DEF Awaited, Assembled, Candidates, Triage, Over, Substantiated
  <2>3. Accepted' BY <2>1, <2>2 DEF Accepted, Over
  <2>4. at' = "returned" => checks' = Assembled(reply) BY <1>7 DEF Finish
  <2> QED BY <2>1, <2>2, <2>3, <2>4 DEF Returned
<1>8. CASE UNCHANGED vars BY <1>4, <1>8 DEF vars
<1> QED BY <1>1, <1>2, <1>3, <1>5, <1>6, <1>7, <1>8 DEF Next

\* They hold in every state of a run.
LEMMA ReturnedInvariant == Spec => [](IInv /\ Accepted /\ Returned)
<1>1. Init => Accepted /\ Returned BY DEF Init, Nothing, Accepted, Returned, Over
<1>2. IInv /\ Accepted /\ Returned /\ [Next]_vars => (Accepted /\ Returned)'
  BY StepReturned
<1> QED BY <1>1, <1>2, InitIInv, StepIInv, PTL DEF Spec

-----------------------------------------------------------------------------
(* The claims that pass.                                                   *)

\* The highest score of a set of scores, without the CHOOSE.
LEMMA FaultScoreIsHighest ==
  ASSUME NEW findings, NEW fault,
         \A c \in DOMAIN findings : findings[c] \in Findings
  PROVE  /\ FaultScore(findings, fault) \in 0 .. 4
         /\ \A c \in DOMAIN findings : findings[c].classification = fault =>
              findings[c].severity <= FaultScore(findings, fault)
         /\ FaultScore(findings, fault) # 0 =>
              \E c \in DOMAIN findings :
                /\ findings[c].classification = fault
                /\ findings[c].severity = FaultScore(findings, fault)
<1> DEFINE scores == {findings[c].severity :
                        c \in {d \in DOMAIN findings : findings[d].classification = fault}}
<1>1. scores \subseteq 0 .. 4 BY DEF Findings
<1>2. FaultScore(findings, fault)
        = IF scores = {} THEN 0 ELSE CHOOSE s \in scores : \A t \in scores : t <= s
  BY DEF FaultScore
<1>3. \A c \in DOMAIN findings :
        findings[c].classification = fault => findings[c].severity \in scores
  OBVIOUS
<1>4. \A s \in scores : \E c \in DOMAIN findings :
        findings[c].classification = fault /\ findings[c].severity = s
  OBVIOUS
<1> HIDE DEF scores
<1>5. CASE scores = {} BY <1>2, <1>3, <1>5
<1>6. CASE scores # {}
  <2>1. \E s \in scores : \A t \in scores : t <= s
    <3>1. CASE 4 \in scores BY <1>1, <3>1
    <3>2. CASE 4 \notin scores /\ 3 \in scores BY <1>1, <3>2
    <3>3. CASE 4 \notin scores /\ 3 \notin scores /\ 2 \in scores BY <1>1, <3>3
    <3>4. CASE scores \subseteq {0, 1} /\ 1 \in scores BY <3>4
    <3>5. CASE scores = {0} BY <3>5
    <3>6. \A s \in scores : s \in {0, 1, 2, 3, 4} BY <1>1
    <3> QED BY <1>6, <3>1, <3>2, <3>3, <3>4, <3>5, <3>6
  <2> DEFINE best == CHOOSE s \in scores : \A t \in scores : t <= s
  <2>2. best \in scores /\ \A t \in scores : t <= best BY <2>1
  <2>3. FaultScore(findings, fault) = best BY <1>2, <1>6
  <2> HIDE DEF best
  <2> QED BY <1>1, <1>3, <1>4, <2>2, <2>3
<1> QED BY <1>5, <1>6

\* A metric that passes has something judged and nothing failed.
LEMMA PassedMeansClean ==
  ASSUME NEW cs, rollupChecks(cs) = "passed"
  PROVE  /\ \E c \in DOMAIN cs : Judged(cs[c])
         /\ \A c \in DOMAIN cs : cs[c] \notin Failures
<1>1. \E c \in DOMAIN cs : Judged(cs[c]) BY Rollup DEF Judged
<1>2. rollupChecks(cs) \notin Failures BY DEF Failures
<1> QED BY <1>1, <1>2, Rollup

\* Product truth passes only if there was evidence and no fault scores.
LEMMA TruthMeansNoFault ==
  ASSUME NEW evidence \in BOOLEAN, NEW findings,
         \A c \in DOMAIN findings : findings[c] \in Findings,
         rollupChecks(evaluateProductTruth(evidence, findings)) = "passed"
  PROVE  evidence /\ \A fault \in Faults : FaultScore(findings, fault) = 0
<1> DEFINE cs == evaluateProductTruth(evidence, findings)
<1>1. PICK f \in Faults : Judged(cs[f])
  BY PassedMeansClean DEF evaluateProductTruth
<1>2. evidence BY <1>1 DEF evaluateProductTruth, Judged
<1>3. ASSUME NEW fault \in Faults PROVE FaultScore(findings, fault) = 0
  <2>1. cs[fault] \notin Failures BY PassedMeansClean DEF evaluateProductTruth
  <2>2. cs[fault] = IF FaultScore(findings, fault) = 0 THEN "passed"
                    ELSE ScoreVerdict[FaultScore(findings, fault)]
    BY <1>2 DEF evaluateProductTruth
  <2>3. FaultScore(findings, fault) \in 0 .. 4 BY FaultScoreIsHighest
  <2>4. \A s \in 1 .. 4 : ScoreVerdict[s] \in Failures BY DEF ScoreVerdict, Failures
  <2> QED BY <2>1, <2>2, <2>3, <2>4
<1> QED BY <1>2, <1>3

\* What the substantiation is taken to have found are findings.
LEMMA SubstantiatedFindings ==
  ASSUME Accepted, evaluator = "claims_accuracy"
  PROVE  /\ \A c \in DOMAIN Substantiated(reply) : Substantiated(reply)[c] \in Findings
         /\ Over("substantiation") =>
              /\ DOMAIN Substantiated(reply) = verifiableClaims(Triage)
              /\ \A c \in verifiableClaims(Triage) :
                   Substantiated(reply)[c] =
                     IF reply["substantiation"][c].covered
                     THEN reply["substantiation"][c].finding
                     ELSE [classification |-> "unsupported", severity |-> 2]
<1>1. CASE ~Over("substantiation") BY <1>1 DEF Over, Substantiated, Nothing
<1>2. CASE Over("substantiation")
  <2>1. reply["substantiation"] \in [verifiableClaims(Triage) -> FindingAnswers]
    BY <1>2 DEF Accepted
  <2>2. Substantiated(reply) =
          [c \in verifiableClaims(Triage) |->
             IF reply["substantiation"][c].covered THEN reply["substantiation"][c].finding
             ELSE [classification |-> "unsupported", severity |-> 2]]
    BY <1>2 DEF Over, Substantiated, processSubstantiationResponse
  <2>3. ASSUME NEW a \in FindingAnswers PROVE a.finding \in Findings
    <3>1. [classification |-> "none", severity |-> 0] \in Findings BY DEF Findings
    <3> QED BY <3>1 DEF FindingAnswers
  <2>4. [classification |-> "unsupported", severity |-> 2] \in Findings
    BY DEF Findings, Faults
  <2> QED BY <1>2, <2>1, <2>2, <2>3, <2>4
<1> QED BY <1>1, <1>2

\* Product truth that passes has examined every claim that the extraction named, but for
\* the three kinds that nobody examines, whatever triage and the substantiation leave
\* uncovered, and however many claims there are.
THEOREM ClaimsExamined == Spec => []ClaimsAreExamined
<1>1. ASSUME IInv, Accepted, Returned PROVE ClaimsAreExamined
  <2> SUFFICES ASSUME at = "returned", evaluator = "claims_accuracy",
                      Shown("product_truth") = "passed", NEW c \in NamedClaims,
                      reply["extraction"][c]
               PROVE  \/ reply["triage"][c] \in {"puffery", "uncategorised"}
                      \/ /\ reply["substantiation"][c].covered
                         /\ \/ reply["substantiation"][c].finding.classification = "none"
                            \/ reply["substantiation"][c].finding.severity = 0
    BY DEF ClaimsAreExamined
  <2> DEFINE findings == Substantiated(reply)
  <2>1. context.evidence \in BOOLEAN
    BY <1>1 DEF IInv, TypeOK, ContextsOf, ClaimsContexts
  <2>2. checks["product_truth"] = evaluateProductTruth(context.evidence, findings)
    BY <1>1 DEF Returned, Assembled, ClaimsSubChecks
  <2>3. \A d \in DOMAIN findings : findings[d] \in Findings
    BY <1>1, SubstantiatedFindings
  <2>4. context.evidence /\ \A fault \in Faults : FaultScore(findings, fault) = 0
    BY <2>1, <2>2, <2>3, TruthMeansNoFault DEF Shown
  <2>5. Over("extraction") /\ c \in Candidates
    BY DEF NamedClaims, Candidates, processExtractionResponse
  <2>6. Over("triage") /\ reply["triage"] \in [Candidates -> TriageAnswers]
    <3>1. Over("extraction") BY <2>5
    <3>2. Over("triage") BY <1>1, <2>5, <3>1 DEF Returned, Awaited
    <3> QED BY <1>1, <3>2 DEF Accepted
  <2>7. CASE reply["triage"][c] \in {"uncovered", "verifiable"}
    <3>1. c \in verifiableClaims(Triage)
      BY <2>6, <2>7, <2>5 DEF verifiableClaims, Triage, processTriageResponse
    <3>2. Over("substantiation") BY <1>1, <2>6, <3>1 DEF Returned, Awaited, Over
    <3>3. reply["substantiation"][c] \in FindingAnswers BY <1>1, <3>1, <3>2 DEF Accepted
    <3>4. /\ c \in DOMAIN findings
          /\ findings[c] = IF reply["substantiation"][c].covered
                           THEN reply["substantiation"][c].finding
                           ELSE [classification |-> "unsupported", severity |-> 2]
      BY <1>1, <3>1, <3>2, SubstantiatedFindings
    <3>5. findings[c] \in Findings BY <2>3, <3>4
    <3>6. findings[c].classification \in Faults => findings[c].severity = 0
      <4> SUFFICES ASSUME findings[c].classification \in Faults
                   PROVE  findings[c].severity = 0
        OBVIOUS
      <4>1. findings[c].severity <= FaultScore(findings, findings[c].classification)
        BY <2>3, <3>4, FaultScoreIsHighest
      <4>2. findings[c].severity \in 0 .. 4 BY <3>5 DEF Findings
      <4> QED BY <2>4, <4>1, <4>2
    <3>7. reply["substantiation"][c].covered BY <3>4, <3>6 DEF Faults
    <3>8. findings[c].classification \in Faults \cup {"none"} BY <3>5 DEF Findings
    <3> QED BY <3>4, <3>6, <3>7, <3>8
  <2> QED BY <2>6, <2>7, <2>5 DEF TriageAnswers
<1> QED BY <1>1, ReturnedInvariant, PTL

-----------------------------------------------------------------------------
(* Sparse input and no input.                                              *)

\* The cap keeps a failure a failure, and none is above it.
LEMMA ClampedFailure ==
  ASSUME NEW v \in Verdicts, NEW max \in Failures
  PROVE  /\ v \in Failures => clampSeverity(v, max) \in Failures
         /\ clampSeverity(v, max) \in Verdicts
         /\ severityRank[clampSeverity(v, max)] <= severityRank[max]
<1>1. max \in Verdicts BY DEF Verdicts
<1>2. v \in Rated /\ max \in Rated BY <1>1 DEF Rated
<1>3. severityRank[v] \in -1 .. 4 /\ severityRank[max] \in -1 .. 4 BY <1>2, Ranks
<1> QED BY <1>1, <1>3 DEF clampSeverity

\* The reply that the storyline evaluator has judged by.
LEMMA StorylineReply ==
  ASSUME IInv, Returned, at = "returned", evaluator = "storyline_clarity"
  PROVE  /\ context \in StorylineContexts
         /\ "judgment" \in DOMAIN reply
         /\ reply["judgment"].arc \in Arcs
         /\ reply["judgment"].answers \in [StorylineModelChecks -> Answers]
         /\ checks = StorylineSubChecks(context, reply["judgment"].arc,
                                        reply["judgment"].answers)
<1>1. Awaited = {} /\ checks = Assembled(reply) BY DEF Returned
<1>2. "judgment" \in DOMAIN reply BY <1>1 DEF Awaited
<1>3. reply["judgment"] \in RepliesOf(evaluator, "judgment", {})
  BY <1>2, EvaluatorNames DEF IInv
<1>4. context \in StorylineContexts BY DEF IInv, TypeOK, ContextsOf
<1> QED BY <1>1, <1>2, <1>3, <1>4 DEF RepliesOf, Assembled

\* Whatever the model says of a storyline read from too little: the channel fails
\* above low only by its format, and its arc does not acquit a story that failed.
THEOREM SparseIsGentle == Spec => []SparseInputIsGentle
<1>1. ASSUME IInv, Returned PROVE SparseInputIsGentle
  <2> DEFINE arc == reply["judgment"].arc
             answers == reply["judgment"].answers
  <2> SUFFICES ASSUME at = "returned", evaluator = "storyline_clarity",
                      \/ ~arc.usable
                      \/ ~arc.confident
                      \/ context.frames * SecondsPerFrame < context.duration
               PROVE  /\ Shown("channel_readiness") \in {"medium", "high", "critical"} =>
                           Shown("channel_readiness")
                             = checks["channel_readiness"]["format_noncompliant"]
                      /\ answers["story_incomplete"] \in Failures =>
                           checks["creative_effectiveness"]["story_incomplete"] \in Failures
    BY DEF SparseInputIsGentle
  <2>1. /\ answers \in [StorylineModelChecks -> Answers]
        /\ checks = StorylineSubChecks(context, arc, answers)
    BY <1>1, StorylineReply
  <2>2. isSparseAnalysis(context, arc) BY DEF isSparseAnalysis
  <2> HIDE DEF arc, answers
  <2>3. \A c \in {"placement_mismatch", "story_incomplete"} :
          /\ c \in StorylineModelChecks
          /\ StorylineMax[c] \in Failures
          /\ answers[c] \in Answers
    BY <2>1 DEF StorylineModelChecks, StorylineMax, Failures
  <2>4. Shown("channel_readiness") \in {"medium", "high", "critical"} =>
          Shown("channel_readiness") = checks["channel_readiness"]["format_noncompliant"]
    <3> DEFINE placement == StorylineVerdict("placement_mismatch", answers)
               cs == checks["channel_readiness"]
    <3> SUFFICES ASSUME rollupChecks(cs) \in {"medium", "high", "critical"}
                 PROVE  rollupChecks(cs) = cs["format_noncompliant"]
      BY DEF Shown
    <3>1. placement \in Verdicts BY <2>3, LlmIsVerdict DEF StorylineVerdict, Verdicts
    <3>2. severityRank[clampSeverity(placement, "low")] <= severityRank["low"]
      BY <3>1, ClampedFailure DEF Failures
    <3>3. \A v \in {"medium", "high", "critical"} : ~(severityRank[v] <= severityRank["low"])
      BY DEF severityRank, Verdicts, Failures
    <3>4. /\ DOMAIN cs = {"format_noncompliant", "placement_mismatch"}
          /\ cs["placement_mismatch"] = clampSeverity(placement, "low")
      BY <2>1, <2>2 DEF StorylineSubChecks, buildChannelReadiness
    <3> HIDE DEF cs, placement
    <3>5. \E c \in DOMAIN cs : cs[c] = rollupChecks(cs)
      <4>1. rollupChecks(cs) # "passed" /\ Judged(rollupChecks(cs)) BY DEF Judged
      <4> QED BY <4>1, Rollup
    <3> QED BY <3>2, <3>3, <3>4, <3>5
  <2>5. ASSUME answers["story_incomplete"] \in Failures
        PROVE  checks["creative_effectiveness"]["story_incomplete"] \in Failures
    <3>1. answers["story_incomplete"] \in Verdicts BY <2>5 DEF Verdicts
    <3>2. answers["story_incomplete"] \notin {"missing", "unrated"} BY <2>5 DEF Failures
    <3>3. StorylineVerdict("story_incomplete", answers)
            = clampSeverity(answers["story_incomplete"], StorylineMax["story_incomplete"])
      BY <3>2 DEF StorylineVerdict, fromLlmSubCheck
    <3>4. StorylineVerdict("story_incomplete", answers) \in Failures
      BY <2>3, <2>5, <3>1, <3>3, ClampedFailure
    <3>5. checks["creative_effectiveness"]["story_incomplete"]
            = reconcileStoryIncomplete(context, arc,
                                       StorylineVerdict("story_incomplete", answers))
      BY <2>1 DEF StorylineSubChecks, buildCreativeEffectiveness
    <3> QED BY <2>2, <3>4, <3>5 DEF reconcileStoryIncomplete
  <2> QED BY <2>4, <2>5 DEF answers
<1> QED BY <1>1, ReturnedInvariant, PTL

\* A metric with nothing judged abstains.
LEMMA NothingJudged ==
  ASSUME NEW cs, Judged(rollupChecks(cs))
  PROVE  \E c \in DOMAIN cs : Judged(cs[c])
BY Rollup

\* Brief alignment abstains without a reply or an input.
LEMMA BriefAbstains ==
  ASSUME IInv, Returned, at = "returned", evaluator = "brief_alignment", Silent \/ Bare,
         NEW m \in DOMAIN checks
  PROVE  ~Judged(Shown(m))
<1>1. Awaited = {} /\ checks = Assembled(reply) BY DEF Returned
<1>2. "judgment" \in DOMAIN reply BY <1>1 DEF Awaited
<1>3. checks = BriefSubChecks(context, reply["judgment"]) BY <1>1 DEF Assembled
<1>4. context \in BriefContexts BY DEF IInv, TypeOK, ContextsOf
<1>5. m \in DOMAIN BriefChecks BY <1>3 DEF BriefSubChecks
<1>6. ASSUME NEW c \in BriefChecks[m]
      PROVE  ~Judged(Guarded(briefInputMissing(context, c), reply["judgment"][c]))
  <2>1. CASE Silent
    <3>1. reply["judgment"] = Silence(evaluator) BY <1>2, <2>1 DEF Silent, Unusable
    <3>2. c \in BriefModelChecks BY <1>5 DEF BriefModelChecks
    <3>3. reply["judgment"][c] = "missing" BY <3>1, <3>2 DEF Silence, ModelChecks
    <3> QED BY <3>3 DEF Guarded, normalizeModelSubCheck, Judged
  <2>2. CASE Bare
    <3>1. briefInputMissing(context, c) BY <2>2 DEF Bare, briefInputMissing
    <3> QED BY <3>1 DEF Guarded, Judged
  <2> QED BY <2>1, <2>2
<1>7. checks[m] = [c \in BriefChecks[m] |->
                     Guarded(briefInputMissing(context, c), reply["judgment"][c])]
  BY <1>3, <1>5 DEF BriefSubChecks
<1> QED BY <1>6, <1>7, NothingJudged DEF Shown

\* So does product representation.
LEMMA ProductAbstains ==
  ASSUME IInv, Returned, at = "returned", evaluator = "product_representation",
         Silent \/ Bare, NEW m \in DOMAIN checks
  PROVE  ~Judged(Shown(m))
<1>1. Awaited = {} /\ checks = Assembled(reply) BY DEF Returned
<1>2. "judgment" \in DOMAIN reply BY <1>1 DEF Awaited
<1>3. checks = ProductSubChecks(context, reply["judgment"]) BY <1>1 DEF Assembled
<1>6. ASSUME NEW c \in ProductModelChecks
      PROVE  ~Judged(Guarded(productInputMissing(context, c), reply["judgment"][c]))
  <2>1. CASE Silent
    <3>1. reply["judgment"] = Silence(evaluator) BY <1>2, <2>1 DEF Silent, Unusable
    <3>2. reply["judgment"][c] = "missing" BY <3>1 DEF Silence, ModelChecks
    <3> QED BY <3>2 DEF Guarded, normalizeModelSubCheck, Judged
  <2>2. CASE Bare
    <3>1. productInputMissing(context, c)
      BY <2>2 DEF Bare, productInputMissing, ProductModelChecks
    <3> QED BY <3>1 DEF Guarded, Judged
  <2> QED BY <2>1, <2>2
<1>7. checks[m] = [c \in ProductModelChecks |->
                     Guarded(productInputMissing(context, c), reply["judgment"][c])]
  BY <1>3 DEF ProductSubChecks
<1> QED BY <1>6, <1>7, NothingJudged DEF Shown

\* Brand alignment judges nothing but its logo, and that only if it may be absent.
LEMMA BrandAbstains ==
  ASSUME IInv, Returned, at = "returned", evaluator = "brand_alignment", Silent \/ Bare,
         NEW m \in DOMAIN checks, Judged(Shown(m))
  PROVE  "logo_absent" \in DOMAIN checks[m] /\ Judged(checks[m]["logo_absent"])
<1> DEFINE answers == IF BrandAsksModel(context) THEN reply["judgment"] ELSE NoBrandAnswers
           logo == evaluateLogoChecks(context)
           qualitative == evaluateQualitativeChecks(context, answers)
<1>1. Awaited = {} /\ checks = Assembled(reply) BY DEF Returned
<1>2. checks[m] = buildBrandResult(context, answers)
  BY <1>1 DEF Assembled, BrandSubChecks
<1>3. answers = NoBrandAnswers
  <2>1. CASE BrandAsksModel(context)
    <3>1. "judgment" \in DOMAIN reply BY <1>1, <2>1 DEF Awaited
    <3>2. Silent BY <2>1 DEF Bare
    <3> QED BY <2>1, <3>1, <3>2 DEF Silent, Unusable
  <2> QED BY <2>1
<1> HIDE DEF answers
<1>4. /\ DOMAIN qualitative = BrandModelChecks
      /\ \A c \in BrandModelChecks : ~Judged(qualitative[c])
  BY <1>3 DEF evaluateQualitativeChecks, NoBrandAnswers, BrandModelChecks, makeCheck, Judged
<1>5. /\ DOMAIN logo = {"logo_absent", "logo_incorrect"}
      /\ Judged(logo["logo_incorrect"]) => Judged(logo["logo_absent"])
  BY DEF evaluateLogoChecks, Judged
<1>6. /\ DOMAIN checks[m] = DOMAIN logo \cup DOMAIN qualitative
      /\ \A c \in DOMAIN checks[m] :
           checks[m][c] = IF c \in DOMAIN logo THEN logo[c] ELSE qualitative[c]
  BY <1>2 DEF buildBrandResult
<1> HIDE DEF logo, qualitative
<1>7. PICK c \in DOMAIN checks[m] : Judged(checks[m][c]) BY NothingJudged DEF Shown
<1> QED BY <1>4, <1>5, <1>6, <1>7

\* A storyline that no model has judged is judged by its format alone.
LEMMA StorylineAbstains ==
  ASSUME IInv, Returned, at = "returned", evaluator = "storyline_clarity", Silent \/ Bare,
         NEW m \in DOMAIN checks, Judged(Shown(m))
  PROVE  "format_noncompliant" \in DOMAIN checks[m]
           /\ Judged(checks[m]["format_noncompliant"])
<1> DEFINE arc == reply["judgment"].arc
           answers == reply["judgment"].answers
<1>1. checks = StorylineSubChecks(context, arc, answers) /\ "judgment" \in DOMAIN reply
  BY StorylineReply
<1>2. Silent BY DEF Bare
<1>3. answers = Silence(evaluator) BY <1>1, <1>2 DEF Silent, Unusable
<1> HIDE DEF arc, answers
<1>4. ASSUME NEW c \in StorylineModelChecks
      PROVE  StorylineVerdict(c, answers) = "cannot_assess"
  BY <1>3 DEF Silence, ModelChecks, StorylineVerdict, fromLlmSubCheck
<1>5. clampSeverity("cannot_assess", "low") = "cannot_assess"
  BY DEF clampSeverity, severityRank, Verdicts, Failures
<1>6. PICK c \in DOMAIN checks[m] : Judged(checks[m][c]) BY NothingJudged DEF Shown
<1>7. StorylineModelChecks = {"hook_missing", "narrative_gap", "value_prop_unclear",
        "story_incomplete", "pacing_misallocation", "placement_mismatch"}
  BY DEF StorylineModelChecks, StorylineMax
<1>8. CASE m = "channel_readiness"
  <2>1. checks[m] = buildChannelReadiness(context, arc, answers)
    BY <1>1, <1>8 DEF StorylineSubChecks
  <2>2. DOMAIN checks[m] = {"format_noncompliant", "placement_mismatch"}
    BY <2>1 DEF buildChannelReadiness
  <2>3. checks[m]["placement_mismatch"] = "cannot_assess"
    BY <1>4, <1>5, <1>7, <2>1 DEF buildChannelReadiness
  <2> QED BY <1>6, <2>2, <2>3 DEF Judged
<1>9. CASE m = "creative_effectiveness"
  <2>1. checks[m] = buildCreativeEffectiveness(context, arc, answers)
    BY <1>1, <1>9 DEF StorylineSubChecks
  <2>2. reconcileStoryIncomplete(context, arc, "cannot_assess") = "cannot_assess"
    BY DEF reconcileStoryIncomplete, Failures
  <2>3. \A d \in DOMAIN checks[m] : checks[m][d] = "cannot_assess"
    BY <1>4, <1>7, <2>1, <2>2 DEF buildCreativeEffectiveness
  <2> QED BY <1>6, <2>3 DEF Judged
<1> QED BY <1>1, <1>8, <1>9 DEF StorylineSubChecks

\* Nobody approves what nobody looked at: without a usable reply, or without an input
\* to judge by, a metric of an evaluator that degrades is judged only on a
\* measurement of the code's own.
THEOREM AbstainsUnseen == Spec => []AbstainsWithoutEvidence
<1>1. ASSUME IInv, Returned PROVE AbstainsWithoutEvidence
  <2> SUFFICES ASSUME at = "returned", evaluator \notin Retrying \cup {"cta_effectiveness"},
                      Silent \/ Bare, NEW m \in DOMAIN checks, Judged(Shown(m))
               PROVE  \E c \in DOMAIN checks[m] : c \in Measured /\ Judged(checks[m][c])
    BY DEF AbstainsWithoutEvidence
  <2>1. evaluator \in {"brief_alignment", "product_representation", "brand_alignment",
                       "storyline_clarity"}
    BY <1>1, EvaluatorNames DEF IInv, TypeOK, Retrying
  <2> QED BY <1>1, <2>1, BriefAbstains, ProductAbstains, BrandAbstains, StorylineAbstains
          DEF Measured
<1> QED BY <1>1, ReturnedInvariant, PTL

-----------------------------------------------------------------------------
(* One thing worse.                                                        *)

\* The verdict b is no better than the verdict a; so for the checks of a metric.
NoBetter(a, b) == a \in Rated /\ b \in Rated /\ severityRank[a] <= severityRank[b]

NoneBetter(cs, ds) ==
  DOMAIN ds = DOMAIN cs /\ \A c \in DOMAIN cs : NoBetter(cs[c], ds[c])

\* An answer that is the same, or the next worse one.
NextWorse(a, b) == b = a \/ (a \in DOMAIN Worse /\ b = Worse[a])

\* Ranks one by one.
LEMMA RankOf ==
  /\ severityRank["cannot_assess"] = -1
  /\ severityRank["passed"] = 0 /\ severityRank["unrated"] = 0
  /\ severityRank["low"] = 1 /\ severityRank["medium"] = 2
  /\ severityRank["high"] = 3 /\ severityRank["critical"] = 4
BY DEF severityRank, Verdicts, Failures

\* Nothing is better than itself.
LEMMA NoBetterThanItself ==
  ASSUME NEW a \in Rated
  PROVE  NoBetter(a, a)
BY Ranks DEF NoBetter

\* The next worse answer is an answer, and a worse verdict.
LEMMA NextWorseVerdict ==
  ASSUME NEW a, NEW b, NextWorse(a, b)
  PROVE  b = a \/ (a \in Verdicts /\ b \in Failures /\ severityRank[a] < severityRank[b]
                     /\ a # "cannot_assess")
<1>1. \A v \in DOMAIN Worse : v \in {"passed", "low", "medium", "high"} BY DEF Worse
<1>2. /\ Worse["passed"] = "low" /\ Worse["low"] = "medium"
      /\ Worse["medium"] = "high" /\ Worse["high"] = "critical"
  BY DEF Worse
<1> QED BY <1>1, <1>2, RankOf DEF NextWorse, Verdicts, Failures

\* A set of answers with one of them worse.
LEMMA WorseAnswer ==
  ASSUME NEW S, NEW T, Verdicts \subseteq T, NEW answers \in [S -> T],
         NEW w \in WorseAnswers(answers)
  PROVE  w \in [S -> T] /\ \A c \in S : NextWorse(answers[c], w[c])
<1>1. PICK c \in S : /\ answers[c] \in DOMAIN Worse
                     /\ w = [answers EXCEPT ![c] = Worse[@]]
  BY DEF WorseAnswers
<1>2. NextWorse(answers[c], Worse[answers[c]]) BY <1>1 DEF NextWorse
<1>3. Worse[answers[c]] \in T
  <2>1. Worse[answers[c]] = answers[c] \/ Worse[answers[c]] \in Failures
    BY <1>2, NextWorseVerdict
  <2> QED BY <2>1 DEF Verdicts
<1> QED BY <1>1, <1>2, <1>3 DEF NextWorse

\* The cap is monotone.
LEMMA ClampIsMonotone ==
  ASSUME NEW a \in Verdicts, NEW b \in Verdicts, NoBetter(a, b), NEW max \in Failures
  PROVE  NoBetter(clampSeverity(a, max), clampSeverity(b, max))
<1>1. a \in Rated /\ b \in Rated /\ max \in Rated BY DEF Rated, Verdicts
<1>2. severityRank[a] \in Int /\ severityRank[b] \in Int /\ severityRank[max] \in Int
  BY <1>1, Ranks
<1> QED BY <1>1, <1>2 DEF NoBetter, clampSeverity

\* So are the four treatments of an answer.
LEMMA TreatmentsAreMonotone ==
  ASSUME NEW a \in Answers, NEW b \in Answers, NextWorse(a, b), NEW missing,
         NEW max \in Failures
  PROVE  /\ NoBetter(Guarded(missing, a), Guarded(missing, b))
         /\ a # "missing" => NoBetter(makeCheck(a), makeCheck(b))
         /\ NoBetter(fromLlmSubCheck(a, max), fromLlmSubCheck(b, max))
<1>1. Guarded(missing, a) \in Rated /\ fromLlmSubCheck(a, max) \in Rated
  BY GuardedIsVerdict, LlmIsVerdict DEF Rated, Verdicts
<1>2. a # "missing" => makeCheck(a) \in Rated BY MadeIsVerdict DEF Rated
<1>3. CASE b = a BY <1>1, <1>2, <1>3, NoBetterThanItself
<1>4. CASE b # a
  <2>1. a \in Verdicts /\ b \in Failures /\ severityRank[a] < severityRank[b]
    BY <1>4, NextWorseVerdict
  <2>2. b \in Verdicts BY <2>1 DEF Verdicts
  <2>3. a \notin {"missing", "unrated"} /\ b \notin {"missing", "unrated"}
    BY <2>1, <2>2 DEF Verdicts, Failures
  <2>4. a \in Rated /\ b \in Rated BY <2>1, <2>2 DEF Rated
  <2>5. severityRank[a] \in Int /\ severityRank[b] \in Int BY <2>4, Ranks
  <2>6. NoBetter(a, b) BY <2>1, <2>4, <2>5 DEF NoBetter
  <2>7. NoBetter(Guarded(missing, a), Guarded(missing, b))
    BY <1>1, <2>3, <2>6, NoBetterThanItself DEF Guarded, normalizeModelSubCheck
  <2>8. NoBetter(makeCheck(a), makeCheck(b)) BY <2>3, <2>6 DEF makeCheck
  <2>9. /\ fromLlmSubCheck(a, max) = clampSeverity(a, max)
        /\ fromLlmSubCheck(b, max) = clampSeverity(b, max)
    BY <2>3 DEF fromLlmSubCheck
  <2> QED BY <2>1, <2>2, <2>6, <2>7, <2>8, <2>9, ClampIsMonotone
<1> QED BY <1>3, <1>4

\* Brief alignment.
LEMMA BriefIsMonotone ==
  ASSUME NEW ctx, NEW answers \in [BriefModelChecks -> Answers],
         NEW w \in WorseAnswers(answers), NEW m \in DOMAIN BriefChecks
  PROVE  NoneBetter(BriefSubChecks(ctx, answers)[m], BriefSubChecks(ctx, w)[m])
<1>1. /\ w \in [BriefModelChecks -> Answers]
      /\ \A c \in BriefModelChecks : NextWorse(answers[c], w[c])
  <2>1. Verdicts \subseteq Answers BY DEF Answers
  <2> QED BY <2>1, WorseAnswer
<1>2. ASSUME NEW c \in BriefChecks[m]
      PROVE  NoBetter(Guarded(briefInputMissing(ctx, c), answers[c]),
                      Guarded(briefInputMissing(ctx, c), w[c]))
  <2>1. c \in BriefModelChecks BY DEF BriefModelChecks
  <2>2. answers[c] \in Answers /\ w[c] \in Answers /\ NextWorse(answers[c], w[c])
    BY <1>1, <2>1
  <2>3. "low" \in Failures BY DEF Failures
  <2> QED BY <2>2, <2>3, TreatmentsAreMonotone
<1>3. /\ BriefSubChecks(ctx, answers)[m] =
           [c \in BriefChecks[m] |-> Guarded(briefInputMissing(ctx, c), answers[c])]
      /\ BriefSubChecks(ctx, w)[m] =
           [c \in BriefChecks[m] |-> Guarded(briefInputMissing(ctx, c), w[c])]
  BY DEF BriefSubChecks
<1> QED BY <1>2, <1>3 DEF NoneBetter

\* Product representation.
LEMMA ProductIsMonotone ==
  ASSUME NEW ctx, NEW answers \in [ProductModelChecks -> Answers],
         NEW w \in WorseAnswers(answers)
  PROVE  NoneBetter(ProductSubChecks(ctx, answers).product_clarity,
                    ProductSubChecks(ctx, w).product_clarity)
<1>1. /\ w \in [ProductModelChecks -> Answers]
      /\ \A c \in ProductModelChecks : NextWorse(answers[c], w[c])
  <2>1. Verdicts \subseteq Answers BY DEF Answers
  <2> QED BY <2>1, WorseAnswer
<1>2. ASSUME NEW c \in ProductModelChecks
      PROVE  NoBetter(Guarded(productInputMissing(ctx, c), answers[c]),
                      Guarded(productInputMissing(ctx, c), w[c]))
  <2>1. answers[c] \in Answers /\ w[c] \in Answers /\ NextWorse(answers[c], w[c])
    BY <1>1
  <2>2. "low" \in Failures BY DEF Failures
  <2> QED BY <2>1, <2>2, TreatmentsAreMonotone
<1> QED BY <1>2 DEF NoneBetter, ProductSubChecks

\* Brand alignment.
LEMMA BrandIsMonotone ==
  ASSUME NEW ctx \in BrandContexts,
         NEW answers \in [BrandModelChecks -> Answers \ {"missing"}],
         NEW w \in WorseAnswers(answers)
  PROVE  NoneBetter(BrandSubChecks(ctx, answers).brand_fit,
                    BrandSubChecks(ctx, w).brand_fit)
<1>1. /\ w \in [BrandModelChecks -> Answers \ {"missing"}]
      /\ \A c \in BrandModelChecks : NextWorse(answers[c], w[c])
  <2>1. Verdicts \subseteq Answers \ {"missing"} BY DEF Verdicts, Failures, Answers
  <2> QED BY <2>1, WorseAnswer
<1>2. \A c \in BrandModelChecks : NoBetter(makeCheck(answers[c]), makeCheck(w[c]))
  <2>1. "low" \in Failures BY DEF Failures
  <2> QED BY <1>1, <2>1, TreatmentsAreMonotone
<1>3. NoBetter("cannot_assess", "cannot_assess")
  BY NoBetterThanItself DEF Rated, Verdicts
<1>4. NoneBetter(evaluateQualitativeChecks(ctx, answers), evaluateQualitativeChecks(ctx, w))
  BY <1>2, <1>3 DEF NoneBetter, evaluateQualitativeChecks, BrandModelChecks
<1>5. \A c \in DOMAIN evaluateLogoChecks(ctx) :
        NoBetter(evaluateLogoChecks(ctx)[c], evaluateLogoChecks(ctx)[c])
  <2>1. \A c \in DOMAIN evaluateLogoChecks(ctx) : evaluateLogoChecks(ctx)[c] \in Rated
    BY DEF evaluateLogoChecks, Rated, Verdicts, Failures
  <2> QED BY <2>1, NoBetterThanItself
<1> QED BY <1>4, <1>5 DEF NoneBetter, BrandSubChecks, buildBrandResult

\* Calls to action: five checks are the model's, four are measured.
LEMMA CtaIsMonotone ==
  ASSUME NEW ctx \in CtaContexts, NEW acquisition \in Acquisitions,
         NEW answers \in [CtaModelChecks -> Answers], NEW w \in WorseAnswers(answers)
  PROVE  NoneBetter(CtaSubChecks(ctx, acquisition, answers).cta_clarity,
                    CtaSubChecks(ctx, acquisition, w).cta_clarity)
<1> DEFINE cs == buildCtaClarity(ctx, acquisition, answers)
           ds == buildCtaClarity(ctx, acquisition, w)
           V(x, c, max) == fromLlmSubCheck(x[c], max)
           matched == matchesRequiredCta(ctx, acquisition)
           Names == {"cta_absent", "cta_buried", "cta_mistimed", "cta_language_weak",
                     "cta_goal_mismatch", "cta_no_urgency", "cta_destination_unclear",
                     "cta_low_visibility", "cta_platform_mismatch"}
<1>1. /\ w \in [CtaModelChecks -> Answers]
      /\ \A c \in CtaModelChecks : NextWorse(answers[c], w[c])
  <2>1. Verdicts \subseteq Answers BY DEF Answers
  <2> QED BY <2>1, WorseAnswer
<1>2. /\ DOMAIN cs = Names /\ DOMAIN ds = Names
      /\ \A c \in Names : cs[c] \in Verdicts /\ ds[c] \in Verdicts
  <2>1. WellFormed(cs) /\ WellFormed(ds)
    BY <1>1, CtaWellFormed DEF AllWellFormed, CtaSubChecks
  <2>2. DOMAIN cs = Names /\ DOMAIN ds = Names BY DEF buildCtaClarity
  <2> QED BY <2>1, <2>2 DEF WellFormed
<1>3. \A c \in Names : cs[c] \in Rated /\ ds[c] \in Rated BY <1>2 DEF Rated
<1>4. \A c \in CtaModelChecks, max \in Failures :
        /\ NoBetter(V(answers, c, max), V(w, c, max))
        /\ V(answers, c, max) \in Verdicts /\ V(w, c, max) \in Verdicts
  BY <1>1, TreatmentsAreMonotone, LlmIsVerdict DEF Verdicts
<1>5. ASSUME NEW a \in Verdicts, NEW b \in Verdicts, NoBetter(a, b)
      PROVE  NoBetter(capToBriefLow(a, matched), capToBriefLow(b, matched))
  <2>1. "low" \in Failures BY DEF Failures
  <2> QED BY <1>5, <2>1, ClampIsMonotone DEF capToBriefLow
<1>6. NoBetter(cs["cta_absent"], ds["cta_absent"])
  <2>1. /\ cs["cta_absent"] = buildCtaAbsent(ctx.goal, acquisition, answers["cta_absent"])
        /\ ds["cta_absent"] = buildCtaAbsent(ctx.goal, acquisition, w["cta_absent"])
    BY DEF buildCtaClarity
  <2>2. NextWorse(answers["cta_absent"], w["cta_absent"]) BY <1>1 DEF CtaModelChecks
  <2>3. CASE w["cta_absent"] = answers["cta_absent"]
    <3>1. ds["cta_absent"] = cs["cta_absent"] BY <2>1, <2>3
    <3> QED BY <1>3, <3>1, NoBetterThanItself
  <2>4. CASE w["cta_absent"] # answers["cta_absent"]
    <3>1. /\ answers["cta_absent"] \notin {"missing", "cannot_assess"}
          /\ w["cta_absent"] \in Failures
      BY <2>2, <2>4, NextWorseVerdict DEF Verdicts, Failures
    <3>2. w["cta_absent"] \notin {"missing", "cannot_assess", "passed"}
      BY <3>1 DEF Failures
    <3>3. CTA_ABSENT_SEVERITY[ctx.goal] \in {"passed", "high", "critical", "medium"}
      <4>1. ctx.goal \in CtaGoals BY DEF CtaContexts
      <4> QED BY <4>1 DEF CTA_ABSENT_SEVERITY
    <3>4. \/ ds["cta_absent"] = cs["cta_absent"]
          \/ /\ cs["cta_absent"] = "passed"
             /\ ds["cta_absent"] \in {"passed", "high", "critical", "medium"}
      BY <2>1, <3>1, <3>2, <3>3 DEF buildCtaAbsent
    <3> QED BY <1>3, <3>4, NoBetterThanItself, RankOf DEF NoBetter
  <2> QED BY <2>3, <2>4
<1>7. NoBetter(cs["cta_language_weak"], ds["cta_language_weak"])
  <2>1. /\ "cta_language_weak" \in CtaModelChecks /\ "medium" \in Failures
    BY DEF CtaModelChecks, Failures
  <2>2. /\ cs["cta_language_weak"]
             = capToBriefLow(V(answers, "cta_language_weak", "medium"), matched)
        /\ ds["cta_language_weak"]
             = capToBriefLow(V(w, "cta_language_weak", "medium"), matched)
    BY DEF buildCtaClarity
  <2> HIDE DEF V, matched
  <2> QED BY <1>4, <1>5, <2>1, <2>2
<1>8. NoBetter(cs["cta_goal_mismatch"], ds["cta_goal_mismatch"])
  <2>1. /\ "cta_goal_mismatch" \in CtaModelChecks /\ "high" \in Failures
    BY DEF CtaModelChecks, Failures
  <2>2. /\ cs["cta_goal_mismatch"]
             = IF ctx.goal = "unknown" THEN "cannot_assess"
               ELSE capToBriefLow(V(answers, "cta_goal_mismatch", "high"), matched)
        /\ ds["cta_goal_mismatch"]
             = IF ctx.goal = "unknown" THEN "cannot_assess"
               ELSE capToBriefLow(V(w, "cta_goal_mismatch", "high"), matched)
    BY DEF buildCtaClarity
  <2>3. NoBetter("cannot_assess", "cannot_assess")
    BY NoBetterThanItself DEF Rated, Verdicts
  <2> HIDE DEF V, matched
  <2> QED BY <1>4, <1>5, <2>1, <2>2, <2>3
<1>9. NoBetter(cs["cta_no_urgency"], ds["cta_no_urgency"])
  <2>1. "cta_no_urgency" \in CtaModelChecks /\ "low" \in Failures
    BY DEF CtaModelChecks, Failures
  <2>2. /\ cs["cta_no_urgency"] = IF ctx.goal = "conversion"
                                  THEN V(answers, "cta_no_urgency", "low") ELSE "passed"
        /\ ds["cta_no_urgency"] = IF ctx.goal = "conversion"
                                  THEN V(w, "cta_no_urgency", "low") ELSE "passed"
    BY DEF buildCtaClarity
  <2>3. NoBetter("passed", "passed") BY NoBetterThanItself DEF Rated, Verdicts
  <2> HIDE DEF V
  <2> QED BY <1>4, <2>1, <2>2, <2>3
<1>10. NoBetter(cs["cta_destination_unclear"], ds["cta_destination_unclear"])
  <2>1. "cta_destination_unclear" \in CtaModelChecks /\ "medium" \in Failures
    BY DEF CtaModelChecks, Failures
  <2>2. /\ cs["cta_destination_unclear"] = V(answers, "cta_destination_unclear", "medium")
        /\ ds["cta_destination_unclear"] = V(w, "cta_destination_unclear", "medium")
    BY DEF buildCtaClarity
  <2> HIDE DEF V
  <2> QED BY <1>4, <2>1, <2>2
<1>11. \A c \in {"cta_buried", "cta_mistimed", "cta_low_visibility",
                 "cta_platform_mismatch"} : NoBetter(cs[c], ds[c])
  <2>1. \A c \in {"cta_buried", "cta_mistimed", "cta_low_visibility",
                  "cta_platform_mismatch"} : ds[c] = cs[c]
    BY DEF buildCtaClarity
  <2> HIDE DEF cs, ds
  <2> QED BY <1>3, <2>1, NoBetterThanItself
<1>12. CtaSubChecks(ctx, acquisition, answers).cta_clarity = cs
         /\ CtaSubChecks(ctx, acquisition, w).cta_clarity = ds
  BY DEF CtaSubChecks
<1> HIDE DEF cs, ds
<1> QED BY <1>2, <1>6, <1>7, <1>8, <1>9, <1>10, <1>11, <1>12 DEF NoneBetter

\* Storyline: the arc is the same, the answers are worse.
LEMMA StorylineIsMonotone ==
  ASSUME NEW ctx \in StorylineContexts, NEW arc \in Arcs,
         NEW answers \in [StorylineModelChecks -> Answers], NEW w \in WorseAnswers(answers)
  PROVE  \A m \in {"channel_readiness", "creative_effectiveness"} :
           NoneBetter(StorylineSubChecks(ctx, arc, answers)[m],
                      StorylineSubChecks(ctx, arc, w)[m])
<1>1. /\ w \in [StorylineModelChecks -> Answers]
      /\ \A c \in StorylineModelChecks : NextWorse(answers[c], w[c])
  <2>1. Verdicts \subseteq Answers BY DEF Answers
  <2> QED BY <2>1, WorseAnswer
<1>2. ASSUME NEW c \in StorylineModelChecks
      PROVE  /\ NoBetter(StorylineVerdict(c, answers), StorylineVerdict(c, w))
             /\ StorylineVerdict(c, answers) \in Verdicts
             /\ StorylineVerdict(c, w) \in Verdicts
  <2>1. StorylineMax[c] \in Failures BY DEF StorylineModelChecks, StorylineMax, Failures
  <2>2. StorylineMax[c] \in Verdicts BY <2>1 DEF Verdicts
  <2> QED BY <1>1, <2>1, <2>2, TreatmentsAreMonotone, LlmIsVerdict DEF StorylineVerdict
<1>3. StorylineModelChecks = {"hook_missing", "narrative_gap", "value_prop_unclear",
        "story_incomplete", "pacing_misallocation", "placement_mismatch"}
  BY DEF StorylineModelChecks, StorylineMax
<1>4. NoBetter(formatNoncompliant(ctx), formatNoncompliant(ctx))
  <2>1. formatNoncompliant(ctx) \in Rated
    BY DEF formatNoncompliant, StorylineContexts, Platforms, Rated, Verdicts, Failures
  <2> QED BY <2>1, NoBetterThanItself
<1>5. NoneBetter(buildChannelReadiness(ctx, arc, answers), buildChannelReadiness(ctx, arc, w))
  <2>1. NoBetter(clampSeverity(StorylineVerdict("placement_mismatch", answers), "low"),
                 clampSeverity(StorylineVerdict("placement_mismatch", w), "low"))
    <3>1. "low" \in Failures /\ "placement_mismatch" \in StorylineModelChecks
      BY <1>3 DEF Failures
    <3> QED BY <1>2, <3>1, ClampIsMonotone
  <2>2. NoBetter(StorylineVerdict("placement_mismatch", answers),
                 StorylineVerdict("placement_mismatch", w))
    BY <1>2, <1>3
  <2> QED BY <1>4, <2>1, <2>2 DEF NoneBetter, buildChannelReadiness
<1>6. NoneBetter(buildCreativeEffectiveness(ctx, arc, answers),
                 buildCreativeEffectiveness(ctx, arc, w))
  <2> DEFINE a == StorylineVerdict("story_incomplete", answers)
             b == StorylineVerdict("story_incomplete", w)
  <2>1. NoBetter(a, b) /\ a \in Verdicts /\ b \in Verdicts BY <1>2, <1>3
  <2> HIDE DEF a, b
  <2>2. NoBetter(reconcileStoryIncomplete(ctx, arc, a), reconcileStoryIncomplete(ctx, arc, b))
    <3>1. NoBetter("passed", "passed") BY NoBetterThanItself DEF Rated, Verdicts
    <3>2. a \in Failures => b \in Failures
      <4>1. severityRank[a] \in Int /\ severityRank[b] \in Int BY <2>1, Ranks DEF NoBetter
      <4> QED BY <2>1, <4>1, Ranks DEF NoBetter
    <3>3. CASE a \notin Failures /\ b \in Failures
      <4>1. a \in {"passed", "cannot_assess"} BY <2>1, <3>3 DEF Verdicts
      <4>2. NoBetter(a, "passed") BY <2>1, <4>1, RankOf DEF NoBetter, Rated, Verdicts
      <4> QED BY <2>1, <3>3, <4>2 DEF reconcileStoryIncomplete
    <3> QED BY <2>1, <3>1, <3>2, <3>3 DEF reconcileStoryIncomplete
  <2>3. \A c \in {"hook_missing", "narrative_gap", "value_prop_unclear",
                  "pacing_misallocation"} :
          NoBetter(StorylineVerdict(c, answers), StorylineVerdict(c, w))
    BY <1>2, <1>3
  <2> QED BY <2>2, <2>3 DEF NoneBetter, buildCreativeEffectiveness, a, b
<1> QED BY <1>5, <1>6 DEF StorylineSubChecks

\* Visual quality: a score is higher.
LEMMA VisualIsMonotone ==
  ASSUME NEW ctx \in VisualContexts, NEW findings \in [VisualModelChecks -> 0 .. 4],
         NEW w \in WorseScores(findings)
  PROVE  NoneBetter(VisualSubChecks(ctx, findings).production_readiness,
                    VisualSubChecks(ctx, w).production_readiness)
<1>1. \A d \in VisualModelChecks : /\ findings[d] \in 0 .. 4 /\ w[d] \in 0 .. 4
                                    /\ findings[d] <= w[d]
  BY DEF WorseScores
<1>2. \A s \in 0 .. 4 : /\ ScoreSeverity[s] \in Rated /\ severityRank[ScoreSeverity[s]] = s
  <2>1. \A s \in 0 .. 4 : s \in {0, 1, 2, 3, 4} OBVIOUS
  <2>2. /\ ScoreSeverity[0] = "passed" /\ ScoreSeverity[1] = "low"
        /\ ScoreSeverity[2] = "medium" /\ ScoreSeverity[3] = "high"
        /\ ScoreSeverity[4] = "critical"
    BY DEF ScoreSeverity
  <2> QED BY <2>1, <2>2, RankOf DEF Rated, Verdicts, Failures
<1>3. \A d \in VisualModelChecks :
        NoBetter(ScoreSeverity[findings[d]], ScoreSeverity[w[d]])
  BY <1>1, <1>2 DEF NoBetter
<1>4. /\ NoBetter(evaluateVideoCorruption(ctx), evaluateVideoCorruption(ctx))
      /\ NoBetter(evaluateDroppedFrames(ctx), evaluateDroppedFrames(ctx))
      /\ NoBetter(evaluateTextLegibility(ctx), evaluateTextLegibility(ctx))
  <2>1. evaluateVideoCorruption(ctx) \in Rated
    BY DEF evaluateVideoCorruption, VisualContexts, Rated, Verdicts, Failures
  <2>2. evaluateDroppedFrames(ctx) \in Rated
    BY DEF evaluateDroppedFrames, VisualContexts, Rated, Verdicts, Failures
  <2>3. evaluateTextLegibility(ctx) \in Rated
    BY DEF evaluateTextLegibility, Rated, Verdicts, Failures
  <2> QED BY <2>1, <2>2, <2>3, NoBetterThanItself
<1>5. NoneBetter(evaluateProductionChecks(ctx, findings), evaluateProductionChecks(ctx, w))
  BY <1>3, <1>4 DEF NoneBetter, evaluateProductionChecks, VisualModelChecks
<1> QED BY <1>5 DEF VisualSubChecks

\* Product truth: a finding scores higher, so no fault scores lower.
LEMMA TruthIsMonotone ==
  ASSUME NEW evidence \in BOOLEAN, NEW findings, NEW w, DOMAIN w = DOMAIN findings,
         \A c \in DOMAIN findings :
           /\ findings[c] \in Findings /\ w[c] \in Findings
           /\ w[c].classification = findings[c].classification
           /\ findings[c].severity <= w[c].severity
  PROVE  NoneBetter(evaluateProductTruth(evidence, findings),
                    evaluateProductTruth(evidence, w))
<1> DEFINE Of(s) == IF ~evidence THEN "cannot_assess"
                    ELSE IF s = 0 THEN "passed" ELSE ScoreVerdict[s]
<1>1. ASSUME NEW s \in 0 .. 4, NEW t \in 0 .. 4, s <= t PROVE NoBetter(Of(s), Of(t))
  <2>1. \A r \in 0 .. 4 : Of(r) \in Rated
                           /\ severityRank[Of(r)] = IF ~evidence THEN -1 ELSE r
    <3>1. \A r \in 0 .. 4 : r \in {0, 1, 2, 3, 4} OBVIOUS
    <3>2. /\ ScoreVerdict[1] = "low" /\ ScoreVerdict[2] = "medium"
          /\ ScoreVerdict[3] = "high" /\ ScoreVerdict[4] = "critical"
      BY DEF ScoreVerdict
    <3> QED BY <3>1, <3>2, RankOf DEF Rated, Verdicts, Failures
  <2> QED BY <1>1, <2>1 DEF NoBetter
<1>2. ASSUME NEW fault \in Faults
      PROVE  /\ FaultScore(findings, fault) \in 0 .. 4 /\ FaultScore(w, fault) \in 0 .. 4
             /\ FaultScore(findings, fault) <= FaultScore(w, fault)
  <2>1. /\ FaultScore(findings, fault) \in 0 .. 4
        /\ FaultScore(findings, fault) # 0 =>
             \E c \in DOMAIN findings :
               /\ findings[c].classification = fault
               /\ findings[c].severity = FaultScore(findings, fault)
    BY FaultScoreIsHighest
  <2>2. /\ FaultScore(w, fault) \in 0 .. 4
        /\ \A c \in DOMAIN w : w[c].classification = fault =>
             w[c].severity <= FaultScore(w, fault)
    BY FaultScoreIsHighest
  <2>3. CASE FaultScore(findings, fault) # 0
    <3>1. PICK c \in DOMAIN findings : /\ findings[c].classification = fault
                                       /\ findings[c].severity = FaultScore(findings, fault)
      BY <2>1, <2>3
    <3>2. w[c].severity <= FaultScore(w, fault) /\ findings[c].severity <= w[c].severity
      BY <2>2, <3>1
    <3>3. w[c].severity \in 0 .. 4 BY DEF Findings
    <3> QED BY <2>1, <2>2, <3>1, <3>2, <3>3
  <2> QED BY <2>1, <2>2, <2>3
<1>3. /\ evaluateProductTruth(evidence, findings) =
           [fault \in Faults |-> Of(FaultScore(findings, fault))]
      /\ evaluateProductTruth(evidence, w) = [fault \in Faults |-> Of(FaultScore(w, fault))]
  BY DEF evaluateProductTruth
<1> HIDE DEF Of
<1>4. \A fault \in Faults : NoBetter(Of(FaultScore(findings, fault)), Of(FaultScore(w, fault)))
  BY <1>1, <1>2
<1> QED BY <1>3, <1>4 DEF NoneBetter

\* The claims evaluator: no metric is better for a finding that is worse.
LEMMA ClaimsIsMonotone ==
  ASSUME IInv, Accepted, Returned, at = "returned", evaluator = "claims_accuracy",
         NEW w \in WorseReplies, NEW m \in DOMAIN checks
  PROVE  NoneBetter(checks[m], Assembled(w)[m])
<1>1. Over("substantiation") BY DEF WorseReplies, Accepted
<1>2. PICK v \in WorseFindings(reply["substantiation"]) :
        w = [reply EXCEPT !["substantiation"] = v]
  BY <1>1 DEF WorseReplies, Retrying
<1>3. reply["substantiation"] \in [verifiableClaims(Triage) -> FindingAnswers]
  BY <1>1 DEF Accepted
<1>4. /\ \A d \in DOMAIN reply : d # "substantiation" => w[d] = reply[d]
      /\ "substantiation" \in DOMAIN w /\ w["substantiation"] = v
  BY <1>1, <1>2 DEF Over
<1> DEFINE found(r) == IF r.covered THEN r.finding
                       ELSE [classification |-> "unsupported", severity |-> 2]
<1>5. Substantiated(reply) = [d \in verifiableClaims(Triage) |-> found(reply["substantiation"][d])]
  BY <1>1 DEF Over, Substantiated, processSubstantiationResponse
<1>6. Substantiated(w) = [d \in verifiableClaims(Triage) |-> found(v[d])]
  BY <1>1, <1>4 DEF Over, Substantiated, processSubstantiationResponse
<1>7. ASSUME NEW d \in verifiableClaims(Triage)
      PROVE  /\ found(reply["substantiation"][d]) \in Findings
             /\ found(v[d]) \in Findings
             /\ found(v[d]).classification = found(reply["substantiation"][d]).classification
             /\ found(reply["substantiation"][d]).severity <= found(v[d]).severity
  <2>1. found(reply["substantiation"][d]) \in Findings
    <3>1. Substantiated(reply)[d] \in Findings BY <1>1, SubstantiatedFindings
    <3> QED BY <1>5, <3>1
  <2>2. PICK c \in verifiableClaims(Triage) :
          /\ reply["substantiation"][c].covered
          /\ reply["substantiation"][c].finding.severity < 4
          /\ v = [reply["substantiation"] EXCEPT ![c].finding.severity = @ + 1]
    BY <1>3 DEF WorseFindings
  <2>3. CASE d = c
    <3> DEFINE f == reply["substantiation"][c].finding
    <3>1. reply["substantiation"][c] \in [covered : {TRUE}, finding : Findings]
      <4>1. reply["substantiation"][c] \in FindingAnswers BY <1>3
      <4> QED BY <2>2, <4>1 DEF FindingAnswers
    <3>2. v[c] = [reply["substantiation"][c] EXCEPT !.finding.severity = @ + 1]
      BY <1>3, <2>2
    <3>3. v[c].covered /\ v[c].finding = [f EXCEPT !.severity = @ + 1]
      BY <2>2, <3>1, <3>2
    <3>4. /\ found(v[c]) = [f EXCEPT !.severity = @ + 1]
          /\ found(reply["substantiation"][c]) = f
          /\ f.severity < 4 /\ f \in Findings
      BY <2>2, <3>1, <3>3
    <3> HIDE DEF found, f
    <3>5. /\ [f EXCEPT !.severity = @ + 1] \in Findings
          /\ [f EXCEPT !.severity = @ + 1].classification = f.classification
          /\ f.severity <= [f EXCEPT !.severity = @ + 1].severity
      BY <3>4 DEF Findings
    <3> QED BY <2>1, <2>3, <3>4, <3>5
  <2>4. CASE d # c
    <3>1. v[d] = reply["substantiation"][d] BY <1>3, <2>2, <2>4
    <3>2. found(reply["substantiation"][d]).severity \in 0 .. 4 BY <2>1 DEF Findings
    <3> HIDE DEF found
    <3> QED BY <2>1, <3>1, <3>2
  <2> QED BY <2>3, <2>4
<1> HIDE DEF found
<1>8. NoneBetter(evaluateProductTruth(context.evidence, Substantiated(reply)),
                 evaluateProductTruth(context.evidence, Substantiated(w)))
  <2>1. context.evidence \in BOOLEAN BY DEF IInv, TypeOK, ContextsOf, ClaimsContexts
  <2> QED BY <1>5, <1>6, <1>7, <2>1, TruthIsMonotone
<1>9. /\ checks = ClaimsSubChecks(context, Substantiated(reply), reply["policy"])
      /\ Assembled(w) = ClaimsSubChecks(context, Substantiated(w), w["policy"])
  BY DEF Returned, Assembled
<1>10. w["policy"] = reply["policy"]
  <2>1. "policy" \in DOMAIN reply BY <1>1 DEF Returned, Awaited, Accepted, Over
  <2> QED BY <1>4, <2>1
<1>11. NoneBetter(evaluatePolicyCompliance(reply["policy"]),
                  evaluatePolicyCompliance(reply["policy"]))
  <2>1. WellFormed(evaluatePolicyCompliance(reply["policy"]))
    <3>1. WellFormed(checks["policy_compliance"])
      BY DEF IInv, TypeOK, MetricsOf
    <3> QED BY <1>9, <3>1 DEF ClaimsSubChecks
  <2> QED BY <2>1, NoBetterThanItself DEF NoneBetter, WellFormed, Rated
<1> QED BY <1>8, <1>9, <1>10, <1>11 DEF ClaimsSubChecks

\* The evaluators that degrade, and the visual one: from their reply to their checks.
LEMMA JudgedIsMonotone ==
  ASSUME IInv, Accepted, Returned, at = "returned", evaluator # "claims_accuracy",
         NEW w \in WorseReplies, NEW m \in DOMAIN checks
  PROVE  NoneBetter(checks[m], Assembled(w)[m])
<1>0. Awaited = {} /\ checks = Assembled(reply) BY DEF Returned
<1>1. CASE evaluator = "brief_alignment"
  <2>1. "judgment" \in DOMAIN reply BY <1>0, <1>1 DEF Awaited
  <2>2. reply["judgment"] \in [BriefModelChecks -> Answers]
    BY <1>1, <2>1, EvaluatorNames DEF IInv, RepliesOf, ModelChecks
  <2>3. PICK a \in WorseAnswers(reply["judgment"]) : w = [reply EXCEPT !["judgment"] = a]
    BY <1>1, <2>1 DEF WorseReplies, Over, Retrying
  <2>4. w["judgment"] = a BY <2>1, <2>3
  <2>5. /\ checks = BriefSubChecks(context, reply["judgment"])
        /\ Assembled(w) = BriefSubChecks(context, a)
    BY <1>0, <1>1, <2>4 DEF Assembled
  <2>6. m \in DOMAIN BriefChecks BY <2>5 DEF BriefSubChecks
  <2> QED BY <2>2, <2>5, <2>6, BriefIsMonotone
<1>2. CASE evaluator = "product_representation"
  <2>1. "judgment" \in DOMAIN reply BY <1>0, <1>2 DEF Awaited
  <2>2. reply["judgment"] \in [ProductModelChecks -> Answers]
    BY <1>2, <2>1, EvaluatorNames DEF IInv, RepliesOf, ModelChecks
  <2>3. PICK a \in WorseAnswers(reply["judgment"]) : w = [reply EXCEPT !["judgment"] = a]
    BY <1>2, <2>1 DEF WorseReplies, Over, Retrying
  <2>4. w["judgment"] = a BY <2>1, <2>3
  <2>5. /\ checks = ProductSubChecks(context, reply["judgment"])
        /\ Assembled(w) = ProductSubChecks(context, a)
    BY <1>0, <1>2, <2>4 DEF Assembled
  <2>6. m = "product_clarity" BY <2>5 DEF ProductSubChecks
  <2> QED BY <2>2, <2>5, <2>6, ProductIsMonotone
<1>3. CASE evaluator = "brand_alignment"
  <2>1. Over("judgment") BY <1>3 DEF WorseReplies, Retrying
  <2>2. reply["judgment"] \in [BrandModelChecks -> Answers \ {"missing"}]
    BY <1>3, <2>1, EvaluatorNames DEF IInv, RepliesOf, Over
  <2>3. PICK a \in WorseAnswers(reply["judgment"]) : w = [reply EXCEPT !["judgment"] = a]
    BY <1>3, <2>1 DEF WorseReplies, Retrying
  <2>4. w["judgment"] = a BY <2>1, <2>3 DEF Over
  <2>5. context \in BrandContexts BY <1>3 DEF IInv, TypeOK, ContextsOf
  <2>6. CASE BrandAsksModel(context)
    <3>1. /\ checks = BrandSubChecks(context, reply["judgment"])
          /\ Assembled(w) = BrandSubChecks(context, a)
      BY <1>0, <1>3, <2>4, <2>6 DEF Assembled
    <3>2. m = "brand_fit" BY <3>1 DEF BrandSubChecks
    <3> QED BY <2>2, <2>5, <3>1, <3>2, BrandIsMonotone
  <2>7. CASE ~BrandAsksModel(context)
    <3>1. Assembled(w) = checks BY <1>0, <1>3, <2>7 DEF Assembled
    <3>2. WellFormed(checks[m]) BY DEF IInv, TypeOK
    <3> QED BY <3>1, <3>2, NoBetterThanItself DEF NoneBetter, WellFormed, Rated
  <2> QED BY <2>6, <2>7
<1>4. CASE evaluator = "cta_effectiveness"
  <2>1. {"acquisition", "evaluation"} \subseteq DOMAIN reply BY <1>0, <1>4 DEF Awaited, Over
  <2>2. /\ reply["acquisition"] \in Acquisitions
        /\ reply["evaluation"] \in [CtaModelChecks -> Answers]
    BY <1>4, <2>1, EvaluatorNames DEF IInv, RepliesOf, ModelChecks
  <2>3. PICK a \in WorseAnswers(reply["evaluation"]) : w = [reply EXCEPT !["evaluation"] = a]
    BY <1>4 DEF WorseReplies
  <2>4. w["evaluation"] = a /\ w["acquisition"] = reply["acquisition"] BY <2>1, <2>3
  <2>5. /\ checks = CtaSubChecks(context, reply["acquisition"], reply["evaluation"])
        /\ Assembled(w) = CtaSubChecks(context, reply["acquisition"], a)
    BY <1>0, <1>4, <2>4 DEF Assembled
  <2>6. m = "cta_clarity" BY <2>5 DEF CtaSubChecks
  <2>7. context \in CtaContexts BY <1>4 DEF IInv, TypeOK, ContextsOf
  <2> QED BY <2>2, <2>5, <2>6, <2>7, CtaIsMonotone
<1>5. CASE evaluator = "storyline_clarity"
  <2>1. /\ context \in StorylineContexts
        /\ "judgment" \in DOMAIN reply
        /\ reply["judgment"].arc \in Arcs
        /\ reply["judgment"].answers \in [StorylineModelChecks -> Answers]
        /\ checks = StorylineSubChecks(context, reply["judgment"].arc,
                                       reply["judgment"].answers)
    BY <1>5, StorylineReply
  <2>2. PICK a \in WorseAnswers(reply["judgment"].answers) :
          w = [reply EXCEPT !["judgment"].answers = a]
    BY <1>5 DEF WorseReplies
  <2>3. reply["judgment"] \in [arc : Arcs, answers : [StorylineModelChecks -> Answers]]
    BY <1>5, <2>1, EvaluatorNames DEF IInv, RepliesOf
  <2>4. w["judgment"] = [reply["judgment"] EXCEPT !.answers = a] BY <2>1, <2>2
  <2>5. w["judgment"].arc = reply["judgment"].arc /\ w["judgment"].answers = a
    BY <2>3, <2>4
  <2>6. Assembled(w) = StorylineSubChecks(context, reply["judgment"].arc, a)
    BY <1>5, <2>5 DEF Assembled
  <2>7. m \in {"channel_readiness", "creative_effectiveness"}
    BY <2>1 DEF StorylineSubChecks
  <2> QED BY <2>1, <2>6, <2>7, StorylineIsMonotone
<1>6. CASE evaluator = "visual_quality"
  <2>1. "judgment" \in DOMAIN reply BY <1>0, <1>6 DEF Awaited
  <2>2. reply["judgment"] \in [VisualModelChecks -> 0 .. 4] BY <1>6, <2>1 DEF Accepted
  <2>3. PICK v \in WorseScores(reply["judgment"]) : w = [reply EXCEPT !["judgment"] = v]
    BY <1>6 DEF WorseReplies, Retrying
  <2>4. w["judgment"] = v BY <2>1, <2>3
  <2>5. /\ checks = VisualSubChecks(context, reply["judgment"])
        /\ Assembled(w) = VisualSubChecks(context, v)
    BY <1>0, <1>6, <2>4 DEF Assembled
  <2>6. m = "production_readiness" BY <2>5 DEF VisualSubChecks
  <2>7. context \in VisualContexts BY <1>6 DEF IInv, TypeOK, ContextsOf
  <2> QED BY <2>2, <2>3, <2>5, <2>6, <2>7, VisualIsMonotone
<1>7. evaluator \in Evaluators BY DEF IInv, TypeOK
<1> QED BY <1>1, <1>2, <1>3, <1>4, <1>5, <1>6, <1>7, EvaluatorNames

\* Had the model found one thing one step worse, no metric would come out better:
\* whatever the inputs, through the caps, the reconciliation of the story, the clamps
\* of sparse input and the rollup.
THEOREM WorseIsNoBetter == Spec => []WorseAnswersNeverHelp
<1>1. ASSUME IInv, Accepted, Returned PROVE WorseAnswersNeverHelp
  <2> SUFFICES ASSUME at = "returned", NEW w \in WorseReplies, NEW m \in DOMAIN checks
               PROVE  severityRank[Shown(m)] <= severityRank[rollupChecks(Assembled(w)[m])]
    BY DEF WorseAnswersNeverHelp
  <2>1. NoneBetter(checks[m], Assembled(w)[m]) BY <1>1, ClaimsIsMonotone, JudgedIsMonotone
  <2> QED BY <2>1, RollupIsMonotone DEF Shown, NoneBetter, NoBetter
<1> QED BY <1>1, ReturnedInvariant, PTL
=============================================================================
