-------------------------- MODULE EvaluatorPipeline --------------------------
(***************************************************************************)
(* One invocation of one evaluator, from the claim of its run to the       *)
(* metric results it returns to the run's lifecycle: the model calls in    *)
(* their order, what a call that fails or a reply that cannot be parsed    *)
(* does to the rest of the invocation, the sub-checks that are assembled   *)
(* from what was answered, and the validation that may refuse them.        *)
(*                                                                         *)
(* The visual and the claims evaluator ask up to three times for a reply   *)
(* they can parse and throw if a call fails.  The other five degrade: what *)
(* was not answered is judged as missing.                                  *)
(***************************************************************************)
EXTENDS CtaEvaluator, StorylineEvaluator, GuidedEvaluators, VisualEvaluator,
        ClaimsEvaluator

CONSTANTS
  Contexts(_),     \* Contexts(e): inputs of reviews that evaluator e may find
  Replies(_, _, _) \* Replies(e, c, cs): replies of call c that e can parse; cs are
                   \* the claims that the call is about

MetricsOf ==
  [brief_alignment        |-> {"brief_adherence", "audience_fit"},
   product_representation |-> {"product_clarity"},
   brand_alignment        |-> {"brand_fit"},
   cta_effectiveness      |-> {"cta_clarity"},
   storyline_clarity      |-> {"channel_readiness", "creative_effectiveness"},
   visual_quality         |-> {"production_readiness"},
   claims_accuracy        |-> {"product_truth", "policy_compliance"}]

Evaluators  == DOMAIN MetricsOf
Retrying    == {"visual_quality", "claims_accuracy"}
MaxAttempts == 3

Calls == {"judgment", "acquisition", "evaluation",
          "extraction", "triage", "substantiation", "policy"}

\* Every check that the model of an evaluator with one call judges.
ModelChecks(e) ==
  CASE e = "brief_alignment"        -> BriefModelChecks
    [] e = "product_representation" -> ProductModelChecks
    [] e = "brand_alignment"        -> BrandModelChecks
    [] e = "storyline_clarity"      -> StorylineModelChecks
    [] e = "visual_quality"         -> VisualModelChecks
    [] OTHER                        -> CtaModelChecks

ContextsOf(e) ==
  CASE e = "brief_alignment"        -> BriefContexts
    [] e = "product_representation" -> ProductContexts
    [] e = "brand_alignment"        -> BrandContexts
    [] e = "cta_effectiveness"      -> CtaContexts
    [] e = "storyline_clarity"      -> StorylineContexts
    [] e = "visual_quality"         -> VisualContexts
    [] e = "claims_accuracy"        -> ClaimsContexts

\* A brand reply that can be parsed judges both checks; a storyline reply carries
\* the labelled arc with its answers.
RepliesOf(e, c, cs) ==
  CASE c = "acquisition"    -> Acquisitions
    [] c = "extraction"     -> Extractions
    [] c = "triage"         -> [cs -> TriageAnswers]
    [] c = "substantiation" -> [cs -> FindingAnswers]
    [] c = "policy"         -> Policies
    [] c = "judgment" /\ e = "storyline_clarity" ->
         [arc : Arcs, answers : [StorylineModelChecks -> Answers]]
    [] c = "judgment" /\ e = "visual_quality"  -> [VisualModelChecks -> 0 .. 4]
    [] c = "judgment" /\ e = "brand_alignment" ->
         [BrandModelChecks -> Answers \ {"missing"}]
    [] OTHER -> [ModelChecks(e) -> Answers]

ASSUME PipelineAssumption ==
  \A e \in Evaluators :
    /\ \A x \in Contexts(e) : x \in ContextsOf(e)
    /\ \A c \in Calls, cs \in SUBSET Claims :
         \A r \in Replies(e, c, cs) : r \in RepliesOf(e, c, cs)

VARIABLES
  evaluator, \* whose invocation this is
  context,   \* the inputs of the review that it loaded
  reply,     \* the replies so far: a function on the calls that are over
  tries,     \* tries[c]: replies of call c that could not be parsed
  at,        \* "running", "returned" or "thrown"
  checks     \* the sub-checks returned, by metric

vars == <<evaluator, context, reply, tries, at, checks>>

Nothing == [c \in {} |-> "none"]

Init ==
  /\ evaluator \in Evaluators
  /\ context \in Contexts(evaluator)
  /\ reply = Nothing
  /\ tries = [c \in Calls |-> 0]
  /\ at = "running"
  /\ checks = Nothing

-----------------------------------------------------------------------------
(* Which calls are awaited.  The two last calls of the claims evaluator    *)
(* run side by side.                                                       *)

Over(c) == c \in DOMAIN reply

\* The claims that are left of the extraction.
Candidates == IF Over("extraction") THEN processExtractionResponse(reply["extraction"])
              ELSE {}

Triage == IF Over("triage") THEN processTriageResponse(Candidates, reply["triage"])
          ELSE Nothing

Awaited ==
  CASE evaluator = "claims_accuracy" ->
         IF context.evidence /\ ~Over("extraction") THEN {"extraction"}
         ELSE IF Candidates # {} /\ ~Over("triage") THEN {"triage"}
         ELSE ({"policy"} \cup (IF verifiableClaims(Triage) = {} THEN {}
                                ELSE {"substantiation"})) \ DOMAIN reply
    [] evaluator = "cta_effectiveness" ->
         IF ~Over("acquisition") THEN {"acquisition"} ELSE {"evaluation"} \ DOMAIN reply
    [] evaluator = "brand_alignment" /\ ~BrandAsksModel(context) -> {}
    [] OTHER -> {"judgment"} \ DOMAIN reply

\* The claims that call c is about.
Subject(c) ==
  CASE c = "triage"         -> Candidates
    [] c = "substantiation" -> verifiableClaims(Triage)
    [] OTHER                -> {}

-----------------------------------------------------------------------------
(* The model calls.                                                        *)

Learn(c, r) == reply' = [d \in DOMAIN reply \cup {c} |-> IF d = c THEN r ELSE reply[d]]

\* The reply can be parsed.
Reply(c) ==
  /\ at = "running" /\ c \in Awaited
  /\ \E r \in Replies(evaluator, c, Subject(c)) : Learn(c, r)
  /\ tries' = [tries EXCEPT ![c] = 0]
  /\ UNCHANGED <<evaluator, context, at, checks>>

Silence(e) == [c \in ModelChecks(e) |-> "missing"]

\* What stands for a reply that is not there.
Unusable(c) ==
  CASE c = "acquisition" -> NoAcquisition
    [] c = "judgment" /\ evaluator = "storyline_clarity" ->
         [arc |-> NoArc, answers |-> Silence(evaluator)]
    [] c = "judgment" /\ evaluator = "brand_alignment" -> NoBrandAnswers
    [] OTHER -> Silence(evaluator)

\* The reply cannot be parsed, and the evaluator does without it.
GarbledIgnored(c) ==
  /\ at = "running" /\ c \in Awaited /\ evaluator \notin Retrying
  /\ Learn(c, Unusable(c))
  /\ UNCHANGED <<evaluator, context, tries, at, checks>>

\* Mutant: the third reply that cannot be parsed starts over.
GarbledRetried_StartsOver(c) ==
  /\ at = "running" /\ c \in Awaited /\ evaluator \in Retrying
  /\ tries' = [tries EXCEPT ![c] = (@ + 1) % MaxAttempts]
  /\ UNCHANGED <<evaluator, context, reply, at, checks>>

\* The reply cannot be parsed, and the model is told so; the third one throws.
GarbledRetried(c) ==
  /\ at = "running" /\ c \in Awaited /\ evaluator \in Retrying
  /\ IF tries[c] + 1 < MaxAttempts
     THEN tries' = [tries EXCEPT ![c] = @ + 1] /\ at' = at
     ELSE tries' = tries /\ at' = "thrown"
  /\ UNCHANGED <<evaluator, context, reply, checks>>

\* The call itself fails, and no call is made after it in the same block.
ProviderFailsQuietly(c) ==
  /\ at = "running" /\ c \in Awaited /\ evaluator \notin Retrying
  /\ reply' = [d \in DOMAIN reply \cup {c} \cup
                       (IF c = "acquisition" THEN {"evaluation"} ELSE {}) |->
                 IF d \in DOMAIN reply THEN reply[d] ELSE Unusable(d)]
  /\ UNCHANGED <<evaluator, context, tries, at, checks>>

\* The call itself fails: the retry is for replies only.
ProviderFails(c) ==
  /\ at = "running" /\ c \in Awaited /\ evaluator \in Retrying
  /\ at' = "thrown"
  /\ UNCHANGED <<evaluator, context, reply, tries, checks>>

-----------------------------------------------------------------------------
(* The results.                                                            *)

Substantiated(answered) ==
  IF "substantiation" \notin DOMAIN answered THEN Nothing
  ELSE processSubstantiationResponse(verifiableClaims(Triage), answered["substantiation"])

\* What evaluator returns for these replies.
Assembled(answered) ==
  CASE evaluator = "brief_alignment"        -> BriefSubChecks(context, answered["judgment"])
    [] evaluator = "product_representation" -> ProductSubChecks(context, answered["judgment"])
    [] evaluator = "brand_alignment" ->
         BrandSubChecks(context, IF BrandAsksModel(context) THEN answered["judgment"]
                                 ELSE NoBrandAnswers)
    [] evaluator = "cta_effectiveness" ->
         CtaSubChecks(context, answered["acquisition"], answered["evaluation"])
    [] evaluator = "storyline_clarity" ->
         StorylineSubChecks(context, answered["judgment"].arc, answered["judgment"].answers)
    [] evaluator = "visual_quality" -> VisualSubChecks(context, answered["judgment"])
    [] evaluator = "claims_accuracy" ->
         ClaimsSubChecks(context, Substantiated(answered), answered["policy"])

\* validateMetricResults lets the results pass, or throws.
Finish ==
  /\ at = "running" /\ Awaited = {}
  /\ LET results == Assembled(reply) IN
     IF \A m \in DOMAIN results : WellFormed(results[m])
     THEN at' = "returned" /\ checks' = results
     ELSE at' = "thrown" /\ checks' = checks
  /\ UNCHANGED <<evaluator, context, reply, tries>>

Next ==
  \/ \E c \in Calls : \/ Reply(c)
                      \/ GarbledIgnored(c)
                      \/ GarbledRetried(c)
                      \/ ProviderFailsQuietly(c)
                      \/ ProviderFails(c)
  \/ Finish

Spec == Init /\ [][Next]_vars

\* A call is answered or fails, and the handler that awaits it goes on.
FairSpec == Spec /\ WF_vars(Next)

-----------------------------------------------------------------------------
(* Properties.                                                             *)

\* Types: a reply that is over is one that can be parsed or what stands for one;
\* results are verdicts of the evaluator's own metrics.
TypeOK ==
  /\ evaluator \in Evaluators
  /\ context \in ContextsOf(evaluator)
  /\ DOMAIN reply \subseteq Calls
  /\ tries \in [Calls -> 0 .. MaxAttempts - 1]
  /\ at \in {"running", "returned", "thrown"}
  /\ at = "returned" =>
       /\ DOMAIN checks = MetricsOf[evaluator]
       /\ \A m \in DOMAIN checks : WellFormed(checks[m])
  /\ at # "returned" => checks = Nothing

\* An evaluator that degrades (runCtaAgent and the four others catch a failing
\* call and a reply they cannot parse) is never thrown out by its own results:
\* whatever the model answers, validateMetricResults accepts them.
DegradingReturns == evaluator \notin Retrying => at # "thrown"

\* What the metric m shows.
Shown(m) == rollupChecks(checks[m])

\* Nothing that a model said counts.
Silent == \A c \in DOMAIN reply : reply[c] = Unusable(c)

\* Inputs of a review that leave nothing to judge by.
Bare ==
  CASE evaluator = "brief_alignment" ->
         ~context.rawBrief /\ ~context.goal /\ ~context.requiredMessages
           /\ ~context.targetAudience
    [] evaluator = "product_representation" ->
         ~context.productFrames /\ ~context.visualFrames /\ ~context.productPage
           /\ ~context.transcript /\ ~context.ocr
    [] evaluator = "brand_alignment" -> ~BrandAsksModel(context)
    [] OTHER -> FALSE

Measured == {"format_noncompliant", "logo_absent"}

\* An evaluator that degrades does not approve what nobody looked at: with no
\* usable reply, or with no input to judge by, a metric passes only on a check
\* that the code measured itself.  The call-to-action metric is left out: its
\* arithmetic on the calls to action that were found passes if none was looked for.
AbstainsWithoutEvidence ==
  (at = "returned" /\ evaluator \notin Retrying \cup {"cta_effectiveness"}
      /\ (Silent \/ Bare)) =>
    \A m \in DOMAIN checks :
      Judged(Shown(m)) =>
        \E c \in DOMAIN checks[m] : c \in Measured /\ Judged(checks[m][c])

\* The claims that the extraction named, those it could not place in the ad included.
NamedClaims == IF Over("extraction") THEN DOMAIN reply["extraction"] ELSE {}

\* A creative whose product truth passes had its claims examined: each claim that the
\* extraction named was answered by the substantiation and found without fault, unless
\* it is one of three kinds that nobody examines.  None of its segments is one of the
\* ad (claims-agent/checks.ts:247), triage calls it puffery, or calls it verifiable and
\* gives it no category (claims-agent/agent.ts:27).
ClaimsAreExamined ==
  (at = "returned" /\ evaluator = "claims_accuracy" /\ Shown("product_truth") = "passed") =>
    \A c \in NamedClaims :
      \/ ~reply["extraction"][c]
      \/ reply["triage"][c] \in {"puffery", "uncategorised"}
      \/ /\ reply["substantiation"][c].covered
         /\ \/ reply["substantiation"][c].finding.classification = "none"
            \/ reply["substantiation"][c].finding.severity = 0

\* The next worse answer.
Worse == [passed |-> "low", low |-> "medium", medium |-> "high", high |-> "critical"]

WorseAnswers(answers) ==
  {[answers EXCEPT ![c] = Worse[@]] :
     c \in {d \in DOMAIN answers : answers[d] \in DOMAIN Worse}}

\* The same of scores, and of the severities of what the substantiation covered.
WorseScores(scores) ==
  {[scores EXCEPT ![c] = @ + 1] : c \in {d \in DOMAIN scores : scores[d] < 4}}

WorseFindings(found) ==
  {[found EXCEPT ![c].finding.severity = @ + 1] :
     c \in {d \in DOMAIN found : found[d].covered /\ found[d].finding.severity < 4}}

\* The replies in which the model finds one thing one step worse.
WorseReplies ==
  CASE evaluator = "cta_effectiveness" ->
         {[reply EXCEPT !["evaluation"] = w] : w \in WorseAnswers(reply["evaluation"])}
    [] evaluator = "storyline_clarity" ->
         {[reply EXCEPT !["judgment"].answers = w] :
            w \in WorseAnswers(reply["judgment"].answers)}
    [] evaluator = "visual_quality" ->
         {[reply EXCEPT !["judgment"] = w] : w \in WorseScores(reply["judgment"])}
    [] evaluator = "claims_accuracy" /\ Over("substantiation") ->
         {[reply EXCEPT !["substantiation"] = w] :
            w \in WorseFindings(reply["substantiation"])}
    [] evaluator \notin Retrying \cup {"cta_effectiveness", "storyline_clarity"}
         /\ Over("judgment") ->
         {[reply EXCEPT !["judgment"] = w] : w \in WorseAnswers(reply["judgment"])}
    [] OTHER -> {}

\* Caps, reconciliation, sparse-input clamps and the rollup are monotone: had the
\* model found one thing one step worse, no metric would come out better.
WorseAnswersNeverHelp ==
  at = "returned" =>
    \A w \in WorseReplies : \A m \in DOMAIN checks :
      severityRank[Shown(m)] <= severityRank[rollupChecks(Assembled(w)[m])]

\* A storyline read from too few frames, or from an arc that the model is not sure
\* of, is neither condemned nor acquitted by it: the channel fails above low only
\* by its measured format, and a failed story is not passed by the arc.
SparseInputIsGentle ==
  (at = "returned" /\ evaluator = "storyline_clarity"
     /\ (\/ ~reply["judgment"].arc.usable
         \/ ~reply["judgment"].arc.confident
         \/ context.frames * SecondsPerFrame < context.duration)) =>
    /\ Shown("channel_readiness") \in {"medium", "high", "critical"} =>
         Shown("channel_readiness") = checks["channel_readiness"]["format_noncompliant"]
    /\ reply["judgment"].answers["story_incomplete"] \in Failures =>
         checks["creative_effectiveness"]["story_incomplete"] \in Failures

\* A review is never left with an evaluator that goes on asking: the three
\* attempts, the one pass of the others and the validation bound every run.
EveryRunEnds == <>(at # "running")
=============================================================================
