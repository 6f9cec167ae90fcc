------------------------- MODULE StorylineEvaluator -------------------------
(***************************************************************************)
(* The two metrics of the storyline evaluator, from the review's inputs    *)
(* and the reply of its one model call: the arc it labelled and what it    *)
(* said of each sub-check.  Times are in seconds.                          *)
(***************************************************************************)
EXTENDS SubChecks

\* The severity that a judgment of the model may have at most.
StorylineMax ==
  [hook_missing |-> "critical", narrative_gap |-> "high",
   value_prop_unclear |-> "medium", story_incomplete |-> "medium",
   pacing_misallocation |-> "medium", placement_mismatch |-> "high"]

StorylineModelChecks == DOMAIN StorylineMax
ArcRoles == {"hook", "problem", "solution", "proof", "payoff", "cta", "detour"}

\* The optimal and the hard limit of a known platform's running time are
\* constants of the platform; the specifications differ in nothing else.
Platforms == [optimal : Nat, max : Nat]
StorylineContexts == [platformKnown : BOOLEAN, platform : Platforms,
                      corrupt : BOOLEAN, shapeFits : BOOLEAN,
                      duration : Nat, frames : Nat]
Arcs == [usable : BOOLEAN, confident : BOOLEAN, roles : SUBSET ArcRoles,
         payoffResolved : BOOLEAN]
NoArc == [usable |-> FALSE, confident |-> FALSE, roles |-> {}, payoffResolved |-> FALSE]

-----------------------------------------------------------------------------
(* Format.                                                                 *)

formatNoncompliant(ctx) ==
  IF ~ctx.platformKnown THEN "cannot_assess"
  ELSE CASE ctx.corrupt -> "critical"
         [] ~ctx.corrupt /\ ~ctx.shapeFits -> "high"
         [] ~ctx.corrupt /\ ctx.shapeFits ->
              IF ctx.duration > ctx.platform.max THEN "medium"
              ELSE IF ctx.duration > ctx.platform.optimal THEN "low" ELSE "passed"

-----------------------------------------------------------------------------
(* How much the analysis and its arc can be trusted.                       *)

SecondsPerFrame == 5

\* Mutant: only the arc counts, however few frames were analysed.
isSparseAnalysis_ArcOnly(ctx, arc) == ~arc.usable \/ ~arc.confident

isSparseAnalysis(ctx, arc) ==
  ~arc.usable \/ ~arc.confident \/ ctx.frames * SecondsPerFrame < ctx.duration

expectedRoles(duration) ==
  IF duration <= 20 THEN {"hook", "payoff"} ELSE {"hook", "problem", "payoff"}

expectPayoffResolved(duration) == duration <= 45

arcSatisfiesExpectation(duration, arc) ==
  /\ arc.usable
  /\ expectedRoles(duration) \subseteq arc.roles
  /\ expectPayoffResolved(duration) => arc.payoffResolved

\* A failure that the labelled arc refutes is a pass.
reconcileStoryIncomplete(ctx, arc, story) ==
  IF /\ story \in Failures
     /\ ~isSparseAnalysis(ctx, arc)
     /\ arcSatisfiesExpectation(ctx.duration, arc)
  THEN "passed" ELSE story

-----------------------------------------------------------------------------
(* The sub-checks of the two metrics.                                      *)

StorylineVerdict(c, answers) == fromLlmSubCheck(answers[c], StorylineMax[c])

buildChannelReadiness(ctx, arc, answers) ==
  LET placement == StorylineVerdict("placement_mismatch", answers) IN
  [format_noncompliant |-> formatNoncompliant(ctx),
   placement_mismatch  |-> IF isSparseAnalysis(ctx, arc)
                           THEN clampSeverity(placement, "low") ELSE placement]

buildCreativeEffectiveness(ctx, arc, answers) ==
  [hook_missing         |-> StorylineVerdict("hook_missing", answers),
   narrative_gap        |-> StorylineVerdict("narrative_gap", answers),
   value_prop_unclear   |-> StorylineVerdict("value_prop_unclear", answers),
   story_incomplete     |-> reconcileStoryIncomplete(ctx, arc,
                              StorylineVerdict("story_incomplete", answers)),
   pacing_misallocation |-> StorylineVerdict("pacing_misallocation", answers)]

StorylineSubChecks(ctx, arc, answers) ==
  [channel_readiness      |-> buildChannelReadiness(ctx, arc, answers),
   creative_effectiveness |-> buildCreativeEffectiveness(ctx, arc, answers)]
=============================================================================
