-------------------------- MODULE ResultPageProofs --------------------------
(* Proofs about ResultPage, for any batches, creatives, judgments, numbers *)
(* of overlapping requests and of runs of the effect: the types, whose     *)
(* results are shown, that no creative is missing among them, and what the *)
(* scores, the verdict and the issues of each have to do with one another. *)
EXTENDS ResultPage, FiniteSetTheorems, TLAPS

PollType == [at : {"idle", "listed", "ready"}, batch : Tags, seen : Seen]
LoadType == [at : {"idle", "reading"}, batch : Tags, early : BOOLEAN,
             listed : SUBSET Creatives, got : Answers, unread : SUBSET Reads]
HeldType == [batch : Tags, early : BOOLEAN, error : BOOLEAN,
             listed : SUBSET Creatives, got : Answers]

\* What is empty has the type of what is not.
LEMMA EmptyTypes ==
  /\ NoPoll \in PollType /\ NoProgress \in [batch : Tags, seen : Seen]
  /\ NoLoad \in LoadType /\ NoResults \in HeldType /\ NoRows \in Answers
  /\ NoPolls \in [Polls -> PollType] /\ NoLoads \in [Loads -> LoadType]
<1>1. Nothing \in Seen
  <2>1. Nothing \in [{} -> Marks]
    BY DEF Nothing
  <2> QED BY <2>1 DEF Seen
<1>2. NoRows \in Answers
  BY DEF NoRows, Answers
<1>3. NoPoll \in PollType /\ NoProgress \in [batch : Tags, seen : Seen]
  BY <1>1 DEF NoPoll, NoProgress, PollType, Tags
<1>4. NoLoad \in LoadType
  BY <1>2 DEF NoLoad, LoadType, Tags
<1>5. NoResults \in HeldType
  BY <1>2 DEF NoResults, HeldType, Tags
<1> QED BY <1>2, <1>3, <1>4, <1>5 DEF NoPolls, NoLoads

\* A request as it is sent.
LEMMA AskType ==
  ASSUME NEW b \in Batches, TypeOK
  PROVE  Ask(b) \in PollType /\ Ask(b).batch = b
<1> DEFINE seen == [c \in Listed(b) |-> RowStatus(c)]
<1>1. seen \in [Listed(b) -> Marks]
  BY DEF RowStatus, Marks
<1>2. Listed(b) \subseteq Creatives
  BY DEF Listed, Of
<1>3. seen \in Seen
  BY <1>1, <1>2 DEF Seen
<1> QED BY <1>3 DEF Ask, PollType, Tags

\* A request for results as it is sent.
LEMMA RequestType ==
  ASSUME NEW b \in Batches, NEW early \in BOOLEAN, TypeOK
  PROVE  Request(b, early) \in LoadType
BY EmptyTypes DEF Request, LoadType, Tags, Listed, Of

\* The polling effect keeps the types, and what it sends is for its batch.
LEMMA EffectTypes ==
  ASSUME NEW b \in Batches, TypeOK, RunEffect(b)
  PROVE  /\ effect' \in Nat /\ timer' = "first"
         /\ late' \in BOOLEAN /\ timedOut' \in BOOLEAN /\ overtaken' \in BOOLEAN
         /\ failures' = 0 /\ progress' = NoProgress
         /\ polls' \in [Polls -> PollType]
         /\ \A p \in Polls : polls'[p].at # "idle" => polls'[p].batch = b
<1>1. PICK p \in Free(NoPolls) : polls' = [NoPolls EXCEPT ![p] = Ask(b)]
  BY DEF RunEffect
<1>2. polls' \in [Polls -> PollType]
  BY <1>1, EmptyTypes, AskType
<1>3. \A q \in Polls : polls'[q].at # "idle" => polls'[q].batch = b
  BY <1>1, AskType DEF NoPolls, NoPoll
<1>4. effect' \in Nat
  BY DEF RunEffect, TypeOK
<1> QED BY <1>2, <1>3, <1>4 DEF RunEffect

\* A render asks for results at most.
LEMMA RenderTypes ==
  ASSUME NEW b \in Batches, NEW done, NEW changed, TypeOK,
         LoadsAfterRender(b, done, changed)
  PROVE  loads' \in [Loads -> LoadType]
<1>0. loads \in [Loads -> LoadType]
  BY DEF TypeOK, LoadType
<1>1. CASE done /\ changed
  <2>1. PICK l \in Free(loads) : loads' = [loads EXCEPT ![l] = Request(b, progress'.batch # b)]
    BY <1>1 DEF LoadsAfterRender
  <2> QED BY <1>0, <2>1, RequestType
<1>2. CASE ~(done /\ changed)
  BY <1>0, <1>2 DEF LoadsAfterRender
<1> QED BY <1>1, <1>2

-----------------------------------------------------------------------------
\* The state is typed, and every poll under way and the progress shown are of the
\* batch in the address: the ones of other batches have been cancelled.
PageInv ==
  /\ TypeOK
  /\ \A p \in Polls : polls[p].at # "idle" => polls[p].batch = route
  /\ progress.batch \in {route, NoBatch}

\* The page as it is opened.
LEMMA PageInvInit == Init => PageInv
<1> SUFFICES ASSUME Init PROVE PageInv
  OBVIOUS
<1> USE PageAssumption
<1>1. stage \in [Creatives -> Stages] /\ route \in Batches
  BY DEF Init, Stages
<1>2. PICK p \in Free(NoPolls) : polls = [NoPolls EXCEPT ![p] = Ask(route)]
  BY DEF Init
<1>3. Ask(route) \in PollType /\ Ask(route).batch = route
  <2> DEFINE seen == [c \in Listed(route) |-> RowStatus(c)]
  <2>1. seen \in [Listed(route) -> Marks]
    BY DEF RowStatus, Marks
  <2>2. Listed(route) \subseteq Creatives
    BY DEF Listed, Of
  <2>3. seen \in Seen
    BY <2>1, <2>2 DEF Seen
  <2> QED BY <1>1, <2>3 DEF Ask, PollType, Tags
<1>4. polls \in [Polls -> PollType]
  BY <1>2, <1>3, EmptyTypes
<1>5. \A q \in Polls : polls[q].at # "idle" => polls[q].batch = route
  BY <1>2, <1>3 DEF NoPolls, NoPoll
<1>6. progress = NoProgress /\ loads = NoLoads /\ loaded = NoResults
  BY DEF Init
<1>7. late \in BOOLEAN /\ timedOut \in BOOLEAN /\ overtaken \in BOOLEAN
  BY DEF Init
<1>8. effect = 1 /\ timer = "first" /\ failures = 0
  BY DEF Init
<1>9. TypeOK
  BY <1>1, <1>4, <1>6, <1>7, <1>8, EmptyTypes
     DEF TypeOK, PollType, LoadType, HeldType, ErrorThreshold
<1> QED BY <1>5, <1>6, <1>9 DEF PageInv, NoProgress

\* A poll that ends: the rest of what Answer and Fail do has no batch in it.
LEMMA PollEnds ==
  ASSUME PageInv, NEW p \in Polls, polls[p].at # "idle", polls' = [polls EXCEPT ![p] = NoPoll]
  PROVE  /\ polls' \in [Polls -> PollType]
         /\ \A q \in Polls : polls'[q].at # "idle" => polls'[q].batch = route
         /\ polls[p].batch = route /\ polls[p] \in PollType
<1>1. polls \in [Polls -> PollType]
  BY DEF PageInv, TypeOK, PollType
<1>2. polls' \in [Polls -> PollType]
  BY <1>1, EmptyTypes
<1>3. \A q \in Polls : polls'[q].at # "idle" => polls'[q].batch = route
  BY <1>1 DEF PageInv, NoPoll
<1> QED BY <1>1, <1>2, <1>3 DEF PageInv

\* The end of a poll that did not finish the batch.
LEMMA ClockTypes ==
  ASSUME TypeOK, Clock
  PROVE  timedOut' \in BOOLEAN /\ timer' \in {"first", "armed", "off"}
BY DEF TypeOK, Clock

\* Results that arrive.
LEMMA LoadedTypes ==
  ASSUME TypeOK, NEW l \in Loads, NEW failed \in BOOLEAN, Loaded(l, failed)
  PROVE  /\ loads' \in [Loads -> LoadType] /\ loaded' \in HeldType
         /\ overtaken' \in BOOLEAN
<1>1. loads \in [Loads -> LoadType] /\ overtaken \in BOOLEAN
  BY DEF TypeOK, LoadType
<1>2. loads' \in [Loads -> LoadType]
  BY <1>1, EmptyTypes DEF Loaded
<1>3. loads[l] \in LoadType
  BY <1>1
<1>4. loaded' \in HeldType
  BY <1>3, EmptyTypes DEF Loaded, LoadType, HeldType
<1>5. overtaken' \in BOOLEAN
  BY <1>1 DEF Loaded
<1> QED BY <1>2, <1>4, <1>5

\* What the queries after the first add to results under way.
LEMMA ReadPartTypes ==
  ASSUME TypeOK, NEW l \in Loads, NEW r \in Reads, ReadPart(l, r)
  PROVE  loads' \in [Loads -> LoadType]
<1>1. loads \in [Loads -> LoadType]
  BY DEF TypeOK, LoadType
<1>2. loads[l] \in LoadType
  BY <1>1
<1>3. r = "scores" \/ r = "issues"
  BY PageAssumption
<1> DEFINE got == See(r, loads[l].batch, loads[l].got)
           new == [loads[l] EXCEPT !.unread = loads[l].unread \ {r}, !.got = got]
<1>4. got \in Answers
  <2>1. loads[l].got \in Answers
    BY <1>2 DEF LoadType
  <2>2. {c \in Listed(loads[l].batch) : HasCard(c)} \in SUBSET Creatives
    BY DEF Listed, Of
  <2>3. {c \in Listed(loads[l].batch) : HasIssues(c)} \in SUBSET Creatives
    BY DEF Listed, Of
  <2>4. CASE r = "scores"
    BY <2>1, <2>2, <2>4 DEF See, Answers
  <2>5. CASE r = "issues"
    BY <2>1, <2>3, <2>5 DEF See, Answers
  <2> QED BY <1>3, <2>4, <2>5
<1>5. new \in LoadType
  BY <1>2, <1>4 DEF LoadType
<1>6. loads' = [loads EXCEPT ![l] = new]
  BY <1>1, <1>2 DEF ReadPart, LoadType
<1> QED BY <1>1, <1>5, <1>6

\* Every step keeps the invariant.
LEMMA PageInvNext == PageInv /\ [Next]_vars => PageInv'
<1> SUFFICES ASSUME PageInv, [Next]_vars PROVE PageInv'
  OBVIOUS
<1> USE PageAssumption
<1>0. TypeOK
  BY DEF PageInv
<1>1. ASSUME NEW c \in Creatives, Pipeline(c) PROVE PageInv'
  <2>1. PICK step \in Steps : stage' = [stage EXCEPT ![c] = step[2]]
    BY <1>1 DEF Pipeline
  <2>2. step[2] \in Stages
    BY DEF Steps, Stages
  <2>3. stage' \in [Creatives -> Stages]
    BY <2>1, <2>2, <1>0 DEF TypeOK
  <2> QED BY <1>0, <1>1, <2>3 DEF PageInv, TypeOK, Pipeline, pollVars, loadVars
<1>2. ASSUME NEW b \in Batches, Delete(b) PROVE PageInv'
  <2>1. stage' \in [Creatives -> Stages]
    BY <1>0, <1>2 DEF TypeOK, Delete, Stages
  <2> QED BY <1>0, <1>2, <2>1 DEF PageInv, TypeOK, Delete, pollVars, loadVars
<1>3. ASSUME NEW b \in Batches, Navigate(b) PROVE PageInv'
  <2>1. route' = b /\ RunEffect(b) /\ stage' = stage /\ loaded' = loaded
        /\ LoadsAfterRender(b, IsDone(progress), TRUE)
    BY <1>3 DEF Navigate
  <2>2. loads' \in [Loads -> LoadType]
    BY <1>0, <2>1, RenderTypes
  <2>3. /\ effect' \in Nat /\ timer' = "first"
        /\ late' \in BOOLEAN /\ timedOut' \in BOOLEAN /\ overtaken' \in BOOLEAN
        /\ failures' = 0 /\ progress' = NoProgress
        /\ polls' \in [Polls -> PollType]
        /\ \A p \in Polls : polls'[p].at # "idle" => polls'[p].batch = b
    BY <1>0, <2>1, EffectTypes
  <2>4. TypeOK'
    BY <1>0, <2>1, <2>2, <2>3, EmptyTypes DEF TypeOK, PollType, LoadType, ErrorThreshold
  <2> QED BY <2>1, <2>3, <2>4 DEF PageInv, NoProgress
<1>4. CASE Tick
  <2>0. polls \in [Polls -> PollType] /\ route \in Batches
    BY <1>0, <1>4 DEF TypeOK, PollType, Tick
  <2>1. PICK p \in Free(polls) : polls' = [polls EXCEPT ![p] = Ask(route)]
    BY <1>4 DEF Tick
  <2>2. polls' \in [Polls -> PollType]
    BY <1>0, <2>0, <2>1, AskType
  <2>3. \A q \in Polls : polls'[q].at # "idle" => polls'[q].batch = route
    BY <1>0, <2>0, <2>1, AskType DEF PageInv
  <2> QED BY <1>0, <1>4, <2>2, <2>3 DEF PageInv, TypeOK, PollType, Tick, loadVars
<1>5. CASE TimePasses
  BY <1>0, <1>5 DEF PageInv, TypeOK, TimePasses, loadVars
<1>6. CASE Retry
  <2>1. RunEffect(route) /\ UNCHANGED <<stage, route, loadVars>>
    BY <1>6 DEF Retry
  <2>2. route \in Batches
    BY <1>0, <1>6 DEF Retry, View, TypeOK
  <2> QED BY <1>0, <2>1, <2>2, EffectTypes, EmptyTypes
          DEF PageInv, TypeOK, PollType, loadVars, NoProgress, ErrorThreshold
<1>7. CASE Reload
  <2>1. route \in Batches
    BY <1>0, <1>7 DEF Reload, View, TypeOK
  <2>2. PICK l \in Free(loads) : loads' = [loads EXCEPT ![l] = Request(route, FALSE)]
    BY <1>7 DEF Reload
  <2>3. loads' \in [Loads -> LoadType]
    BY <1>0, <2>1, <2>2, RequestType DEF TypeOK, LoadType
  <2> QED BY <1>0, <1>7, <2>3 DEF PageInv, TypeOK, LoadType, Reload, pollVars
<1>8. CASE Leave
  <2>1. /\ polls' = NoPolls /\ progress' = NoProgress /\ loads' = NoLoads
        /\ loaded' = NoResults /\ route' = Away /\ stage' = stage /\ effect' = effect
        /\ timer' = "off" /\ failures' = 0
    BY <1>8 DEF Leave
  <2>2. late' \in BOOLEAN /\ timedOut' \in BOOLEAN /\ overtaken' \in BOOLEAN
    BY <1>8 DEF Leave
  <2>3. TypeOK'
    BY <1>0, <2>1, <2>2, EmptyTypes DEF TypeOK, PollType, LoadType, HeldType, ErrorThreshold
  <2>4. \A q \in Polls : polls'[q].at = "idle"
    BY <2>1 DEF NoPolls, NoPoll
  <2> QED BY <2>1, <2>3, <2>4 DEF PageInv, NoProgress
<1>9. ASSUME NEW p \in Polls, ReadScores(p) PROVE PageInv'
  <2>0. polls \in [Polls -> PollType] /\ polls[p].at = "listed"
    BY <1>0, <1>9 DEF TypeOK, PollType, ReadScores
  <2> DEFINE seen == [c \in DOMAIN polls[p].seen |->
                        IF HasCard(c) THEN "done" ELSE polls[p].seen[c]]
             new  == [polls[p] EXCEPT !.at = "ready", !.seen = seen]
  <2>1. polls[p].seen \in Seen /\ polls[p] \in PollType
    BY <2>0 DEF PollType
  <2>2. PICK shown \in SUBSET Creatives : polls[p].seen \in [shown -> Marks]
    BY <2>1 DEF Seen
  <2>3. seen \in [shown -> Marks]
    BY <2>2 DEF Marks
  <2>4. seen \in Seen
    BY <2>3 DEF Seen
  <2>5. new \in PollType
    BY <2>1, <2>4 DEF PollType
  <2>6. polls' = [polls EXCEPT ![p] = new]
    BY <1>9, <2>0, <2>1 DEF ReadScores, PollType
  <2>7. polls' \in [Polls -> PollType]
    BY <2>0, <2>5, <2>6
  <2>8. new.batch = route
    BY <2>0, <2>1 DEF PageInv, PollType
  <2>9. \A q \in Polls : polls'[q].at # "idle" => polls'[q].batch = route
    BY <2>0, <2>6, <2>8 DEF PageInv
  <2> QED BY <1>0, <1>9, <2>7, <2>9 DEF PageInv, TypeOK, PollType, ReadScores, loadVars
<1>10. ASSUME NEW p \in Polls, Answer(p) PROVE PageInv'
  <2>1. /\ polls' = [polls EXCEPT ![p] = NoPoll] /\ polls[p].at # "idle"
        /\ failures' = 0
        /\ progress' = [batch |-> polls[p].batch, seen |-> polls[p].seen]
        /\ UNCHANGED <<stage, route, effect, late, loaded>>
        /\ LoadsAfterRender(route, IsDone(progress'), ~IsDone(progress))
    BY <1>10 DEF Answer
  <2>2. timer' \in {"first", "armed", "off"} /\ timedOut' \in BOOLEAN
    <3>1. CASE IsDone(progress')
      BY <1>0, <1>10, <3>1 DEF Answer, TypeOK
    <3>2. CASE ~IsDone(progress')
      BY <1>0, <1>10, <3>2, ClockTypes DEF Answer
    <3> QED BY <3>1, <3>2
  <2>3. overtaken' \in BOOLEAN
    <3>1. overtaken' = (overtaken \/ (IsDone(progress) /\ ~IsDone(progress')))
      BY <1>10 DEF Answer
    <3>2. overtaken \in BOOLEAN
      BY <1>0 DEF TypeOK
    <3>3. (overtaken \/ (IsDone(progress) /\ ~IsDone(progress'))) \in BOOLEAN
      BY Zenon
    <3> QED BY <3>1, <3>3, Zenon
  <2>4. /\ polls' \in [Polls -> PollType]
        /\ \A q \in Polls : polls'[q].at # "idle" => polls'[q].batch = route
        /\ polls[p].batch = route /\ polls[p] \in PollType
    BY <2>1, PollEnds
  <2>5. progress' \in [batch : Tags, seen : Seen] /\ progress'.batch = route
    BY <2>1, <2>4 DEF PollType
  <2>6. loads' \in [Loads -> LoadType]
    <3>1. CASE route \in Batches
      BY <1>0, <2>1, <3>1, RenderTypes
    <3>2. CASE route \notin Batches
      BY <2>4, <3>2, <1>0, Zenon DEF PollType, Tags, TypeOK
    <3> QED BY <3>1, <3>2
  <2> QED BY <1>0, <2>1, <2>2, <2>3, <2>4, <2>5, <2>6
          DEF PageInv, TypeOK, PollType, LoadType, ErrorThreshold
<1>11. ASSUME NEW p \in Polls, Fail(p) PROVE PageInv'
  <2>1. /\ polls' = [polls EXCEPT ![p] = NoPoll] /\ polls[p].at # "idle" /\ Clock
        /\ failures' = IF failures < ErrorThreshold THEN failures + 1 ELSE failures
        /\ UNCHANGED <<stage, route, effect, late, progress, overtaken, loadVars>>
    BY <1>11 DEF Fail
  <2>2. failures' \in 0..ErrorThreshold
    BY <1>0, <2>1 DEF TypeOK, ErrorThreshold
  <2>3. timedOut' \in BOOLEAN /\ timer' \in {"first", "armed", "off"}
    BY <1>0, <2>1, ClockTypes
  <2>4. /\ polls' \in [Polls -> PollType]
        /\ \A q \in Polls : polls'[q].at # "idle" => polls'[q].batch = route
    BY <2>1, PollEnds
  <2> QED BY <1>0, <2>1, <2>2, <2>3, <2>4 DEF PageInv, TypeOK, PollType, loadVars
<1>12. ASSUME NEW l \in Loads, NEW r \in Reads, ReadPart(l, r) PROVE PageInv'
  <2>1. loads' \in [Loads -> LoadType]
    BY <1>0, <1>12, ReadPartTypes
  <2> QED BY <1>0, <1>12, <2>1 DEF PageInv, TypeOK, LoadType, ReadPart, pollVars
<1>13. ASSUME NEW l \in Loads, NEW failed \in BOOLEAN, Loaded(l, failed) PROVE PageInv'
  <2>1. loads' \in [Loads -> LoadType] /\ loaded' \in HeldType /\ overtaken' \in BOOLEAN
    BY <1>0, <1>13, LoadedTypes
  <2> QED BY <1>0, <1>13, <2>1 DEF PageInv, TypeOK, LoadType, HeldType, Loaded
<1>14. CASE UNCHANGED vars
  BY <1>0, <1>14 DEF PageInv, TypeOK, vars, pollVars, loadVars
<1> QED
  BY <1>1, <1>2, <1>3, <1>4, <1>5, <1>6, <1>7, <1>8, <1>9, <1>10, <1>11, <1>12, <1>13,
     <1>14 DEF Next, Polling, Loading, LoadEnds, LoadFails

\* Types, and the batch of what is under way, at every moment of every behaviour.
THEOREM PageInvAlways == Spec => []PageInv
BY PageInvInit, PageInvNext, PTL DEF Spec

\* Every variable of the page has its type.
THEOREM PageTypes == Spec => []TypeOK
<1>1. PageInv => TypeOK
  BY DEF PageInv
<1> QED BY <1>1, PageInvAlways, PTL

\* ShowsOwnBatch (ResultPage.tsx:94-98, 240-245), for any number of overlapping
\* requests: progress is of the batch in the address because the polls of others are
\* cancelled, and results because they are tagged.
THEOREM OwnBatch == Spec => []ShowsOwnBatch
<1>1. PageInv => ShowsOwnBatch
  <2> SUFFICES ASSUME PageInv PROVE ShowsOwnBatch
    OBVIOUS
  <2>1. progress.batch \in {route, NoBatch}
    BY DEF PageInv
  <2>2. ASSUME View \in Outcomes PROVE ForThisBatch.batch = route
    <3>1. CASE loaded.batch = route
      BY <3>1 DEF ForThisBatch
    <3>2. CASE loaded.batch # route
      <4>1. ForThisBatch = NoResults
        BY <3>2 DEF ForThisBatch
      <4>2. ~ForThisBatch.error /\ ~ReviewFailed
        BY <4>1 DEF NoResults, NoRows, ReviewFailed
      <4>3. View \in {"away", "could not load", "connecting", "not found", "processing",
                      "loading"}
        BY <4>1, <4>2 DEF View
      <4> QED BY <2>2, <4>3 DEF Outcomes
    <3> QED BY <3>1, <3>2
  <2> QED BY <2>1, <2>2 DEF ShowsOwnBatch
<1> QED BY <1>1, PageInvAlways, PTL

-----------------------------------------------------------------------------
(* Nobody is missing.  Progress and results are read at different times    *)
(* from tables that move on; what relates them is that a creative which    *)
(* was over without a scorecard never has one.                             *)

\* The creatives of a batch are deleted together.
Together ==
  \A c, d \in Creatives :
    BatchOf[c] = BatchOf[d] /\ stage[c] = "deleted" => stage[d] = "deleted"

\* A reading of the tables is of all of a batch or of nothing, and still true.
Truthful(r) ==
  /\ DOMAIN r.seen \in {{}, Of(r.batch)}
  /\ \A c \in DOMAIN r.seen :
       /\ r.seen[c] = "done" => HasCard(c) \/ stage[c] = "deleted"
       /\ r.seen[c] \in {"done", "failed"} => stage[c] # "running"

\* A creative that will never have a scorecard, nor is said to have one.
Lost(c) ==
  /\ stage[c] \in {"unscored", "deleted"}
  /\ \A p \in Polls : c \in DOMAIN polls[p].seen => polls[p].seen[c] # "done"
  /\ c \in DOMAIN progress.seen => progress.seen[c] # "done"

\* Results, asked for when the batch was over, that rank someone: who is not ranked
\* is lost.
Settled(r) ==
  ~r.early =>
    /\ r.listed \in {{}, Of(r.batch)}
    /\ \A c \in Of(r.batch) : stage[c] # "running"
    /\ r.listed \cap r.got.scores # {} =>
         \A c \in Of(r.batch) \ (r.listed \cap r.got.scores) : Lost(c)

\* What the page holds and what is under way agree with the tables and each other.
Accounted ==
  /\ Together
  /\ \A p \in Polls : Truthful(polls[p])
  /\ Truthful(progress)
  /\ \A l \in Loads : Settled(loads[l])
  /\ Settled(loaded)

\* What a step may do to the tables: a pipeline moves on, a batch is deleted.
MovesOn ==
  \A c \in Creatives :
    /\ stage[c] # "running" => stage'[c] # "running"
    /\ HasCard(c) => HasCard(c)' \/ stage'[c] = "deleted"
    /\ stage[c] = "unscored" => stage'[c] \in {"unscored", "deleted"}
    /\ stage[c] = "deleted" => stage'[c] = "deleted"

\* Every step moves the tables on, and keeps a batch together.
LEMMA TablesMoveOn ==
  ASSUME PageInv, Together, [Next]_vars
  PROVE  MovesOn /\ Together'
<1>0. stage \in [Creatives -> Stages] BY DEF PageInv, TypeOK
<1>1. ASSUME NEW c \in Creatives, Pipeline(c) PROVE MovesOn /\ Together'
  <2>1. PICK step \in Steps : stage[c] = step[1] /\ stage' = [stage EXCEPT ![c] = step[2]]
    BY <1>1 DEF Pipeline
  <2>2. \/ step[1] = "running" /\ step[2] \in {"scored", "unscored"}
        \/ step[1] = "scored" /\ step[2] \in {"completed", "unissued"}
    BY DEF Steps
  <2>3. MovesOn BY <1>0, <2>1, <2>2 DEF MovesOn, HasCard
  <2>4. \A d \in Creatives : stage'[d] = "deleted" <=> stage[d] = "deleted"
    BY <1>0, <2>1, <2>2
  <2> QED BY <2>3, <2>4 DEF Together
<1>2. ASSUME NEW b \in Batches, Delete(b) PROVE MovesOn /\ Together'
  <2>1. \A c \in Creatives :
          stage'[c] = IF BatchOf[c] = b THEN "deleted" ELSE stage[c]
    BY <1>2 DEF Delete
  <2>2. MovesOn BY <2>1 DEF MovesOn, HasCard
  <2>3. Together' BY <2>1 DEF Together
  <2> QED BY <2>2, <2>3
<1>3. ASSUME stage' = stage PROVE MovesOn /\ Together'
  BY <1>3 DEF MovesOn, HasCard, Together
<1>4. CASE UNCHANGED vars BY <1>3, <1>4 DEF vars
<1>5. CASE Tick \/ TimePasses \/ Retry \/ Reload \/ Leave
  BY <1>3, <1>5 DEF Tick, TimePasses, Retry, Reload, Leave
<1>6. ASSUME NEW b \in Batches, Navigate(b) PROVE MovesOn /\ Together'
  BY <1>3, <1>6 DEF Navigate
<1>7. ASSUME NEW p \in Polls, Polling(p) PROVE MovesOn /\ Together'
  BY <1>3, <1>7 DEF Polling, ReadScores, Answer, Fail
<1>8. ASSUME NEW l \in Loads, Loading(l) PROVE MovesOn /\ Together'
  BY <1>3, <1>8 DEF Loading, ReadPart, LoadEnds, LoadFails, Loaded
<1> QED BY <1>1, <1>2, <1>4, <1>5, <1>6, <1>7, <1>8 DEF Next

\* A reading stays true.
LEMMA StillTruthful ==
  ASSUME MovesOn, NEW r, Truthful(r), r.seen \in Seen
  PROVE  /\ DOMAIN r.seen \in {{}, Of(r.batch)}
         /\ \A c \in DOMAIN r.seen :
              /\ r.seen[c] = "done" => HasCard(c)' \/ stage'[c] = "deleted"
              /\ r.seen[c] \in {"done", "failed"} => stage'[c] # "running"
<1>1. DOMAIN r.seen \subseteq Creatives BY DEF Seen
<1> QED BY <1>1 DEF Truthful, MovesOn

\* What is listed of a batch is all of it or nothing.
LEMMA ListedTogether ==
  ASSUME Together, NEW b
  PROVE  Listed(b) \in {{}, Of(b)}
BY DEF Listed, Of, Together

\* A request for progress reads what is there.
LEMMA AskIsTruthful ==
  ASSUME TypeOK, Together, NEW b
  PROVE  /\ DOMAIN Ask(b).seen \in {{}, Of(b)} /\ Ask(b).batch = b
         /\ \A c \in DOMAIN Ask(b).seen :
              /\ Ask(b).seen[c] = "done" => HasCard(c)
              /\ Ask(b).seen[c] \in {"done", "failed"} => stage[c] # "running"
<1>1. /\ Ask(b).seen = [c \in Listed(b) |-> RowStatus(c)] /\ Ask(b).batch = b
  BY DEF Ask
<1>2. \A c \in Listed(b) : /\ RowStatus(c) = "done" => HasCard(c)
                           /\ RowStatus(c) \in {"done", "failed"} => stage[c] # "running"
  BY DEF RowStatus, HasCard
<1>3. Listed(b) \in {{}, Of(b)} BY ListedTogether
<1> QED BY <1>1, <1>2, <1>3

\* The reading of the scorecards, on top of the statuses that were read.
WithScores(seen) == [c \in DOMAIN seen |-> IF HasCard(c) THEN "done" ELSE seen[c]]

\* What a step makes of a request for progress, and of the progress shown.
PollMoves(p) ==
  \/ polls'[p] = polls[p]
  \/ polls'[p] = NoPoll
  \/ stage' = stage /\ \E b \in Batches : polls'[p] = Ask(b)
  \/ /\ stage' = stage
     /\ polls'[p].batch = polls[p].batch /\ polls'[p].seen = WithScores(polls[p].seen)

ProgressMoves ==
  \/ progress' = progress
  \/ progress' = NoProgress
  \/ \E p \in Polls : progress' = [batch |-> polls[p].batch, seen |-> polls[p].seen]

\* The polling effect cancels every poll but the one it sends.
LEMMA EffectMoves ==
  ASSUME TypeOK, NEW b \in Batches, RunEffect(b), stage' = stage
  PROVE  (\A p \in Polls : PollMoves(p)) /\ ProgressMoves
<1>1. PICK p \in Free(NoPolls) : polls' = [NoPolls EXCEPT ![p] = Ask(b)] BY DEF RunEffect
<1>2. \A q \in Polls : polls'[q] = NoPoll \/ polls'[q] = Ask(b) BY <1>1 DEF NoPolls
<1>3. progress' = NoProgress BY DEF RunEffect
<1> QED BY <1>2, <1>3 DEF PollMoves, ProgressMoves

\* Every step is one of these for every request.
LEMMA ReadingsMove ==
  ASSUME PageInv, [Next]_vars
  PROVE  (\A p \in Polls : PollMoves(p)) /\ ProgressMoves
<1>0. TypeOK /\ polls \in [Polls -> PollType] BY DEF PageInv, TypeOK, PollType
<1>1. ASSUME polls' = polls, progress' = progress
      PROVE  (\A p \in Polls : PollMoves(p)) /\ ProgressMoves
  BY <1>1 DEF PollMoves, ProgressMoves
<1>2. ASSUME NEW c \in Creatives, Pipeline(c)
      PROVE  (\A p \in Polls : PollMoves(p)) /\ ProgressMoves
  BY <1>1, <1>2 DEF Pipeline, pollVars
<1>3. ASSUME NEW b \in Batches, Delete(b)
      PROVE  (\A p \in Polls : PollMoves(p)) /\ ProgressMoves
  BY <1>1, <1>3 DEF Delete, pollVars
<1>4. ASSUME NEW b \in Batches, Navigate(b)
      PROVE  (\A p \in Polls : PollMoves(p)) /\ ProgressMoves
  BY <1>0, <1>4, EffectMoves DEF Navigate
<1>5. CASE Retry
  <2>1. route \in Batches BY <1>0, <1>5 DEF Retry, View, TypeOK
  <2> QED BY <1>0, <1>5, <2>1, EffectMoves DEF Retry
<1>6. CASE Tick
  <2>1. route \in Batches BY <1>0, <1>6 DEF Tick, TypeOK
  <2>2. PICK p \in Free(polls) : polls' = [polls EXCEPT ![p] = Ask(route)]
    BY <1>6 DEF Tick
  <2>3. progress' = progress /\ stage' = stage BY <1>6 DEF Tick
  <2>4. \A q \in Polls : polls'[q] = polls[q] \/ polls'[q] = Ask(route)
    BY <1>0, <2>2
  <2> QED BY <2>1, <2>3, <2>4 DEF PollMoves, ProgressMoves
<1>7. CASE TimePasses \/ Reload
  BY <1>1, <1>7 DEF TimePasses, Reload, pollVars
<1>8. CASE Leave
  BY <1>8 DEF Leave, NoPolls, PollMoves, ProgressMoves
<1>9. ASSUME NEW p \in Polls, ReadScores(p)
      PROVE  (\A q \in Polls : PollMoves(q)) /\ ProgressMoves
  <2> DEFINE new == [polls[p] EXCEPT !.at = "ready", !.seen = WithScores(polls[p].seen)]
  <2>1. polls[p] \in PollType BY <1>0
  <2>2. polls' = [polls EXCEPT ![p] = new]
    BY <1>0, <1>9, <2>1 DEF ReadScores, PollType, WithScores
  <2>3. new.batch = polls[p].batch /\ new.seen = WithScores(polls[p].seen)
    BY <2>1 DEF PollType
  <2>4. polls'[p] = new /\ \A q \in Polls : q # p => polls'[q] = polls[q]
    BY <1>0, <2>2
  <2>5. progress' = progress /\ stage' = stage BY <1>9 DEF ReadScores
  <2> QED BY <2>3, <2>4, <2>5 DEF PollMoves, ProgressMoves
<1>10. ASSUME NEW p \in Polls, Answer(p)
       PROVE  (\A q \in Polls : PollMoves(q)) /\ ProgressMoves
  <2>1. /\ polls' = [polls EXCEPT ![p] = NoPoll]
        /\ progress' = [batch |-> polls[p].batch, seen |-> polls[p].seen]
    BY <1>10 DEF Answer
  <2> QED BY <1>0, <2>1 DEF PollMoves, ProgressMoves
<1>11. ASSUME NEW p \in Polls, Fail(p)
       PROVE  (\A q \in Polls : PollMoves(q)) /\ ProgressMoves
  <2>1. polls' = [polls EXCEPT ![p] = NoPoll] /\ progress' = progress
    BY <1>11 DEF Fail
  <2> QED BY <1>0, <2>1 DEF PollMoves, ProgressMoves
<1>12. ASSUME NEW l \in Loads, Loading(l)
       PROVE  (\A q \in Polls : PollMoves(q)) /\ ProgressMoves
  BY <1>1, <1>12 DEF Loading, ReadPart, LoadEnds, LoadFails, Loaded, pollVars
<1>13. CASE UNCHANGED vars BY <1>1, <1>13 DEF vars, pollVars
<1> QED BY <1>2, <1>3, <1>4, <1>5, <1>6, <1>7, <1>8, <1>9, <1>10, <1>11, <1>12, <1>13
        DEF Next, Polling

\* So the readings stay true, and a creative that is lost stays lost.
LEMMA ReadingsStayTrue ==
  ASSUME PageInv, Accounted, [Next]_vars
  PROVE  /\ \A p \in Polls : Truthful(polls[p])'
         /\ Truthful(progress)'
         /\ \A c \in Creatives : Lost(c) => Lost(c)'
<1>0. TypeOK /\ Together /\ MovesOn BY TablesMoveOn DEF PageInv, Accounted
<1>1. /\ polls \in [Polls -> PollType] /\ progress \in [batch : Tags, seen : Seen]
      /\ stage \in [Creatives -> Stages]
  BY <1>0 DEF TypeOK, PollType
<1>2. \A p \in Polls : Truthful(polls[p]) /\ polls[p].seen \in Seen
  BY <1>1 DEF Accounted, PollType
<1>3. Truthful(progress) /\ progress.seen \in Seen BY <1>1 DEF Accounted
<1>4. DOMAIN Nothing = {} BY DEF Nothing
<1>5. ASSUME NEW p \in Polls PROVE Truthful(polls[p])'
  <2>1. CASE polls'[p] = polls[p]
    <3>1. /\ DOMAIN polls[p].seen \in {{}, Of(polls[p].batch)}
          /\ \A c \in DOMAIN polls[p].seen :
               /\ polls[p].seen[c] = "done" => HasCard(c)' \/ stage'[c] = "deleted"
               /\ polls[p].seen[c] \in {"done", "failed"} => stage'[c] # "running"
      BY <1>0, <1>2, StillTruthful
    <3> QED BY <2>1, <3>1 DEF Truthful, Of, HasCard
  <2>2. CASE polls'[p] = NoPoll BY <1>4, <2>2 DEF NoPoll, Truthful
  <2>3. ASSUME stage' = stage, NEW b \in Batches, polls'[p] = Ask(b) PROVE Truthful(polls[p])'
    <3>1. /\ DOMAIN Ask(b).seen \in {{}, Of(b)} /\ Ask(b).batch = b
          /\ \A c \in DOMAIN Ask(b).seen :
               /\ Ask(b).seen[c] = "done" => HasCard(c)
               /\ Ask(b).seen[c] \in {"done", "failed"} => stage[c] # "running"
      BY <1>0, AskIsTruthful
    <3> DEFINE r == Ask(b)
    <3> HIDE DEF r
    <3>2. polls'[p] = r BY <2>3 DEF r
    <3>3. /\ DOMAIN r.seen \in {{}, Of(b)} /\ r.batch = b
          /\ \A c \in DOMAIN r.seen :
               /\ r.seen[c] = "done" => HasCard(c)
               /\ r.seen[c] \in {"done", "failed"} => stage[c] # "running"
      BY <3>1 DEF r
    <3> QED BY <2>3, <3>2, <3>3 DEF Truthful, Of, HasCard
  <2>4. CASE /\ stage' = stage
             /\ polls'[p].batch = polls[p].batch
             /\ polls'[p].seen = WithScores(polls[p].seen)
    <3>1. /\ DOMAIN polls'[p].seen = DOMAIN polls[p].seen
          /\ \A c \in DOMAIN polls[p].seen :
               polls'[p].seen[c] = IF HasCard(c) THEN "done" ELSE polls[p].seen[c]
      BY <2>4 DEF WithScores
    <3> QED BY <1>2, <2>4, <3>1 DEF Truthful, Of, HasCard
  <2> QED BY <2>1, <2>2, <2>3, <2>4, ReadingsMove DEF PollMoves
<1>6. Truthful(progress)'
  <2>1. CASE progress' = progress
    BY <1>0, <1>3, <2>1, StillTruthful DEF Truthful, Of
  <2>2. CASE progress' = NoProgress BY <1>4, <2>2 DEF NoProgress, Truthful
  <2>3. ASSUME NEW p \in Polls, progress' = [batch |-> polls[p].batch, seen |-> polls[p].seen]
        PROVE  Truthful(progress)'
    <3>1. progress'.batch = polls[p].batch /\ progress'.seen = polls[p].seen BY <2>3
    <3>2. /\ DOMAIN polls[p].seen \in {{}, Of(polls[p].batch)}
          /\ \A c \in DOMAIN polls[p].seen :
               /\ polls[p].seen[c] = "done" => HasCard(c)' \/ stage'[c] = "deleted"
               /\ polls[p].seen[c] \in {"done", "failed"} => stage'[c] # "running"
      BY <1>0, <1>2, StillTruthful
    <3> QED BY <3>1, <3>2 DEF Truthful, Of, HasCard
  <2> QED BY <2>1, <2>2, <2>3, ReadingsMove DEF ProgressMoves
<1>7. ASSUME NEW c \in Creatives, Lost(c) PROVE Lost(c)'
  <2>1. stage'[c] \in {"unscored", "deleted"} BY <1>0, <1>7 DEF Lost, MovesOn
  <2>2. ASSUME NEW p \in Polls, c \in DOMAIN polls'[p].seen PROVE polls'[p].seen[c] # "done"
    <3>1. CASE polls'[p] = polls[p] BY <1>7, <2>2, <3>1 DEF Lost
    <3>2. CASE polls'[p] = NoPoll BY <1>4, <2>2, <3>2 DEF NoPoll
    <3>3. ASSUME NEW b \in Batches, polls'[p] = Ask(b) PROVE polls'[p].seen[c] # "done"
      BY <1>0, <1>7, <2>2, <3>3, AskIsTruthful DEF Lost, HasCard
    <3>4. CASE polls'[p].seen = WithScores(polls[p].seen)
      BY <1>7, <2>2, <3>4 DEF Lost, WithScores, HasCard
    <3> QED BY <3>1, <3>2, <3>3, <3>4, ReadingsMove DEF PollMoves
  <2>3. ASSUME c \in DOMAIN progress'.seen PROVE progress'.seen[c] # "done"
    <3>1. CASE progress' = progress BY <1>7, <2>3, <3>1 DEF Lost
    <3>2. CASE progress' = NoProgress BY <1>4, <2>3, <3>2 DEF NoProgress
    <3>3. ASSUME NEW p \in Polls, progress' = [batch |-> polls[p].batch, seen |-> polls[p].seen]
          PROVE  progress'.seen[c] # "done"
      BY <1>7, <2>3, <3>3 DEF Lost
    <3> QED BY <3>1, <3>2, <3>3, ReadingsMove DEF ProgressMoves
  <2> QED BY <2>1, <2>2, <2>3 DEF Lost
<1> QED BY <1>5, <1>6, <1>7

\* What a step makes of a request for results, and of the results held.
LoadMoves(l) ==
  \/ loads'[l] = loads[l]
  \/ loads'[l] = NoLoad
  \/ /\ stage' = stage
     /\ \E b \in Batches, early \in BOOLEAN :
          /\ loads'[l] = Request(b, early)
          /\ ~early => progress'.batch = b /\ IsDone(progress')
  \/ /\ stage' = stage
     /\ loads'[l].batch = loads[l].batch /\ loads'[l].early = loads[l].early
     /\ loads'[l].listed = loads[l].listed
     /\ \/ loads'[l].got.scores = loads[l].got.scores
        \/ loads'[l].got.scores = {c \in Listed(loads[l].batch) : HasCard(c)}

HeldMoves ==
  \/ loaded' = loaded
  \/ loaded' = NoResults
  \/ \E l \in Loads :
       /\ loaded'.batch = loads[l].batch /\ loaded'.early = loads[l].early
       /\ \/ loaded'.listed = {}
          \/ loaded'.listed = loads[l].listed /\ loaded'.got = loads[l].got

\* A render after a poll asks for results of the batch in the address, or early.
LEMMA RenderMoves ==
  ASSUME TypeOK, stage' = stage, NEW b \in Batches, NEW done \in BOOLEAN,
         NEW changed \in BOOLEAN, LoadsAfterRender(b, done, changed),
         progress'.batch = b /\ done => IsDone(progress')
  PROVE  \A l \in Loads : LoadMoves(l)
<1>0. loads \in [Loads -> LoadType] BY DEF TypeOK, LoadType
<1>1. CASE done /\ changed
  <2>1. PICK l \in Free(loads) : loads' = [loads EXCEPT ![l] = Request(b, progress'.batch # b)]
    BY <1>1 DEF LoadsAfterRender
  <2> DEFINE early == progress'.batch # b
  <2>2. early \in BOOLEAN /\ (~early => progress'.batch = b /\ IsDone(progress'))
    BY <1>1
  <2>3. \A k \in Loads : loads'[k] = loads[k] \/ loads'[k] = Request(b, early)
    BY <1>0, <2>1
  <2> HIDE DEF early
  <2> QED BY <2>2, <2>3 DEF LoadMoves
<1>2. CASE ~(done /\ changed) BY <1>2 DEF LoadsAfterRender, LoadMoves
<1> QED BY <1>1, <1>2

\* Every step is one of these for every request.
LEMMA ResultsMove ==
  ASSUME PageInv, Accounted, [Next]_vars
  PROVE  (\A l \in Loads : LoadMoves(l)) /\ HeldMoves
<1>0. TypeOK /\ loads \in [Loads -> LoadType] BY DEF PageInv, TypeOK, LoadType
<1>1. ASSUME loads' = loads, loaded' = loaded
      PROVE  (\A l \in Loads : LoadMoves(l)) /\ HeldMoves
  BY <1>1 DEF LoadMoves, HeldMoves
<1>2. CASE (\E c \in Creatives : Pipeline(c)) \/ (\E b \in Batches : Delete(b))
             \/ Tick \/ TimePasses \/ Retry
  BY <1>1, <1>2 DEF Pipeline, Delete, Tick, TimePasses, Retry, loadVars
<1>3. ASSUME NEW b \in Batches, Navigate(b)
      PROVE  (\A l \in Loads : LoadMoves(l)) /\ HeldMoves
  <2>1. /\ stage' = stage /\ loaded' = loaded /\ progress' = NoProgress
        /\ LoadsAfterRender(b, IsDone(progress), TRUE)
    BY <1>3 DEF Navigate, RunEffect
  <2>2. progress'.batch # b BY <2>1, PageAssumption DEF NoProgress
  <2>3. IsDone(progress) \in BOOLEAN BY DEF IsDone
  <2>4. \A l \in Loads : LoadMoves(l) BY <1>0, <2>1, <2>2, <2>3, RenderMoves
  <2> QED BY <2>1, <2>4 DEF HeldMoves
<1>4. ASSUME NEW p \in Polls, Answer(p)
      PROVE  (\A l \in Loads : LoadMoves(l)) /\ HeldMoves
  <2>1. /\ stage' = stage /\ loaded' = loaded /\ route' = route
        /\ LoadsAfterRender(route, IsDone(progress'), ~IsDone(progress))
        /\ polls[p].at # "idle"
    BY <1>4 DEF Answer
  <2>2. route \in Batches
    <3>1. polls \in [Polls -> PollType] BY <1>0 DEF TypeOK, PollType
    <3>2. polls[p].batch = route /\ polls[p].batch \in Tags
      BY <2>1, <3>1 DEF PageInv, PollType
    <3>3. route \in Batches \cup {Away} BY <1>0 DEF TypeOK
    <3> QED BY <3>2, <3>3, PageAssumption DEF Tags
  <2>3. IsDone(progress') \in BOOLEAN /\ (~IsDone(progress)) \in BOOLEAN BY DEF IsDone
  <2>4. \A l \in Loads : LoadMoves(l) BY <1>0, <2>1, <2>2, <2>3, RenderMoves
  <2> QED BY <2>1, <2>4 DEF HeldMoves
<1>5. ASSUME NEW p \in Polls, ReadScores(p) \/ Fail(p)
      PROVE  (\A l \in Loads : LoadMoves(l)) /\ HeldMoves
  BY <1>1, <1>5 DEF ReadScores, Fail, loadVars
<1>6. CASE Reload
  <2>1. /\ View = "error" /\ stage' = stage /\ loaded' = loaded
        /\ progress' = progress /\ route' = route
    BY <1>6 DEF Reload, pollVars
  <2>2. IsDone(progress) /\ route # Away BY <2>1 DEF View
  <2>3. route \in Batches BY <1>0, <2>2 DEF TypeOK
  <2>4. progress.batch = route
    <3>1. DOMAIN progress.seen = Of(progress.batch) /\ DOMAIN progress.seen # {}
      BY <2>2 DEF Accounted, Truthful, IsDone
    <3>2. progress.batch \in Batches BY <3>1, PageAssumption DEF Of
    <3> QED BY <3>2, PageAssumption DEF PageInv
  <2>5. PICK l \in Free(loads) : loads' = [loads EXCEPT ![l] = Request(route, FALSE)]
    BY <1>6 DEF Reload
  <2>6. \A k \in Loads : loads'[k] = loads[k] \/ loads'[k] = Request(route, FALSE)
    BY <1>0, <2>5
  <2> QED BY <2>1, <2>2, <2>3, <2>4, <2>6 DEF LoadMoves, HeldMoves
<1>7. CASE Leave BY <1>7 DEF Leave, NoLoads, LoadMoves, HeldMoves
<1>8. ASSUME NEW l \in Loads, NEW r \in Reads, ReadPart(l, r)
      PROVE  (\A k \in Loads : LoadMoves(k)) /\ HeldMoves
  <2> DEFINE got == See(r, loads[l].batch, loads[l].got)
             new == [loads[l] EXCEPT !.unread = loads[l].unread \ {r}, !.got = got]
  <2>1. loads[l] \in LoadType /\ loads[l].got \in Answers BY <1>0 DEF LoadType
  <2>2. loads' = [loads EXCEPT ![l] = new] BY <1>0, <1>8, <2>1 DEF ReadPart, LoadType
  <2>3. \/ got.scores = loads[l].got.scores
        \/ got.scores = {c \in Listed(loads[l].batch) : HasCard(c)}
    <3>1. CASE r = "scores" BY <2>1, <3>1 DEF See, Answers
    <3>2. CASE r = "issues" BY <2>1, <3>2 DEF See, Answers
    <3> QED BY <3>1, <3>2, PageAssumption
  <2> HIDE DEF got
  <2>4. /\ new.batch = loads[l].batch /\ new.early = loads[l].early
        /\ new.listed = loads[l].listed /\ new.got = got
    BY <2>1 DEF LoadType
  <2>5. loads'[l] = new /\ \A k \in Loads : k # l => loads'[k] = loads[k]
    BY <1>0, <2>2
  <2>6. stage' = stage /\ loaded' = loaded BY <1>8 DEF ReadPart
  <2> QED BY <2>3, <2>4, <2>5, <2>6 DEF LoadMoves, HeldMoves
<1>9. ASSUME NEW l \in Loads, NEW failed \in BOOLEAN, Loaded(l, failed)
      PROVE  (\A k \in Loads : LoadMoves(k)) /\ HeldMoves
  <2>1. /\ loads' = [loads EXCEPT ![l] = NoLoad]
        /\ loaded'.batch = loads[l].batch /\ loaded'.early = loads[l].early
        /\ loaded'.listed = (IF failed THEN {} ELSE loads[l].listed)
        /\ loaded'.got = (IF failed THEN NoRows ELSE loads[l].got)
    BY <1>9 DEF Loaded
  <2>2. HeldMoves BY <2>1 DEF HeldMoves
  <2> QED BY <1>0, <2>1, <2>2 DEF LoadMoves
<1>10. CASE UNCHANGED vars BY <1>1, <1>10 DEF vars, loadVars
<1> QED BY <1>2, <1>3, <1>4, <1>5, <1>6, <1>7, <1>8, <1>9, <1>10
        DEF Next, Polling, Loading, LoadEnds, LoadFails

\* Results that were settled stay so.
LEMMA StaysSettled ==
  ASSUME PageInv, Accounted, [Next]_vars, NEW r, Settled(r), ~r.early
  PROVE  /\ r.listed \in {{}, Of(r.batch)}
         /\ \A c \in Of(r.batch) : stage'[c] # "running"
         /\ r.listed \cap r.got.scores # {} =>
              \A c \in Of(r.batch) \ (r.listed \cap r.got.scores) : Lost(c)'
<1>1. MovesOn BY TablesMoveOn DEF Accounted
<1>2. Of(r.batch) \subseteq Creatives BY DEF Of
<1>3. \A c \in Creatives : Lost(c) => Lost(c)' BY ReadingsStayTrue
<1>4. \A c \in Of(r.batch) : stage'[c] # "running" BY <1>1, <1>2 DEF Settled, MovesOn
<1>5. r.listed \cap r.got.scores # {} =>
        \A c \in Of(r.batch) \ (r.listed \cap r.got.scores) : Lost(c)'
  BY <1>2, <1>3 DEF Settled
<1> QED BY <1>4, <1>5 DEF Settled

\* Whoever had no scorecard when the scorecards of a batch that is over were read is
\* lost.
LEMMA UnscoredIsLost ==
  ASSUME PageInv, Accounted, NEW b, \A c \in Of(b) : stage[c] # "running",
         Listed(b) # {}, NEW c \in Of(b), ~HasCard(c)
  PROVE  Lost(c)
<1>0. TypeOK /\ stage \in [Creatives -> Stages] /\ c \in Creatives
  BY DEF PageInv, TypeOK, Of
<1>1. Listed(b) = Of(b) BY ListedTogether DEF Accounted
<1>2. stage[c] = "unscored" BY <1>0, <1>1 DEF Stages, HasCard, Listed
<1>3. \A p \in Polls : c \in DOMAIN polls[p].seen => polls[p].seen[c] # "done"
  BY <1>2 DEF Accounted, Truthful, HasCard
<1>4. c \in DOMAIN progress.seen => progress.seen[c] # "done"
  BY <1>2 DEF Accounted, Truthful, HasCard
<1> QED BY <1>2, <1>3, <1>4 DEF Lost

\* So results under way stay settled, those that are asked for are, and so are those
\* that are held.
LEMMA ResultsStaySettled ==
  ASSUME PageInv, Accounted, [Next]_vars
  PROVE  (\A l \in Loads : Settled(loads[l])') /\ Settled(loaded)'
<1>0. /\ TypeOK /\ Together /\ NoBatch \notin Batches
      /\ \A l \in Loads : Settled(loads[l])
      /\ Settled(loaded)
  BY PageAssumption DEF PageInv, Accounted
<1>1. Of(NoBatch) = {} BY <1>0, PageAssumption DEF Of
<1>2. ASSUME NEW l \in Loads PROVE Settled(loads[l])'
  <2> SUFFICES ASSUME ~loads'[l].early
               PROVE  /\ loads'[l].listed \in {{}, Of(loads'[l].batch)}
                      /\ \A c \in Of(loads'[l].batch) : stage'[c] # "running"
                      /\ loads'[l].listed \cap loads'[l].got.scores # {} =>
                           \A c \in Of(loads'[l].batch)
                                      \ (loads'[l].listed \cap loads'[l].got.scores) :
                             Lost(c)'
    BY DEF Settled, Of
  <2>1. CASE loads'[l] = loads[l] BY <1>0, <2>1, StaysSettled
  <2>2. CASE loads'[l] = NoLoad BY <1>1, <2>2 DEF NoLoad
  <2>3. ASSUME stage' = stage, NEW b \in Batches, NEW early \in BOOLEAN,
               loads'[l] = Request(b, early),
               ~early => progress'.batch = b /\ IsDone(progress')
        PROVE  /\ loads'[l].listed \in {{}, Of(loads'[l].batch)}
               /\ \A c \in Of(loads'[l].batch) : stage'[c] # "running"
               /\ loads'[l].got.scores = {}
    <3>1. /\ loads'[l].batch = b /\ loads'[l].early = early
          /\ loads'[l].listed = Listed(b) /\ loads'[l].got.scores = {}
      BY <2>3 DEF Request, NoRows
    <3>2. progress'.batch = b /\ IsDone(progress') BY <2>3, <3>1
    <3>3. Truthful(progress)' BY ReadingsStayTrue
    <3>4. DOMAIN progress'.seen = Of(b) BY <3>2, <3>3 DEF Truthful, IsDone, Of
    <3>5. \A c \in Of(b) : stage'[c] # "running"
      BY <3>2, <3>3, <3>4 DEF Truthful, IsDone
    <3>6. Listed(b) \in {{}, Of(b)} BY <1>0, ListedTogether
    <3> QED BY <3>1, <3>5, <3>6
  <2>4. CASE /\ stage' = stage
             /\ loads'[l].batch = loads[l].batch /\ loads'[l].early = loads[l].early
             /\ loads'[l].listed = loads[l].listed
             /\ loads'[l].got.scores = loads[l].got.scores
    BY <1>0, <2>4, StaysSettled
  <2>5. CASE /\ stage' = stage
             /\ loads'[l].batch = loads[l].batch /\ loads'[l].early = loads[l].early
             /\ loads'[l].listed = loads[l].listed
             /\ loads'[l].got.scores = {c \in Listed(loads[l].batch) : HasCard(c)}
    <3> DEFINE b == loads[l].batch
               scores == {c \in Listed(b) : HasCard(c)}
    <3>1. /\ loads[l].listed \in {{}, Of(b)}
          /\ \A c \in Of(b) : stage[c] # "running"
      BY <1>0, <2>5 DEF Settled
    <3>2. ASSUME loads[l].listed \cap scores # {}, NEW c \in Of(b), c \notin loads[l].listed \cap scores
          PROVE  Lost(c)'
      <4>1. loads[l].listed = Of(b) /\ Listed(b) # {} BY <3>1, <3>2
      <4>2. Listed(b) = Of(b) BY <1>0, <4>1, ListedTogether
      <4>3. ~HasCard(c) BY <3>2, <4>1, <4>2
      <4>4. Lost(c) BY <3>1, <4>1, <4>3, UnscoredIsLost
      <4>5. c \in Creatives BY DEF Of
      <4> QED BY <4>4, <4>5, ReadingsStayTrue
    <3> QED BY <2>5, <3>1, <3>2
  <2> QED BY <2>1, <2>2, <2>3, <2>4, <2>5, ResultsMove DEF LoadMoves
<1>3. Settled(loaded)'
  <2> SUFFICES ASSUME ~loaded'.early
               PROVE  /\ loaded'.listed \in {{}, Of(loaded'.batch)}
                      /\ \A c \in Of(loaded'.batch) : stage'[c] # "running"
                      /\ loaded'.listed \cap loaded'.got.scores # {} =>
                           \A c \in Of(loaded'.batch)
                                      \ (loaded'.listed \cap loaded'.got.scores) : Lost(c)'
    BY DEF Settled, Of
  <2>1. CASE loaded' = loaded BY <1>0, <2>1, StaysSettled
  <2>2. CASE loaded' = NoResults BY <1>1, <2>2 DEF NoResults
  <2>3. ASSUME NEW l \in Loads,
               loaded'.batch = loads[l].batch /\ loaded'.early = loads[l].early,
               \/ loaded'.listed = {}
               \/ loaded'.listed = loads[l].listed /\ loaded'.got = loads[l].got
        PROVE  /\ loaded'.listed \in {{}, Of(loaded'.batch)}
               /\ \A c \in Of(loaded'.batch) : stage'[c] # "running"
               /\ loaded'.listed \cap loaded'.got.scores # {} =>
                    \A c \in Of(loaded'.batch)
                               \ (loaded'.listed \cap loaded'.got.scores) : Lost(c)'
    BY <1>0, <2>3, StaysSettled
  <2> QED BY <2>1, <2>2, <2>3, ResultsMove DEF HeldMoves
<1> QED BY <1>2, <1>3

\* The page as it is opened holds nothing and has asked once.
LEMMA AccountedInit == Init => Accounted
<1> SUFFICES ASSUME Init PROVE Accounted OBVIOUS
<1>0. TypeOK BY PageInvInit DEF PageInv
<1>1. Together /\ route \in Batches BY DEF Init, Together
<1>2. PICK p \in Free(NoPolls) : polls = [NoPolls EXCEPT ![p] = Ask(route)] BY DEF Init
<1>3. DOMAIN Nothing = {} /\ Of(NoBatch) = {} BY PageAssumption DEF Nothing, Of
<1>4. \A q \in Polls : polls[q] = NoPoll \/ polls[q] = Ask(route) BY <1>2 DEF NoPolls
<1>5. Truthful(NoPoll) /\ Truthful(NoProgress) BY <1>3 DEF Truthful, NoPoll, NoProgress
<1>6. Truthful(Ask(route)) BY <1>0, <1>1, AskIsTruthful DEF Truthful
<1>7. Settled(NoLoad) /\ Settled(NoResults) BY <1>3 DEF Settled, NoLoad, NoResults
<1>8. progress = NoProgress /\ loads = NoLoads /\ loaded = NoResults BY DEF Init
<1> QED BY <1>1, <1>4, <1>5, <1>6, <1>7, <1>8 DEF Accounted, NoLoads

\* It holds in every state of a run.
LEMMA AccountedAlways == Spec => [](PageInv /\ Accounted)
<1>1. PageInv /\ Accounted /\ [Next]_vars => Accounted'
  <2> SUFFICES ASSUME PageInv, Accounted, [Next]_vars PROVE Accounted' OBVIOUS
  <2>1. Together' BY TablesMoveOn DEF Accounted
  <2> QED BY <2>1, ReadingsStayTrue, ResultsStaySettled DEF Accounted
<1> QED BY <1>1, AccountedInit, PageInvInit, PageInvNext, PTL DEF Spec

\* NobodyIsMissing, for any number of creatives, of overlapping requests and of
\* changes of the batch: the ranking that is shown lacks only creatives that the
\* progress which is shown calls failed, though each was read at a moment of its own.
THEOREM NobodyMissing == Spec => []NobodyIsMissing
<1>1. ASSUME PageInv, Accounted PROVE NobodyIsMissing
  <2> SUFFICES ASSUME View = "results", ~ForThisBatch.early, NEW c \in Of(route),
                      c \notin Ranked
               PROVE  progress.seen[c] = "failed"
    BY DEF NobodyIsMissing
  <2>1. /\ route # Away /\ IsDone(progress) /\ ForThisBatch # NoResults /\ Ranked # {}
    BY DEF View
  <2>2. loaded.batch = route /\ ForThisBatch = loaded BY <2>1 DEF ForThisBatch
  <2>3. Lost(c) BY <1>1, <2>1, <2>2 DEF Accounted, Settled, Ranked
  <2>4. DOMAIN progress.seen = Of(route)
    <3>1. DOMAIN progress.seen = Of(progress.batch) /\ DOMAIN progress.seen # {}
      BY <1>1, <2>1 DEF Accounted, Truthful, IsDone
    <3>2. progress.batch \in Batches BY <3>1, PageAssumption DEF Of
    <3> QED BY <1>1, <3>1, <3>2, PageAssumption DEF PageInv
  <2> QED BY <2>1, <2>3, <2>4 DEF Lost, IsDone
<1> QED BY <1>1, AccountedAlways, PTL

-----------------------------------------------------------------------------
(* The scores.  What the page says of a creative is a function of what the *)
(* evaluators said, and what is proved of it holds of every judgment; the  *)
(* first lemmas are about the two roundings.                               *)

\* A quotient is the whole number of times that the divisor goes.
LEMMA Quotient ==
  ASSUME NEW a \in Int, NEW k \in Nat \ {0}
  PROVE  a \div k \in Int /\ k * (a \div k) <= a /\ a < k * (a \div k) + k
OBVIOUS

\* Ratios in order have quotients in order.
LEMMA QuotientMonotone ==
  ASSUME NEW a \in Int, NEW p \in Nat \ {0}, NEW b \in Int, NEW q \in Nat \ {0},
         a * q <= b * p
  PROVE  a \div p <= b \div q
<1> DEFINE u == a \div p
           v == b \div q
<1>1. u \in Int /\ p * u <= a  BY Quotient
<1>2. v \in Int /\ b < q * v + q  BY Quotient
<1> HIDE DEF u, v
<1> SUFFICES ASSUME u >= v + 1  PROVE FALSE
  BY <1>1, <1>2 DEF u, v
<1>3. (p * u) * q <= a * q  BY <1>1
<1>4. b * p < (q * v + q) * p  BY <1>2
<1>5. (p * q) * u >= (p * q) * (v + 1)
  <2>1. p * q \in Nat  OBVIOUS
  <2> QED  BY <1>1, <1>2, <2>1
<1>6. (p * u) * q = (p * q) * u /\ (q * v + q) * p = (p * q) * (v + 1)
  BY <1>1, <1>2
<1> QED  BY <1>1, <1>2, <1>3, <1>4, <1>5, <1>6

\* A mean is rounded to tenths, a ratio in order to tenths in order.
LEMMA RoundedMonotone ==
  ASSUME NEW n \in Nat, NEW d \in Nat \ {0}, NEW m \in Nat, NEW e \in Nat \ {0},
         n * e <= m * d
  PROVE  round1(n, d) <= round1(m, e)
<1>1. (20 * n + d) * (2 * e) = 40 * (n * e) + 2 * (d * e)
  OBVIOUS
<1>2. (20 * m + e) * (2 * d) = 40 * (m * d) + 2 * (d * e)
  OBVIOUS
<1>3. (20 * n + d) * (2 * e) <= (20 * m + e) * (2 * d)
  BY <1>1, <1>2
<1>4. /\ 20 * n + d \in Int /\ 2 * d \in Nat \ {0}
      /\ 20 * m + e \in Int /\ 2 * e \in Nat \ {0}
  OBVIOUS
<1>5. (20 * n + d) \div (2 * d) <= (20 * m + e) \div (2 * e)
  BY <1>3, <1>4, QuotientMonotone
<1> QED  BY <1>5 DEF round1

\* A mean lies between the bounds of what it is a mean of, in tenths.
LEMMA RoundedRange ==
  ASSUME NEW n \in Nat, NEW d \in Nat \ {0}, NEW k \in Nat
  PROVE  /\ round1(n, d) \in Nat
         /\ n <= k * d => round1(n, d) <= 10 * k
         /\ n >= k * d => round1(n, d) >= 10 * k
<1>1. round1(k * d, d) = 10 * k
  <2> DEFINE a == 20 * (k * d) + d
             q == a \div (2 * d)
  <2>0. a \in Int /\ 2 * d \in Nat \ {0}
    OBVIOUS
  <2>1. q \in Int /\ (2 * d) * q <= a /\ a < (2 * d) * q + 2 * d
    <3> HIDE DEF a
    <3> QED  BY <2>0, Quotient
  <2>2. a = (2 * d) * (10 * k) + d
    OBVIOUS
  <2> HIDE DEF a
  <2> HIDE DEF q
  <2>3. (2 * d) * (q - 10 * k) <= d /\ (2 * d) * (10 * k - q) < 2 * d
    BY <2>1, <2>2
  <2>4. ~(q - 10 * k >= 1) /\ ~(10 * k - q >= 1)
    BY <2>1, <2>3
  <2>5. q = 10 * k
    BY <2>1, <2>4
  <2> QED  BY <2>5 DEF round1, a, q
<1>2. round1(n, d) \in Nat
  <2>1. 20 * n + d \in Int /\ 2 * d \in Nat \ {0} /\ 20 * n + d >= 0
    OBVIOUS
  <2> DEFINE a == 20 * n + d
             q == a \div (2 * d)
  <2>2. q \in Int /\ a < (2 * d) * q + 2 * d
    <3> HIDE DEF a
    <3> QED  BY <2>1, Quotient DEF a
  <2> HIDE DEF q
  <2>3. ~(q <= -1)
    BY <2>1, <2>2
  <2> QED  BY <2>2, <2>3 DEF round1, q
<1>3. k * d \in Nat
  OBVIOUS
<1>4. ASSUME n <= k * d  PROVE round1(n, d) <= 10 * k
  <2>1. n * d <= (k * d) * d
    BY <1>3, <1>4
  <2> QED  BY <1>1, <1>3, <2>1, RoundedMonotone
<1>5. ASSUME n >= k * d  PROVE round1(n, d) >= 10 * k
  <2>1. (k * d) * d <= n * d
    BY <1>3, <1>5
  <2>2. round1(k * d, d) <= round1(n, d)
    BY <1>3, <2>1, RoundedMonotone
  <2>3. 10 * k <= round1(n, d)
    BY <1>1, <2>2
  <2> QED  BY <1>2, <2>3
<1> QED  BY <1>2, <1>4, <1>5

-----------------------------------------------------------------------------
(* Sums over metrics.                                                      *)

\* The nine metrics of the engine, and the ten of the evaluators.
LEMMA MetricNames ==
  /\ ScoredMetrics = {"product_truth", "product_clarity", "brief_adherence",
                      "creative_effectiveness", "audience_channel_fit", "cta_clarity",
                      "brand_fit", "production_readiness", "policy_compliance"}
  /\ AtomicMetrics = (ScoredMetrics \ {"audience_channel_fit"})
                       \cup {"audience_fit", "channel_readiness"}
  /\ \A m \in ScoredMetrics : Weights[m] \in 0 .. 20
BY DEF ScoredMetrics, AtomicMetrics, Weights, AgentOf

\* What is larger for each metric is larger in sum.
LEMMA SumMonotone ==
  ASSUME NEW f, NEW g, NEW ms,
         \A m \in ScoredMetrics \cap ms : f[m] \in Nat /\ g[m] \in Nat /\ f[m] <= g[m]
  PROVE  SumOver(f, ms) \in Nat /\ SumOver(g, ms) \in Nat /\ SumOver(f, ms) <= SumOver(g, ms)
<1> DEFINE F(m) == IF m \in ms THEN f[m] ELSE 0
           G(m) == IF m \in ms THEN g[m] ELSE 0
<1>1. \A m \in ScoredMetrics : F(m) \in Nat /\ G(m) \in Nat /\ F(m) <= G(m)
  OBVIOUS
<1>2. SumOver(f, ms) = F("product_truth") + F("product_clarity") + F("brief_adherence")
        + F("creative_effectiveness") + F("audience_channel_fit") + F("cta_clarity")
        + F("brand_fit") + F("production_readiness") + F("policy_compliance")
  BY DEF SumOver
<1>3. SumOver(g, ms) = G("product_truth") + G("product_clarity") + G("brief_adherence")
        + G("creative_effectiveness") + G("audience_channel_fit") + G("cta_clarity")
        + G("brand_fit") + G("production_readiness") + G("policy_compliance")
  BY DEF SumOver
<1> HIDE DEF F, G
<1> QED  BY <1>1, <1>2, <1>3, MetricNames

\* What lies between two multiples of the weight for each metric does so in sum.
LEMMA SumBounds ==
  ASSUME NEW f, NEW ms, NEW lo \in Nat, NEW hi \in Nat,
         \A m \in ScoredMetrics \cap ms :
           f[m] \in Nat /\ lo * Weights[m] <= f[m] /\ f[m] <= hi * Weights[m]
  PROVE  /\ SumOver(f, ms) \in Nat /\ WeightOf(ms) \in Nat
         /\ lo * WeightOf(ms) <= SumOver(f, ms)
         /\ SumOver(f, ms) <= hi * WeightOf(ms)
<1> DEFINE F(m) == IF m \in ms THEN f[m] ELSE 0
           W(m) == IF m \in ms THEN Weights[m] ELSE 0
<1>1. \A m \in ScoredMetrics : /\ F(m) \in Nat /\ W(m) \in Nat
                              /\ lo * W(m) <= F(m) /\ F(m) <= hi * W(m)
  BY MetricNames
<1>2. SumOver(f, ms) = F("product_truth") + F("product_clarity") + F("brief_adherence")
        + F("creative_effectiveness") + F("audience_channel_fit") + F("cta_clarity")
        + F("brand_fit") + F("production_readiness") + F("policy_compliance")
  BY DEF SumOver
<1>3. WeightOf(ms) = W("product_truth") + W("product_clarity") + W("brief_adherence")
        + W("creative_effectiveness") + W("audience_channel_fit") + W("cta_clarity")
        + W("brand_fit") + W("production_readiness") + W("policy_compliance")
  BY DEF SumOver, WeightOf
<1> HIDE DEF F, W
<1>4. WeightOf(ms) \in Nat /\ SumOver(f, ms) \in Nat
  BY <1>1, <1>2, <1>3, MetricNames
<1>5. ASSUME NEW k \in Nat, NEW g,
             g = [m \in ScoredMetrics |-> k * W(m)]
      PROVE  k * WeightOf(ms) =
               g["product_truth"] + g["product_clarity"] + g["brief_adherence"]
                 + g["creative_effectiveness"] + g["audience_channel_fit"]
                 + g["cta_clarity"] + g["brand_fit"] + g["production_readiness"]
                 + g["policy_compliance"]
  BY <1>1, <1>3, <1>5, MetricNames
<1> DEFINE L == [m \in ScoredMetrics |-> lo * W(m)]
           H == [m \in ScoredMetrics |-> hi * W(m)]
<1>6. \A m \in ScoredMetrics : /\ L[m] \in Nat /\ H[m] \in Nat
                              /\ L[m] <= F(m) /\ F(m) <= H[m]
  BY <1>1
<1>7. lo * WeightOf(ms) =
        L["product_truth"] + L["product_clarity"] + L["brief_adherence"]
          + L["creative_effectiveness"] + L["audience_channel_fit"] + L["cta_clarity"]
          + L["brand_fit"] + L["production_readiness"] + L["policy_compliance"]
  BY <1>5
<1>8. hi * WeightOf(ms) =
        H["product_truth"] + H["product_clarity"] + H["brief_adherence"]
          + H["creative_effectiveness"] + H["audience_channel_fit"] + H["cta_clarity"]
          + H["brand_fit"] + H["production_readiness"] + H["policy_compliance"]
  BY <1>5
<1> HIDE DEF L, H
<1>9. lo * WeightOf(ms) <= SumOver(f, ms)
  BY <1>1, <1>2, <1>4, <1>6, <1>7, MetricNames
<1>10. SumOver(f, ms) <= hi * WeightOf(ms)
  BY <1>1, <1>2, <1>4, <1>6, <1>8, MetricNames
<1> QED  BY <1>4, <1>9, <1>10

\* The weight of some metrics is none exactly when each of them has none.
LEMMA WeightPositive ==
  ASSUME NEW ms \in SUBSET ScoredMetrics
  PROVE  /\ WeightOf(ms) \in 0 .. 100
         /\ WeightOf(ms) = 0 <=> \A m \in ms : Weights[m] = 0
<1> DEFINE W(m) == IF m \in ms THEN Weights[m] ELSE 0
<1>1. WeightOf(ms) = W("product_truth") + W("product_clarity") + W("brief_adherence")
        + W("creative_effectiveness") + W("audience_channel_fit") + W("cta_clarity")
        + W("brand_fit") + W("production_readiness") + W("policy_compliance")
  BY DEF SumOver, WeightOf
<1>2. /\ W("product_truth") \in {0, 20} /\ W("product_clarity") \in {0, 15}
      /\ W("brief_adherence") \in {0, 20} /\ W("creative_effectiveness") \in {0, 10}
      /\ W("audience_channel_fit") \in {0, 15} /\ W("cta_clarity") \in {0, 10}
      /\ W("brand_fit") \in {0, 10} /\ W("production_readiness") = 0
      /\ W("policy_compliance") = 0
  BY DEF Weights
<1>3. \A m \in ScoredMetrics : W(m) \in Nat
  BY MetricNames
<1>4. (\A m \in ms : Weights[m] = 0) <=> \A m \in ScoredMetrics : W(m) = 0
  OBVIOUS
<1> HIDE DEF W
<1> QED  BY <1>1, <1>2, <1>3, <1>4, MetricNames

-----------------------------------------------------------------------------
(* From judgments to the inputs of the engine.                             *)

\* The severities and what they deduct.
LEMMA SeverityNames ==
  /\ Severities = {"none", "low", "medium", "high", "critical"}
  /\ FailureSeverities = {"low", "medium", "high", "critical"}
  /\ \A s \in Severities : Deductions[s] \in 0 .. 100
  /\ Deductions["none"] = 0 /\ \A s \in FailureSeverities : Deductions[s] > 0
  /\ Deductions["low"] = 5 /\ Deductions["medium"] = 20 /\ Deductions["high"] = 40
  /\ Deductions["critical"] = 100
BY DEF Severities, Deductions, FailureSeverities

\* Two judgments combined fail if one of them does, as badly as the worse one, and
\* abstain if one abstains and none fails.
LEMMA Combined ==
  ASSUME NEW a, NEW c, ValidPair(a), ValidPair(c),
         NEW r, r = combineAudienceChannelFit(a, c)
  PROVE  /\ ValidPair(r)
         /\ r.result = "false" <=> a.result = "false" \/ c.result = "false"
         /\ r.result = "cannot_assess" <=>
              /\ r.result # "false"
              /\ a.result = "cannot_assess" \/ c.result = "cannot_assess"
         /\ {a.severity, c.severity, r.severity} \subseteq Severities
         /\ r.severity \in {a.severity, c.severity}
         /\ Deductions[a.severity] <= Deductions[r.severity]
         /\ Deductions[c.severity] <= Deductions[r.severity]
<1>1. {a.severity, c.severity} \subseteq Severities
  BY SeverityNames DEF ValidPair
<1>2. CASE "false" \in {a.result, c.result}
  <2>1. r = [result |-> "false", severity |-> WorseOf(a.severity, c.severity)]
    BY <1>2 DEF combineAudienceChannelFit
  <2>2. /\ r.severity \in {a.severity, c.severity}
        /\ Deductions[a.severity] <= Deductions[r.severity]
        /\ Deductions[c.severity] <= Deductions[r.severity]
    BY <1>1, <2>1, SeverityNames DEF WorseOf
  <2>3. r.severity # "none"
    BY <1>1, <1>2, <2>2, SeverityNames DEF ValidPair
  <2>4. ValidPair(r)
    BY <1>1, <2>1, <2>2, <2>3 DEF ValidPair, FailureSeverities
  <2> QED  BY <1>1, <1>2, <2>1, <2>2, <2>4
<1>3. CASE "false" \notin {a.result, c.result}
  <2>1. r.severity = "none" /\ a.severity = "none" /\ c.severity = "none"
        /\ r.result = IF "cannot_assess" \in {a.result, c.result}
                      THEN "cannot_assess" ELSE "true"
    BY <1>3 DEF combineAudienceChannelFit, ValidPair
  <2> QED  BY <1>1, <1>3, <2>1, SeverityNames DEF ValidPair
<1> QED  BY <1>2, <1>3

\* The row of a metric.
RowOfMetric(j, m) == [agent |-> AgentOf[m], metric_id |-> m, result |-> j[m].result,
                      severity |-> j[m].severity]

\* Each metric has one row, which says what the judgment says.
LEMMA RowOfJudgment ==
  ASSUME NEW j \in [AtomicMetrics -> Pairs], NEW m \in AtomicMetrics
  PROVE  /\ RowOf(Rows(j), m) = RowOfMetric(j, m)
         /\ {r \in Rows(j) : r.metric_id = m} = {RowOfMetric(j, m)}
<1>1. RowOfMetric(j, m) \in Rows(j) /\ RowOfMetric(j, m).metric_id = m
  BY DEF Rows, RowOfMetric
<1>2. \A r \in Rows(j) : r.metric_id = m => r = RowOfMetric(j, m)
  BY DEF Rows, RowOfMetric
<1> QED  BY <1>1, <1>2 DEF RowOf

\* Every evaluator answered with valid pairs.
Sound(j) == \A m \in AtomicMetrics : ValidPair(j[m])

\* The rows are scorable when every pair is valid, and then only.
LEMMA ScorableRows ==
  ASSUME NEW j \in [AtomicMetrics -> Pairs]
  PROVE  Scorable(Rows(j)) <=> Sound(j)
<1> DEFINE known == {r \in Rows(j) : r.metric_id \in AtomicMetrics}
<1>1. \A m \in AtomicMetrics : RowOfMetric(j, m) \in known
  BY DEF Rows, RowOfMetric
<1>2. \A r \in known : r.metric_id \in AtomicMetrics /\ r = RowOfMetric(j, r.metric_id)
  BY DEF Rows, RowOfMetric
<1>3. \A m \in AtomicMetrics :
        validateAtomicRow(RowOfMetric(j, m)) <=> ValidPair(j[m])
  BY DEF validateAtomicRow, RowOfMetric, ValidPair
<1>4. ASSUME NEW m \in AtomicMetrics
      PROVE  Cardinality({r \in known : r.metric_id = m}) = 1
  <2>1. {r \in known : r.metric_id = m} = {RowOfMetric(j, m)}
    BY <1>1, <1>2 DEF RowOfMetric
  <2> QED  BY <2>1, FS_Singleton
<1>5. Scorable(Rows(j)) <=> \A r \in known : validateAtomicRow(r)
  BY <1>4 DEF Scorable
<1> HIDE DEF known
<1> QED  BY <1>1, <1>2, <1>3, <1>5 DEF Sound

\* What the engine is given.
Inputs(j) == metricInputsFromAgentResults(Rows(j))

\* The metric that two evaluators judge.
Composite == "audience_channel_fit"

\* They are valid pairs: those of the judgment, two of them combined.
LEMMA InputsOfJudgment ==
  ASSUME NEW j \in [AtomicMetrics -> Pairs], Sound(j)
  PROVE  /\ DOMAIN Inputs(j) = ScoredMetrics
         /\ \A m \in ScoredMetrics \ {Composite} : Inputs(j)[m] = j[m]
         /\ Inputs(j)[Composite] =
              combineAudienceChannelFit(j["audience_fit"], j["channel_readiness"])
         /\ \A m \in ScoredMetrics : ValidPair(Inputs(j)[m])
<1>1. \A m \in AtomicMetrics : RowOf(Rows(j), m) = RowOfMetric(j, m)
  BY RowOfJudgment
<1>2. \A m \in AtomicMetrics : j[m] = [result |-> j[m].result, severity |-> j[m].severity]
  BY DEF Pairs
<1>3. ASSUME NEW m \in ScoredMetrics \ {Composite}  PROVE Inputs(j)[m] = j[m]
  <2>1. m \in AtomicMetrics  BY MetricNames DEF Composite
  <2> QED  BY <1>1, <1>2, <2>1 DEF Inputs, metricInputsFromAgentResults, RowOfMetric, Composite
<1>4. Inputs(j)[Composite] =
        combineAudienceChannelFit(j["audience_fit"], j["channel_readiness"])
  <2>1. Composite \in ScoredMetrics /\ {"audience_fit", "channel_readiness"} \subseteq AtomicMetrics
    BY MetricNames DEF Composite
  <2>2. Inputs(j)[Composite] =
          combineAudienceChannelFit(RowOfMetric(j, "audience_fit"),
                                    RowOfMetric(j, "channel_readiness"))
    BY <1>1, <2>1 DEF Inputs, metricInputsFromAgentResults, Composite
  <2> QED  BY <2>2 DEF combineAudienceChannelFit, RowOfMetric
<1>5. ValidPair(Inputs(j)[Composite])
  <2>1. ValidPair(j["audience_fit"]) /\ ValidPair(j["channel_readiness"])
    BY MetricNames DEF Sound
  <2> QED  BY <1>4, <2>1, Combined
<1>6. \A m \in ScoredMetrics \ {Composite} : ValidPair(Inputs(j)[m])
  BY <1>3, MetricNames DEF Sound, Composite
<1> QED  BY <1>3, <1>4, <1>5, <1>6 DEF Inputs, metricInputsFromAgentResults

\* The scorecard is that of the engine if all pairs are valid, and none otherwise.
LEMMA ScorecardOfJudgment ==
  ASSUME NEW j \in [AtomicMetrics -> Pairs]
  PROVE  Scorecard(Rows(j)) = IF Sound(j) THEN scoreEngine(Inputs(j)) ELSE NotReady
<1>1. CASE Sound(j)
  BY <1>1, ScorableRows, InputsOfJudgment DEF Scorecard, Inputs, parseScoreEngineRequest
<1>2. CASE ~Sound(j)
  BY <1>2, ScorableRows DEF Scorecard
<1> QED  BY <1>1, <1>2

-----------------------------------------------------------------------------
(* Scores and means.                                                       *)

\* Inputs that the engine accepts.
Valid(inputs) ==
  DOMAIN inputs = ScoredMetrics /\ \A m \in ScoredMetrics : ValidPair(inputs[m])

\* A metric that is assessed scores what its severity leaves of a hundred.
LEMMA ScoreOfMetric ==
  ASSUME NEW inputs, Valid(inputs), NEW m \in ScoredMetrics,
         inputs[m].result # "cannot_assess"
  PROVE  /\ inputs[m].severity \in Severities
         /\ scoreOne(inputs[m]) = 100 - Deductions[inputs[m].severity]
         /\ scoreOne(inputs[m]) \in 0 .. 100
<1>1. ValidPair(inputs[m])  BY DEF Valid
<1>2. inputs[m].severity \in Severities
  BY <1>1, SeverityNames DEF ValidPair
<1>3. clampSeverity(inputs[m]) = inputs[m].severity
  BY <1>1 DEF ValidPair, clampSeverity
<1> QED  BY <1>2, <1>3, SeverityNames DEF scoreOne, metricScore

\* The weighted mean of assessed metrics is a per cent, in tenths; better scores
\* give no worse a mean; and where all metrics score alike so does the mean.
LEMMA MeanOfMetrics ==
  ASSUME NEW inputs, Valid(inputs), NEW ms \in SUBSET Assessed(inputs, ScoredMetrics),
         WeightOf(ms) > 0
  PROVE  /\ SumOver(Points(inputs), ms) \in Nat
         /\ WeightOf(ms) \in Nat
         /\ WeightedMean(inputs, ms) \in 0 .. 1000
         /\ (\A m \in ms : inputs[m].result = "true") => WeightedMean(inputs, ms) = 1000
<1>1. \A m \in ms : /\ m \in ScoredMetrics /\ inputs[m].result # "cannot_assess"
                    /\ scoreOne(inputs[m]) \in 0 .. 100 /\ Weights[m] \in Nat
                    /\ Points(inputs)[m] = Weights[m] * scoreOne(inputs[m])
  <2> SUFFICES ASSUME NEW m \in ms
               PROVE  /\ m \in ScoredMetrics /\ inputs[m].result # "cannot_assess"
                      /\ scoreOne(inputs[m]) \in 0 .. 100 /\ Weights[m] \in Nat
                      /\ Points(inputs)[m] = Weights[m] * scoreOne(inputs[m])
    OBVIOUS
  <2>1. m \in ScoredMetrics /\ inputs[m].result # "cannot_assess"
    BY DEF Assessed
  <2>2. scoreOne(inputs[m]) \in 0 .. 100
    BY <2>1, ScoreOfMetric
  <2>3. Weights[m] \in Nat
    BY <2>1, MetricNames
  <2>4. Points(inputs)[m] = Weights[m] * scoreOne(inputs[m])
    BY <2>1 DEF Points
  <2> QED  BY <2>1, <2>2, <2>3, <2>4
<1>2. ASSUME NEW lo \in 0 .. 100, \A m \in ms : lo <= scoreOne(inputs[m])
      PROVE  /\ SumOver(Points(inputs), ms) \in Nat /\ WeightOf(ms) \in Nat
             /\ lo * WeightOf(ms) <= SumOver(Points(inputs), ms)
             /\ SumOver(Points(inputs), ms) <= 100 * WeightOf(ms)
  <2>1. ASSUME NEW m \in ScoredMetrics \cap ms
        PROVE  /\ Points(inputs)[m] \in Nat
               /\ lo * Weights[m] <= Points(inputs)[m]
               /\ Points(inputs)[m] <= 100 * Weights[m]
    <3> DEFINE s == scoreOne(inputs[m])
               w == Weights[m]
    <3>1. s \in 0 .. 100 /\ w \in Nat /\ Points(inputs)[m] = w * s /\ lo <= s
      BY <1>1, <1>2
    <3> HIDE DEF s, w
    <3>2. w * s \in Nat /\ lo * w <= w * s /\ w * s <= 100 * w
      BY <3>1
    <3> QED  BY <3>1, <3>2 DEF w
  <2>2. lo \in Nat /\ 100 \in Nat
    OBVIOUS
  <2> QED  BY <2>1, <2>2, SumBounds
<1>3. /\ SumOver(Points(inputs), ms) \in Nat /\ WeightOf(ms) \in Nat \ {0}
      /\ SumOver(Points(inputs), ms) <= 100 * WeightOf(ms)
  <2>1. 0 \in 0 .. 100 /\ \A m \in ms : 0 <= scoreOne(inputs[m])
    BY <1>1
  <2> QED  BY <1>2, <2>1
<1>4. WeightedMean(inputs, ms) \in Nat /\ WeightedMean(inputs, ms) <= 10 * 100
  BY <1>3, RoundedRange DEF WeightedMean
<1>5. ASSUME \A m \in ms : inputs[m].result = "true"
      PROVE  WeightedMean(inputs, ms) = 1000
  <2>1. \A m \in ms : 100 <= scoreOne(inputs[m])
    <3> SUFFICES ASSUME NEW m \in ms  PROVE 100 <= scoreOne(inputs[m])
      OBVIOUS
    <3>1. clampSeverity(inputs[m]) = "none"
      BY <1>5 DEF clampSeverity
    <3>2. scoreOne(inputs[m]) = 100 - Deductions["none"]
      BY <1>1, <3>1 DEF scoreOne, metricScore
    <3> QED  BY <3>2, SeverityNames
  <2>2. SumOver(Points(inputs), ms) >= 100 * WeightOf(ms)
    BY <1>2, <2>1
  <2>3. round1(SumOver(Points(inputs), ms), WeightOf(ms)) >= 10 * 100
    BY <1>3, <2>2, RoundedRange
  <2> QED  BY <1>4, <2>3 DEF WeightedMean
<1> QED  BY <1>3, <1>4, <1>5

-----------------------------------------------------------------------------
(* A judgment and one that is worse in one respect.                        *)

\* A severity and the next worse one, if there is one.
LEMMA WorseningNames ==
  /\ DOMAIN Worsening = {"none", "low", "medium", "high"}
  /\ \A s \in DOMAIN Worsening :
       /\ s \in Severities /\ Worsening[s] \in FailureSeverities
       /\ Deductions[s] <= Deductions[Worsening[s]]
BY DEF Worsening, Severities, FailureSeverities, Deductions

\* b abstains where a does, fails where a does, and nowhere more mildly.
NoBetter(b, a) ==
  /\ b.result = "cannot_assess" <=> a.result = "cannot_assess"
  /\ a.result = "false" => b.result = "false"
  /\ Deductions[a.severity] <= Deductions[b.severity]

\* A worsened judgment is a judgment, valid if the first one is, and no better.
LEMMA WorsenedJudgment ==
  ASSUME NEW j \in [AtomicMetrics -> Pairs], Sound(j), NEW w \in Worsened(j)
  PROVE  /\ w \in [AtomicMetrics -> Pairs] /\ Sound(w)
         /\ \A m \in AtomicMetrics : NoBetter(w[m], j[m])
<1>1. PICK n \in AtomicMetrics :
        /\ j[n].result # "cannot_assess" /\ j[n].severity \in DOMAIN Worsening
        /\ w = [j EXCEPT ![n] = [result |-> "false", severity |-> Worsening[j[n].severity]]]
  BY DEF Worsened
<1>2. /\ w[n] = [result |-> "false", severity |-> Worsening[j[n].severity]]
      /\ \A m \in AtomicMetrics \ {n} : w[m] = j[m]
  BY <1>1
<1>3. w[n] \in Pairs /\ ValidPair(w[n]) /\ NoBetter(w[n], j[n])
  BY <1>1, <1>2, WorseningNames, SeverityNames DEF Pairs, ValidPair, NoBetter
<1>4. \A m \in AtomicMetrics \ {n} : NoBetter(w[m], j[m])
  <2>1. \A m \in AtomicMetrics : j[m].severity \in Severities
    BY SeverityNames DEF Sound, ValidPair
  <2> QED  BY <1>2, <2>1, SeverityNames DEF NoBetter
<1>5. w \in [AtomicMetrics -> Pairs]
  BY <1>1, <1>2, <1>3
<1> QED  BY <1>2, <1>3, <1>4, <1>5 DEF Sound

\* The inputs of the engine are no better either, unless a failure enters the
\* composite metric only because it is one.
LEMMA WorsenedInputs ==
  ASSUME NEW j \in [AtomicMetrics -> Pairs], Sound(j), NEW w \in Worsened(j),
         ~CompositeEnters(j, w)
  PROVE  /\ Valid(Inputs(j)) /\ Valid(Inputs(w))
         /\ \A m \in ScoredMetrics : NoBetter(Inputs(w)[m], Inputs(j)[m])
<1>1. /\ w \in [AtomicMetrics -> Pairs] /\ Sound(w)
      /\ \A m \in AtomicMetrics : NoBetter(w[m], j[m])
  BY WorsenedJudgment
<1>2. Valid(Inputs(j)) /\ Valid(Inputs(w))
  BY <1>1, InputsOfJudgment DEF Valid
<1>3. \A m \in ScoredMetrics \ {Composite} : NoBetter(Inputs(w)[m], Inputs(j)[m])
  BY <1>1, InputsOfJudgment, MetricNames DEF Composite
<1>4. NoBetter(Inputs(w)[Composite], Inputs(j)[Composite])
  <2> DEFINE a == j["audience_fit"]      b == w["audience_fit"]
             c == j["channel_readiness"] d == w["channel_readiness"]
             r == Inputs(j)[Composite]   s == Inputs(w)[Composite]
  <2>1. /\ ValidPair(a) /\ ValidPair(b) /\ ValidPair(c) /\ ValidPair(d)
        /\ NoBetter(b, a) /\ NoBetter(d, c)
    BY <1>1, MetricNames DEF Sound
  <2>2. r = combineAudienceChannelFit(a, c) /\ s = combineAudienceChannelFit(b, d)
    BY <1>1, InputsOfJudgment
  <2>3. ~(/\ a.result = "cannot_assess" \/ c.result = "cannot_assess"
          /\ \/ a.result = "true" /\ b.result = "false"
             \/ c.result = "true" /\ d.result = "false")
    BY DEF CompositeEnters
  <2> HIDE DEF a, b, c, d, r, s
  <2>4. /\ r.result = "false" <=> a.result = "false" \/ c.result = "false"
        /\ r.result = "cannot_assess" <=>
             /\ r.result # "false"
             /\ a.result = "cannot_assess" \/ c.result = "cannot_assess"
        /\ {a.severity, c.severity, r.severity} \subseteq Severities
        /\ r.severity \in {a.severity, c.severity}
    BY <2>1, <2>2, Combined
  <2>5. /\ s.result = "false" <=> b.result = "false" \/ d.result = "false"
        /\ s.result = "cannot_assess" <=>
             /\ s.result # "false"
             /\ b.result = "cannot_assess" \/ d.result = "cannot_assess"
        /\ {b.severity, d.severity, s.severity} \subseteq Severities
        /\ Deductions[b.severity] <= Deductions[s.severity]
        /\ Deductions[d.severity] <= Deductions[s.severity]
    BY <2>1, <2>2, Combined
  <2>6. Deductions[r.severity] <= Deductions[s.severity]
    BY <2>1, <2>4, <2>5, SeverityNames DEF NoBetter
  <2>7. r.result = "false" => s.result = "false"
    BY <2>1, <2>4, <2>5 DEF NoBetter
  <2>8. s.result = "cannot_assess" <=> r.result = "cannot_assess"
    BY <2>1, <2>3, <2>4, <2>5 DEF NoBetter, ValidPair
  <2> QED  BY <2>6, <2>7, <2>8 DEF NoBetter, r, s
<1> QED  BY <1>2, <1>3, <1>4

\* Nor are the means: the divisor is the same, and each score no higher.
LEMMA WorseMean ==
  ASSUME NEW a, NEW b, Valid(a), Valid(b), \A m \in ScoredMetrics : NoBetter(b[m], a[m]),
         NEW ms \in SUBSET Assessed(a, ScoredMetrics), WeightOf(ms) > 0
  PROVE  WeightedMean(b, ms) <= WeightedMean(a, ms)
<1>1. ms \subseteq Assessed(b, ScoredMetrics)
  BY DEF Assessed, NoBetter
<1>2. ASSUME NEW m \in ScoredMetrics \cap ms
      PROVE  /\ Points(a)[m] \in Nat /\ Points(b)[m] \in Nat
             /\ Points(b)[m] <= Points(a)[m]
  <2>1. a[m].result # "cannot_assess" /\ b[m].result # "cannot_assess"
    BY <1>1 DEF Assessed
  <2>2. /\ scoreOne(a[m]) \in 0 .. 100 /\ scoreOne(b[m]) \in 0 .. 100
        /\ scoreOne(b[m]) <= scoreOne(a[m])
    BY <2>1, ScoreOfMetric, SeverityNames DEF NoBetter
  <2>3. Weights[m] \in Nat
    BY MetricNames
  <2> DEFINE x == scoreOne(a[m])  y == scoreOne(b[m])  k == Weights[m]
  <2>4. Points(a)[m] = k * x /\ Points(b)[m] = k * y
    BY DEF Points
  <2>5. x \in Nat /\ y \in Nat /\ k \in Nat /\ y <= x
    BY <2>2, <2>3
  <2> HIDE DEF x, y, k
  <2>6. k * x \in Nat /\ k * y \in Nat /\ k * y <= k * x
    BY <2>5
  <2> QED  BY <2>4, <2>6
<1>3. /\ SumOver(Points(a), ms) \in Nat /\ SumOver(Points(b), ms) \in Nat
      /\ SumOver(Points(b), ms) <= SumOver(Points(a), ms)
  BY <1>2, SumMonotone
<1>4. WeightOf(ms) \in Nat \ {0}
  BY WeightPositive DEF Assessed
<1>5. SumOver(Points(b), ms) * WeightOf(ms) <= SumOver(Points(a), ms) * WeightOf(ms)
  BY <1>3, <1>4
<1> QED  BY <1>3, <1>4, <1>5, RoundedMonotone DEF WeightedMean

\* The metrics that count for the per cent; none without a weight.
Applicable(inputs) == {m \in Assessed(inputs, ScoredMetrics) : Weights[m] > 0}

\* The per cent is their mean, if there are any.
LEMMA PercentOfInputs ==
  ASSUME NEW inputs, Valid(inputs)
  PROVE  LET pct == computeAdReadinessPct(inputs) IN
         /\ Applicable(inputs) = {} => pct = NoScore
         /\ Applicable(inputs) # {} =>
              /\ WeightOf(Applicable(inputs)) > 0
              /\ Applicable(inputs) \in SUBSET Assessed(inputs, ScoredMetrics)
              /\ pct = WeightedMean(inputs, Applicable(inputs))
              /\ pct \in 0 .. 1000
<1>1. CASE Applicable(inputs) = {}
  BY <1>1 DEF computeAdReadinessPct, Applicable
<1>2. CASE Applicable(inputs) # {}
  <2>1. Applicable(inputs) \in SUBSET Assessed(inputs, ScoredMetrics)
        /\ Applicable(inputs) \in SUBSET ScoredMetrics
    BY DEF Applicable, Assessed
  <2>2. \A m \in Applicable(inputs) : Weights[m] # 0
    BY DEF Applicable
  <2>3. WeightOf(Applicable(inputs)) > 0
    BY <1>2, <2>1, <2>2, WeightPositive
  <2>4. WeightedMean(inputs, Applicable(inputs)) \in 0 .. 1000
    BY <2>1, <2>3, MeanOfMetrics
  <2>5. computeAdReadinessPct(inputs) = WeightedMean(inputs, Applicable(inputs))
    BY <1>2 DEF computeAdReadinessPct, Applicable
  <2> QED  BY <1>2, <2>1, <2>3, <2>4, <2>5
<1> QED  BY <1>1, <1>2

\* The verdict by cases: what each of the four takes.
LEMMA VerdictOfPercent ==
  ASSUME NEW pct \in Int, pct = NoScore \/ pct >= 0, NEW gates
  PROVE  /\ gates # {} => computeStatus(pct, gates) = "High_Risk"
         /\ gates = {} /\ pct < 0 => computeStatus(pct, gates) = "Cannot_Assess"
         /\ gates = {} /\ pct >= 850 => computeStatus(pct, gates) = "Ready"
         /\ gates = {} /\ 650 <= pct /\ pct < 850 =>
              computeStatus(pct, gates) = "Needs_Revision"
         /\ gates = {} /\ 0 <= pct /\ pct < 650 => computeStatus(pct, gates) = "High_Risk"
<1>1. ASSUME gates # {}  PROVE computeStatus(pct, gates) = "High_Risk"
  BY <1>1 DEF computeStatus, ReadyMin, NeedsRevisionMin, NoScore
<1>2. ASSUME gates = {}, pct < 0  PROVE computeStatus(pct, gates) = "Cannot_Assess"
  <2>1. pct = NoScore  BY <1>2
  <2> QED  BY <1>2, <2>1 DEF computeStatus, ReadyMin, NeedsRevisionMin, NoScore
<1>3. ASSUME gates = {}, pct >= 850  PROVE computeStatus(pct, gates) = "Ready"
  BY <1>3 DEF computeStatus, ReadyMin, NeedsRevisionMin, NoScore
<1>4. ASSUME gates = {}, 650 <= pct, pct < 850
      PROVE  computeStatus(pct, gates) = "Needs_Revision"
  BY <1>4 DEF computeStatus, ReadyMin, NeedsRevisionMin, NoScore
<1>5. ASSUME gates = {}, 0 <= pct, pct < 650  PROVE computeStatus(pct, gates) = "High_Risk"
  <2>1. pct # NoScore /\ ~(pct >= 10 * ReadyMin)
        /\ pct \notin 10 * NeedsRevisionMin .. 10 * ReadyMin - 1
    BY <1>5 DEF ReadyMin, NeedsRevisionMin, NoScore
  <2> QED  BY <1>5, <2>1 DEF computeStatus
<1> QED  BY <1>1, <1>2, <1>3, <1>4, <1>5

\* No lower a per cent and no fewer gates down: no better a verdict.
LEMMA VerdictMonotone ==
  ASSUME NEW p \in Int, NEW q \in Int, q <= p,
         p = NoScore \/ p >= 0, q = NoScore \/ q >= 0, q < 0 => p < 0,
         NEW g, NEW h, h = {} => g = {}, p >= 0 \/ g # {}
  PROVE  VerdictRank[computeStatus(q, h)] <= VerdictRank[computeStatus(p, g)]
<1>1. /\ VerdictRank["Ready"] = 3 /\ VerdictRank["Needs_Revision"] = 2
      /\ VerdictRank["High_Risk"] = 1
  BY DEF VerdictRank
<1>2. \/ computeStatus(p, g) = "Ready"
      \/ computeStatus(p, g) = "Needs_Revision"
      \/ computeStatus(p, g) = "High_Risk"
  BY VerdictOfPercent
<1>3. CASE h # {}
  <2>1. computeStatus(q, h) = "High_Risk"
    BY <1>3, VerdictOfPercent
  <2> QED  BY <1>1, <1>2, <2>1
<1>4. CASE h = {} /\ q < 650
  <2>1. q >= 0
    BY <1>4
  <2>2. computeStatus(q, h) = "High_Risk"
    BY <1>4, <2>1, VerdictOfPercent
  <2> QED  BY <1>1, <1>2, <2>2
<1>5. CASE h = {} /\ 650 <= q /\ q < 850
  <2>1. computeStatus(q, h) = "Needs_Revision"
    BY <1>5, VerdictOfPercent
  <2>2. computeStatus(p, g) = "Ready" \/ computeStatus(p, g) = "Needs_Revision"
    BY <1>5, VerdictOfPercent
  <2> QED  BY <1>1, <2>1, <2>2
<1>6. CASE h = {} /\ q >= 850
  <2>1. computeStatus(q, h) = "Ready"
    BY <1>6, VerdictOfPercent
  <2>2. computeStatus(p, g) = "Ready"
    BY <1>6, VerdictOfPercent
  <2> QED  BY <1>1, <2>1, <2>2
<1> QED  BY <1>3, <1>4, <1>5, <1>6

\* A gate that is down for a judgment is down for a worse one.
LEMMA WorseGates ==
  ASSUME NEW a, NEW b, Valid(a), Valid(b), \A m \in ScoredMetrics : NoBetter(b[m], a[m])
  PROVE  GatingFailures(a) \subseteq GatingFailures(b)
<1> SUFFICES ASSUME NEW m \in ScoredMetrics, isGatingFailure(m, a[m])
             PROVE  isGatingFailure(m, b[m])
  BY DEF GatingFailures
<1>1. /\ a[m].result = "false" /\ b[m].result = "false"
      /\ Deductions[a[m].severity] <= Deductions[b[m].severity]
  BY DEF isGatingFailure, NoBetter
<1>2. m \in DOMAIN GatingRules /\ GatingRules[m] \in Severities
  BY SeverityNames DEF isGatingFailure, GatingRules
<1>3. a[m].severity \in Severities /\ b[m].severity \in Severities
  BY <1>1, SeverityNames DEF Valid, ValidPair
<1> QED  BY <1>1, <1>2, <1>3, SeverityNames DEF isGatingFailure, clampSeverity

\* A creative found worse in one respect never gets a higher per cent or a better
\* verdict, for every judgment.
LEMMA WorseNeverScores == WorseNeverScoresBetter
<1> SUFFICES ASSUME NEW j \in Judgments, Scored(j), NEW w \in Worsened(j),
                    ~CompositeEnters(j, w)
             PROVE  LET card  == Scorecard(Rows(j))
                        worse == Scorecard(Rows(w)) IN
                    /\ worse.pct <= card.pct
                    /\ card.status # "Cannot_Assess" =>
                         VerdictRank[worse.status] <= VerdictRank[card.status]
  BY DEF WorseNeverScoresBetter
<1>1. j \in [AtomicMetrics -> Pairs] /\ Sound(j)
  BY JudgmentsAssumption, ScorableRows DEF Scored
<1>2. w \in [AtomicMetrics -> Pairs] /\ Sound(w)
  BY <1>1, WorsenedJudgment
<1> DEFINE a == Inputs(j)
           b == Inputs(w)
           p == computeAdReadinessPct(a)
           q == computeAdReadinessPct(b)
<1>3. /\ Valid(a) /\ Valid(b)
      /\ \A m \in ScoredMetrics : NoBetter(b[m], a[m])
  BY <1>1, WorsenedInputs
<1>4. Scorecard(Rows(j)) = scoreEngine(a) /\ Scorecard(Rows(w)) = scoreEngine(b)
  BY <1>1, <1>2, ScorecardOfJudgment
<1> HIDE DEF a, b
<1>5. Applicable(a) = Applicable(b)
  BY <1>3 DEF Applicable, Assessed, NoBetter
<1> HIDE DEF p, q
<1>6. /\ p \in Int /\ q \in Int
      /\ p = NoScore \/ p >= 0
      /\ q = NoScore \/ q >= 0
      /\ q <= p
      /\ q < 0 => p < 0
  <2>1. CASE Applicable(a) = {}
    <3>1. p = NoScore
      BY <1>3, <2>1, PercentOfInputs DEF p
    <3>2. Applicable(b) = {}
      BY <1>5, <2>1
    <3>3. q = NoScore
      BY <1>3, <3>2, PercentOfInputs DEF q
    <3> QED  BY <3>1, <3>3 DEF NoScore
  <2>2. CASE Applicable(a) # {}
    <3>1. /\ WeightOf(Applicable(a)) > 0
          /\ Applicable(a) \in SUBSET Assessed(a, ScoredMetrics)
          /\ p = WeightedMean(a, Applicable(a)) /\ p \in 0 .. 1000
      BY <1>3, <2>2, PercentOfInputs DEF p
    <3>2. q = WeightedMean(b, Applicable(a)) /\ q \in 0 .. 1000
      BY <1>3, <1>5, <2>2, PercentOfInputs DEF q
    <3>3. q <= p
      BY <1>3, <3>1, <3>2, WorseMean
    <3>4. p \in Nat /\ q \in Nat
      BY <3>1, <3>2
    <3> QED  BY <3>3, <3>4
  <2> QED  BY <2>1, <2>2
<1>7. GatingFailures(a) \subseteq GatingFailures(b)
  BY <1>3, WorseGates
<1>8. /\ scoreEngine(a).pct = IF p = NoScore THEN NoScore ELSE roundInt(p)
      /\ scoreEngine(b).pct = IF q = NoScore THEN NoScore ELSE roundInt(q)
      /\ scoreEngine(a).status = computeStatus(p, GatingFailures(a))
      /\ scoreEngine(b).status = computeStatus(q, GatingFailures(b))
  BY DEF scoreEngine, p, q
<1>9. scoreEngine(b).pct <= scoreEngine(a).pct
  BY <1>6, <1>8 DEF roundInt, NoScore
<1>10. ASSUME scoreEngine(a).status # "Cannot_Assess"
       PROVE  VerdictRank[scoreEngine(b).status] <= VerdictRank[scoreEngine(a).status]
  <2>1. computeStatus(p, GatingFailures(a)) # "Cannot_Assess"
    BY <1>8, <1>10
  <2>2. VerdictRank[computeStatus(q, GatingFailures(b))]
          <= VerdictRank[computeStatus(p, GatingFailures(a))]
    <3>1. p >= 0 \/ GatingFailures(a) # {}
      BY <1>6, <2>1, VerdictOfPercent DEF NoScore
    <3> QED  BY <1>6, <1>7, <3>1, VerdictMonotone DEF NoScore
  <2> QED  BY <1>8, <2>2
<1> QED  BY <1>4, <1>9, <1>10

-----------------------------------------------------------------------------
(* The bars and the headline.                                              *)

\* The bars whose metrics have a weight, and the metrics under one that are assessed.
Bars == {"claims_accuracy", "product_representation", "storyline_brief",
         "cta_effectiveness", "brand_alignment"}

Members(inputs, d) == Assessed(inputs, DisplayDimensions[d])

\* The sum of the values of the bars.
OverBars(s) == s["claims_accuracy"] + s["product_representation"] + s["storyline_brief"]
                 + s["cta_effectiveness"] + s["brand_alignment"]

\* The metrics that count for the per cent are those under the bars, each under one.
LEMMA BarsPartition ==
  ASSUME NEW inputs, NEW f, \A m \in Applicable(inputs) : f[m] \in Nat,
         NEW s, s = [d \in Bars |-> SumOver(f, Members(inputs, d))]
  PROVE  SumOver(f, Applicable(inputs)) = OverBars(s) /\ s \in [Bars -> Nat]
<1> DEFINE F(m) == IF m \in Applicable(inputs) THEN f[m] ELSE 0
<1>0. \A m \in {"product_truth", "product_clarity", "brief_adherence",
                "creative_effectiveness", "audience_channel_fit", "cta_clarity",
                "brand_fit"} :
        m \in Applicable(inputs) <=> inputs[m].result # "cannot_assess"
  BY DEF Applicable, Assessed, Weights, ScoredMetrics
<1>1. "production_readiness" \notin Applicable(inputs)
      /\ "policy_compliance" \notin Applicable(inputs)
  BY DEF Applicable, Weights
<1>2. SumOver(f, Applicable(inputs)) =
        F("product_truth") + F("product_clarity") + F("brief_adherence")
          + F("creative_effectiveness") + F("audience_channel_fit") + F("cta_clarity")
          + F("brand_fit") + 0 + 0
  BY <1>1 DEF SumOver
<1>3. \A m \in ScoredMetrics : F(m) \in Nat
  OBVIOUS
<1>4. ASSUME NEW m \in ScoredMetrics, NEW ms,
             \A n \in ms : n = m, m \in ms <=> m \in Applicable(inputs)
      PROVE  SumOver(f, ms) = F(m)
  <2> DEFINE G(n) == IF n \in ms THEN f[n] ELSE 0
  <2>1. SumOver(f, ms) = G("product_truth") + G("product_clarity") + G("brief_adherence")
          + G("creative_effectiveness") + G("audience_channel_fit") + G("cta_clarity")
          + G("brand_fit") + G("production_readiness") + G("policy_compliance")
    BY DEF SumOver
  <2>2. G(m) = F(m) /\ \A n \in ScoredMetrics \ {m} : G(n) = 0
    BY <1>4
  <2> HIDE DEF G, F
  <2> QED  BY <1>3, <2>1, <2>2, MetricNames
<1>5. /\ s["claims_accuracy"] = F("product_truth")
      /\ s["product_representation"] = F("product_clarity")
      /\ s["cta_effectiveness"] = F("cta_clarity")
      /\ s["brand_alignment"] = F("brand_fit")
  <2>1. /\ Members(inputs, "claims_accuracy") = Assessed(inputs, {"product_truth"})
        /\ Members(inputs, "product_representation") = Assessed(inputs, {"product_clarity"})
        /\ Members(inputs, "cta_effectiveness") = Assessed(inputs, {"cta_clarity"})
        /\ Members(inputs, "brand_alignment") = Assessed(inputs, {"brand_fit"})
    BY DEF Members, DisplayDimensions
  <2>2. ASSUME NEW m \in {"product_truth", "product_clarity", "cta_clarity", "brand_fit"}
        PROVE  SumOver(f, Assessed(inputs, {m})) = F(m)
    <3>1. m \in Assessed(inputs, {m}) <=> m \in Applicable(inputs)
      BY <1>0 DEF Assessed
    <3>2. \A n \in Assessed(inputs, {m}) : n = m
      BY DEF Assessed
    <3>3. m \in ScoredMetrics
      BY MetricNames
    <3> HIDE DEF F
    <3> QED  BY <1>4, <3>1, <3>2, <3>3
  <2> HIDE DEF F
  <2> QED  BY <2>1, <2>2 DEF Bars
<1>6. s["storyline_brief"] = F("brief_adherence") + F("creative_effectiveness")
                               + F("audience_channel_fit")
  <2> DEFINE ms == Members(inputs, "storyline_brief")
             G(n) == IF n \in ms THEN f[n] ELSE 0
  <2>1. s["storyline_brief"] = G("product_truth") + G("product_clarity")
          + G("brief_adherence") + G("creative_effectiveness")
          + G("audience_channel_fit") + G("cta_clarity") + G("brand_fit")
          + G("production_readiness") + G("policy_compliance")
    BY DEF SumOver, Bars
  <2>2. /\ G("brief_adherence") = F("brief_adherence")
        /\ G("creative_effectiveness") = F("creative_effectiveness")
        /\ G("audience_channel_fit") = F("audience_channel_fit")
    BY <1>0 DEF Members, Assessed, DisplayDimensions
  <2>3. /\ G("product_truth") = 0 /\ G("product_clarity") = 0 /\ G("cta_clarity") = 0
        /\ G("brand_fit") = 0 /\ G("production_readiness") = 0
        /\ G("policy_compliance") = 0
    BY DEF Members, Assessed, DisplayDimensions
  <2> HIDE DEF G, F
  <2> QED  BY <1>3, <2>1, <2>2, <2>3, MetricNames
<1> HIDE DEF F
<1>7. SumOver(f, Applicable(inputs)) = OverBars(s)
  BY <1>2, <1>3, <1>5, <1>6, MetricNames DEF OverBars
<1>8. s \in [Bars -> Nat]
  BY <1>3, <1>5, <1>6, MetricNames DEF Bars
<1> QED  BY <1>7, <1>8

\* Of shares that add up to a whole, one is no larger in proportion to its weight
\* than the whole, and one is no smaller.
LEMMA Shares ==
  ASSUME NEW n \in [Bars -> Nat], NEW w \in [Bars -> Nat],
         \A d \in Bars : w[d] = 0 => n[d] = 0, OverBars(w) > 0
  PROVE  /\ \E d \in Bars : w[d] > 0 /\ n[d] * OverBars(w) <= OverBars(n) * w[d]
         /\ \E d \in Bars : w[d] > 0 /\ n[d] * OverBars(w) >= OverBars(n) * w[d]
<1> DEFINE N == OverBars(n)
           W == OverBars(w)
           x == [d \in Bars |-> n[d] * W]
           y == [d \in Bars |-> N * w[d]]
<1>1. N \in Nat /\ W \in Nat \ {0}
  BY DEF OverBars, Bars
<1>2. OverBars(x) = N * W
  <2>1. OverBars(x) = n["claims_accuracy"] * W + n["product_representation"] * W
          + n["storyline_brief"] * W + n["cta_effectiveness"] * W
          + n["brand_alignment"] * W
    BY DEF OverBars, Bars
  <2>2. N = n["claims_accuracy"] + n["product_representation"] + n["storyline_brief"]
          + n["cta_effectiveness"] + n["brand_alignment"]
    BY DEF OverBars
  <2> HIDE DEF N, W
  <2> QED  BY <1>1, <2>1, <2>2 DEF Bars
<1>3. OverBars(y) = N * W
  <2>1. OverBars(y) = N * w["claims_accuracy"] + N * w["product_representation"]
          + N * w["storyline_brief"] + N * w["cta_effectiveness"]
          + N * w["brand_alignment"]
    BY DEF OverBars, Bars
  <2>2. W = w["claims_accuracy"] + w["product_representation"] + w["storyline_brief"]
          + w["cta_effectiveness"] + w["brand_alignment"]
    BY DEF OverBars
  <2> HIDE DEF N, W
  <2> QED  BY <1>1, <2>1, <2>2 DEF Bars
<1>4. \A d \in Bars : /\ x[d] \in Nat /\ y[d] \in Nat
                      /\ w[d] = 0 => x[d] = 0 /\ y[d] = 0
  BY <1>1
<1>5. \E d \in Bars : w[d] > 0
  BY DEF OverBars, Bars
<1>6. OverBars(x) = OverBars(y)
  BY <1>2, <1>3
<1> HIDE DEF x, y, N, W
<1>7. ASSUME NEW u, NEW v, \A d \in Bars : u[d] \in Nat /\ v[d] \in Nat /\ u[d] <= v[d],
             NEW e \in Bars, u[e] < v[e]
      PROVE  OverBars(u) < OverBars(v)
  <2>1. \A d \in Bars : d = e => u[d] < v[d]
    BY <1>7
  <2> QED  BY <1>7, <2>1 DEF OverBars, Bars
<1>8. OverBars(x) \in Nat /\ OverBars(y) \in Nat
  BY <1>1, <1>2, <1>3
<1>9. \E d \in Bars : w[d] > 0 /\ x[d] <= y[d]
  <2> SUFFICES ASSUME \A d \in Bars : w[d] > 0 => x[d] > y[d]  PROVE FALSE
    BY <1>4
  <2>1. PICK e \in Bars : x[e] > y[e]
    BY <1>5
  <2>2. \A d \in Bars : y[d] <= x[d]
    BY <1>4
  <2>3. OverBars(y) < OverBars(x)
    BY <1>4, <1>7, <2>1, <2>2
  <2> QED  BY <1>6, <1>8, <2>3
<1>10. \E d \in Bars : w[d] > 0 /\ x[d] >= y[d]
  <2> SUFFICES ASSUME \A d \in Bars : w[d] > 0 => x[d] < y[d]  PROVE FALSE
    BY <1>4
  <2>1. PICK e \in Bars : x[e] < y[e]
    BY <1>5
  <2>2. \A d \in Bars : x[d] <= y[d]
    BY <1>4
  <2>3. OverBars(x) < OverBars(y)
    BY <1>4, <1>7, <2>1, <2>2
  <2> QED  BY <1>6, <1>8, <2>3
<1> QED  BY <1>9, <1>10 DEF x, y, N, W

\* A bar with a member shows the rounded mean of its members.
LEMMA BarOfInputs ==
  ASSUME NEW inputs, Valid(inputs), NEW d \in Bars, WeightOf(Members(inputs, d)) > 0
  PROVE  /\ d \in DOMAIN DisplayDimensions \ {"visual_asset_quality"}
         /\ Members(inputs, d) \in SUBSET Assessed(inputs, ScoredMetrics)
         /\ DimensionScore(inputs, d) = roundInt(WeightedMean(inputs, Members(inputs, d)))
<1>1. d \in DOMAIN DisplayDimensions \ {"visual_asset_quality"}
  BY DEF Bars, DisplayDimensions
<1>2. DisplayDimensions[d] \subseteq ScoredMetrics
  BY MetricNames DEF Bars, DisplayDimensions
<1>3. Members(inputs, d) \in SUBSET Assessed(inputs, ScoredMetrics)
  BY <1>2 DEF Members, Assessed
<1>4. WeightOf({}) = 0
  BY DEF WeightOf, SumOver
<1>5. Members(inputs, d) # {}
  BY <1>4
<1>6. DimensionScore(inputs, d) =
        CASE Members(inputs, d) = {} -> NoScore
          [] Members(inputs, d) # {} /\ WeightOf(Members(inputs, d)) = 0 ->
               scoreOne(inputs[CHOOSE m \in Members(inputs, d) : TRUE])
          [] OTHER -> roundInt(WeightedMean(inputs, Members(inputs, d)))
  BY DEF DimensionScore, Members
<1>7. DimensionScore(inputs, d) = roundInt(WeightedMean(inputs, Members(inputs, d)))
  <2>1. WeightOf(Members(inputs, d)) # 0
    <3>1. WeightOf(Members(inputs, d)) \in 0 .. 100
      BY <1>3, WeightPositive DEF Assessed
    <3> QED  BY <3>1
  <2> QED  BY <1>5, <1>6, <2>1
<1> QED  BY <1>1, <1>3, <1>7

\* The headline of a creative that has one lies between two of its bars, for every
\* judgment.
LEMMA HeadlineEnclosed == BarsEncloseHeadline
<1> SUFFICES ASSUME NEW j \in Judgments, Scorecard(Rows(j)).pct # NoScore
             PROVE  LET card == Scorecard(Rows(j))
                        bars == {card.dimensions[d] :
                                   d \in DOMAIN card.dimensions
                                           \ {"visual_asset_quality"}} \ {NoScore}
                    IN  \E low, high \in bars : low <= card.pct /\ card.pct <= high
  BY DEF BarsEncloseHeadline
<1> DEFINE a == Inputs(j)
           A == Applicable(a)
           n == [d \in Bars |-> SumOver(Points(a), Members(a, d))]
           w == [d \in Bars |-> WeightOf(Members(a, d))]
           card == scoreEngine(a)
<1>1. j \in [AtomicMetrics -> Pairs] /\ Sound(j) /\ Scorecard(Rows(j)) = card
  <2>1. j \in [AtomicMetrics -> Pairs]
    BY JudgmentsAssumption
  <2>2. Sound(j)
    BY <2>1, ScorecardOfJudgment DEF NotReady
  <2> QED  BY <2>1, <2>2, ScorecardOfJudgment
<1>2. Valid(a)
  BY <1>1, InputsOfJudgment DEF Valid
<1>3. /\ computeAdReadinessPct(a) # NoScore
      /\ card.pct = roundInt(computeAdReadinessPct(a))
      /\ card.dimensions = [d \in DOMAIN DisplayDimensions |-> DimensionScore(a, d)]
  BY <1>1 DEF scoreEngine
<1> HIDE DEF a, card
<1>4. /\ A # {} /\ WeightOf(A) > 0 /\ A \in SUBSET Assessed(a, ScoredMetrics)
      /\ computeAdReadinessPct(a) = WeightedMean(a, A)
  BY <1>2, <1>3, PercentOfInputs
<1>5. \A m \in A : Points(a)[m] \in Nat /\ Weights[m] \in Nat
  <2> SUFFICES ASSUME NEW m \in A  PROVE Points(a)[m] \in Nat /\ Weights[m] \in Nat
    OBVIOUS
  <2>1. m \in ScoredMetrics /\ a[m].result # "cannot_assess"
    BY <1>4 DEF Assessed
  <2>2. scoreOne(a[m]) \in 0 .. 100 /\ Weights[m] \in 0 .. 20
    BY <1>2, <2>1, ScoreOfMetric, MetricNames
  <2>3. Points(a)[m] = Weights[m] * scoreOne(a[m])
    BY <2>1 DEF Points
  <2> QED  BY <2>2, <2>3
<1>6. SumOver(Points(a), A) = OverBars(n) /\ n \in [Bars -> Nat]
  BY <1>5, BarsPartition
<1>7. WeightOf(A) = OverBars(w) /\ w \in [Bars -> Nat]
  BY <1>5, BarsPartition DEF WeightOf
<1>8. \A d \in Bars : w[d] = 0 => n[d] = 0
  <2> SUFFICES ASSUME NEW d \in Bars, WeightOf(Members(a, d)) = 0
               PROVE  SumOver(Points(a), Members(a, d)) = 0
    OBVIOUS
  <2>1. DisplayDimensions[d] \subseteq ScoredMetrics
        /\ \A m \in DisplayDimensions[d] : Weights[m] # 0
    BY DEF Bars, DisplayDimensions, ScoredMetrics, Weights
  <2>2. Members(a, d) = {}
    BY <2>1, WeightPositive DEF Members, Assessed
  <2> QED  BY <2>2 DEF SumOver
<1> HIDE DEF A, n, w
<1>9. /\ \E d \in Bars : w[d] > 0 /\ n[d] * OverBars(w) <= OverBars(n) * w[d]
      /\ \E d \in Bars : w[d] > 0 /\ n[d] * OverBars(w) >= OverBars(n) * w[d]
  BY <1>4, <1>6, <1>7, <1>8, Shares
<1>10. ASSUME NEW d \in Bars, w[d] > 0
       PROVE  /\ d \in DOMAIN card.dimensions \ {"visual_asset_quality"}
              /\ card.dimensions[d] = roundInt(round1(n[d], w[d]))
              /\ n[d] \in Nat /\ w[d] \in Nat \ {0} /\ round1(n[d], w[d]) \in Nat
              /\ card.dimensions[d] \in Nat
  <2>1. n[d] \in Nat /\ w[d] \in Nat \ {0}
    BY <1>6, <1>7, <1>10
  <2>2. round1(n[d], w[d]) \in Nat
    BY <2>1, RoundedRange
  <2>3. d \in DOMAIN DisplayDimensions \ {"visual_asset_quality"}
        /\ DimensionScore(a, d) = roundInt(WeightedMean(a, Members(a, d)))
    BY <1>2, <1>10, BarOfInputs DEF w
  <2>4. card.dimensions[d] = roundInt(round1(n[d], w[d]))
    BY <1>3, <2>3 DEF WeightedMean, n, w
  <2>5. roundInt(round1(n[d], w[d])) \in Nat
    BY <2>2 DEF roundInt
  <2> QED  BY <1>3, <2>1, <2>2, <2>3, <2>4, <2>5
<1>11. /\ card.pct = roundInt(round1(OverBars(n), OverBars(w)))
       /\ OverBars(n) \in Nat /\ OverBars(w) \in Nat \ {0}
       /\ round1(OverBars(n), OverBars(w)) \in Nat
  <2>1. OverBars(n) \in Nat /\ OverBars(w) \in Nat \ {0}
    BY <1>4, <1>6, <1>7 DEF OverBars, Bars
  <2> QED  BY <1>3, <1>4, <1>6, <1>7, <2>1, RoundedRange DEF WeightedMean
<1>12. \A s \in Nat, t \in Nat : s <= t => roundInt(s) <= roundInt(t)
  BY DEF roundInt
<1>13. PICK d \in Bars : w[d] > 0 /\ n[d] * OverBars(w) <= OverBars(n) * w[d]
  BY <1>9
<1>14. PICK e \in Bars : w[e] > 0 /\ OverBars(n) * w[e] <= n[e] * OverBars(w)
  <2>1. PICK e \in Bars : w[e] > 0 /\ n[e] * OverBars(w) >= OverBars(n) * w[e]
    BY <1>9
  <2> QED  BY <2>1
<1>15. card.dimensions[d] <= card.pct
  <2>1. round1(n[d], w[d]) <= round1(OverBars(n), OverBars(w))
    BY <1>10, <1>11, <1>13, RoundedMonotone
  <2> QED  BY <1>10, <1>11, <1>12, <1>13, <2>1
<1>16. card.pct <= card.dimensions[e]
  <2>1. round1(OverBars(n), OverBars(w)) <= round1(n[e], w[e])
    BY <1>10, <1>11, <1>14, RoundedMonotone
  <2> QED  BY <1>10, <1>11, <1>12, <1>14, <2>1
<1>17. card.dimensions[d] # NoScore /\ card.dimensions[e] # NoScore
  BY <1>10, <1>13, <1>14 DEF NoScore
<1> QED  BY <1>1, <1>10, <1>13, <1>14, <1>15, <1>16, <1>17

-----------------------------------------------------------------------------
(* The head of the list of what is to be fixed.                            *)

\* One of these metrics has the least number.
HasLeast(key, ms) == ms # {} => \E m \in ms : \A n \in ms : key[m] <= key[n]

\* A least one there is still if one more is admitted.
LEMMA LeastOfOneMore ==
  ASSUME NEW key, NEW ts, NEW ms, NEW x, \A m \in ts : key[m] \in Int,
         HasLeast(key, ts \cap ms)
  PROVE  HasLeast(key, ts \cap (ms \cup {x}))
<1>1. CASE x \notin ts
  <2>1. ts \cap (ms \cup {x}) = ts \cap ms
    BY <1>1
  <2> QED  BY <2>1
<1>2. CASE x \in ts /\ ts \cap ms = {}
  <2>1. ts \cap (ms \cup {x}) = {x}
    BY <1>2
  <2> QED  BY <1>2, <2>1 DEF HasLeast
<1>3. CASE x \in ts /\ ts \cap ms # {}
  <2>1. PICK m \in ts \cap ms : \A n \in ts \cap ms : key[m] <= key[n]
    BY <1>3 DEF HasLeast
  <2>2. CASE key[m] <= key[x]
    BY <2>1, <2>2 DEF HasLeast
  <2>3. CASE key[x] <= key[m]
    <3>1. \A n \in ts \cap (ms \cup {x}) : key[x] <= key[n]
      BY <1>3, <2>1, <2>3
    <3>2. x \in ts \cap (ms \cup {x})
      BY <1>3
    <3> QED  BY <3>1, <3>2 DEF HasLeast
  <2> QED  BY <1>3, <2>1, <2>2, <2>3
<1> QED  BY <1>1, <1>2, <1>3

\* Among some metrics there is one with the least number.
LEMMA LeastMetric ==
  ASSUME NEW key, NEW ts \in SUBSET ScoredMetrics, \A m \in ts : key[m] \in Int, ts # {}
  PROVE  \E m \in ts : \A n \in ts : key[m] <= key[n]
<1> DEFINE s1 == {"product_truth"}
           s2 == s1 \cup {"product_clarity"}
           s3 == s2 \cup {"brief_adherence"}
           s4 == s3 \cup {"creative_effectiveness"}
           s5 == s4 \cup {"audience_channel_fit"}
           s6 == s5 \cup {"cta_clarity"}
           s7 == s6 \cup {"brand_fit"}
           s8 == s7 \cup {"production_readiness"}
           s9 == s8 \cup {"policy_compliance"}
<1>1. HasLeast(key, ts \cap s1)
  BY DEF HasLeast
<1>2. ts \cap s9 = ts
  BY MetricNames
<1> HIDE DEF s1
<1>3. HasLeast(key, ts \cap s2)  BY <1>1, LeastOfOneMore
<1> HIDE DEF s2
<1>4. HasLeast(key, ts \cap s3)  BY <1>3, LeastOfOneMore
<1> HIDE DEF s3
<1>5. HasLeast(key, ts \cap s4)  BY <1>4, LeastOfOneMore
<1> HIDE DEF s4
<1>6. HasLeast(key, ts \cap s5)  BY <1>5, LeastOfOneMore
<1> HIDE DEF s5
<1>7. HasLeast(key, ts \cap s6)  BY <1>6, LeastOfOneMore
<1> HIDE DEF s6
<1>8. HasLeast(key, ts \cap s7)  BY <1>7, LeastOfOneMore
<1> HIDE DEF s7
<1>9. HasLeast(key, ts \cap s8)  BY <1>8, LeastOfOneMore
<1> HIDE DEF s8
<1>10. HasLeast(key, ts \cap s9)  BY <1>9, LeastOfOneMore
<1> HIDE DEF s9
<1> QED  BY <1>2, <1>10 DEF HasLeast

\* Priorities are compared one number after the other.
LEMMA PrecedesByNumber ==
  ASSUME NEW a \in Int, NEW b \in Int, NEW c \in Int, NEW d \in Int,
         NEW e \in Int, NEW f \in Int, NEW g \in Int, NEW h \in Int
  PROVE  /\ \/ a < e
            \/ a = e /\ (b < f \/ (b = f /\ (c < g \/ (c = g /\ d < h))))
            => Precedes(<<a, b, c, d>>, <<e, f, g, h>>)
         /\ Precedes(<<a, b, c, d>>, <<e, f, g, h>>) => a <= e
<1> DEFINE p == <<a, b, c, d>>
           q == <<e, f, g, h>>
<1>1. /\ DOMAIN p = 1 .. 4
      /\ p[1] = a /\ p[2] = b /\ p[3] = c /\ p[4] = d
      /\ q[1] = e /\ q[2] = f /\ q[3] = g /\ q[4] = h
  OBVIOUS
<1> HIDE DEF p, q
<1>2. ASSUME NEW i \in 1 .. 4, p[i] < q[i], \A k \in 1 .. i - 1 : p[k] = q[k]
      PROVE  Precedes(p, q)
  BY <1>1, <1>2 DEF Precedes
<1>3. ASSUME a < e  PROVE Precedes(p, q)
  <2>1. 1 \in 1 .. 4 /\ p[1] < q[1] /\ \A k \in 1 .. 1 - 1 : p[k] = q[k]
    BY <1>1, <1>3
  <2> QED  BY <1>2, <2>1
<1>4. ASSUME a = e, b < f  PROVE Precedes(p, q)
  <2>1. 2 \in 1 .. 4 /\ p[2] < q[2] /\ \A k \in 1 .. 2 - 1 : p[k] = q[k]
    BY <1>1, <1>4
  <2> QED  BY <1>2, <2>1
<1>5. ASSUME a = e, b = f, c < g  PROVE Precedes(p, q)
  <2>1. 3 \in 1 .. 4 /\ p[3] < q[3] /\ \A k \in 1 .. 3 - 1 : p[k] = q[k]
    BY <1>1, <1>5
  <2> QED  BY <1>2, <2>1
<1>6. ASSUME a = e, b = f, c = g, d < h  PROVE Precedes(p, q)
  <2>1. 4 \in 1 .. 4 /\ p[4] < q[4] /\ \A k \in 1 .. 4 - 1 : p[k] = q[k]
    BY <1>1, <1>6
  <2> QED  BY <1>2, <2>1
<1>7. Precedes(p, q) => a <= e
  <2> SUFFICES ASSUME NEW i \in 1 .. 4, p[i] < q[i], \A k \in 1 .. i - 1 : p[k] = q[k]
               PROVE  a <= e
    BY <1>1 DEF Precedes
  <2>1. CASE i = 1
    BY <1>1, <2>1
  <2>2. CASE i # 1
    <3>1. 1 \in 1 .. i - 1
      BY <2>2
    <3> QED  BY <1>1, <3>1
  <2> QED  BY <2>1, <2>2
<1> QED  BY <1>3, <1>4, <1>5, <1>6, <1>7 DEF p, q

\* One number that orders metrics as their priorities do.
Rank(inputs, m) ==
  LET gate == m \in GatingFailures(inputs) IN
  ((((IF gate THEN 0 ELSE 1) * 1000 - Deductions[inputs[m].severity]) * 1000)
     - (IF gate THEN 100 ELSE Weights[m])) * 10 + Alphabetical[m]

\* If a metric failed one of them is the first; if one of them is a gate that is
\* down so is the first.
LEMMA FirstIsGate ==
  ASSUME NEW inputs, Valid(inputs), GatingFailures(inputs) # {}
  PROVE  FirstIssue(inputs) \in DOMAIN GatingRules
<1> DEFINE failed == {m \in ScoredMetrics : inputs[m].result = "false"}
           gates == GatingFailures(inputs)
           p1(m) == IF m \in gates THEN 0 ELSE 1
           p2(m) == -Deductions[inputs[m].severity]
           p3(m) == IF m \in gates THEN -100 ELSE -Weights[m]
           p4(m) == Alphabetical[m]
           key == [m \in ScoredMetrics |-> Rank(inputs, m)]
<1>1. gates \subseteq failed /\ gates \subseteq DOMAIN GatingRules /\ gates # {}
  BY DEF GatingFailures, isGatingFailure
<1>2. \A m \in ScoredMetrics :
        /\ p1(m) \in 0 .. 1 /\ p2(m) \in -100 .. 0 /\ p3(m) \in -100 .. 0
        /\ p4(m) \in 1 .. 9
  <2> SUFFICES ASSUME NEW m \in ScoredMetrics
               PROVE  /\ p1(m) \in 0 .. 1 /\ p2(m) \in -100 .. 0 /\ p3(m) \in -100 .. 0
                      /\ p4(m) \in 1 .. 9
    OBVIOUS
  <2>1. inputs[m].severity \in Severities
    BY SeverityNames DEF Valid, ValidPair
  <2>2. Deductions[inputs[m].severity] \in 0 .. 100 /\ Weights[m] \in 0 .. 20
    BY <2>1, SeverityNames, MetricNames
  <2>3. Alphabetical[m] \in 1 .. 9
    BY MetricNames DEF Alphabetical
  <2> QED  BY <2>2, <2>3
<1>3. \A m \in ScoredMetrics, n \in ScoredMetrics : m # n => p4(m) # p4(n)
  BY MetricNames DEF Alphabetical
<1>4. \A m \in ScoredMetrics :
        /\ Priority(inputs, m) = <<p1(m), p2(m), p3(m), p4(m)>>
        /\ key[m] = ((p1(m) * 1000 + p2(m)) * 1000 + p3(m)) * 10 + p4(m)
  <2> SUFFICES ASSUME NEW m \in ScoredMetrics
               PROVE  /\ Priority(inputs, m) = <<p1(m), p2(m), p3(m), p4(m)>>
                      /\ key[m] = ((p1(m) * 1000 + p2(m)) * 1000 + p3(m)) * 10 + p4(m)
    OBVIOUS
  <2>1. Priority(inputs, m) = <<p1(m), p2(m), p3(m), p4(m)>>
    BY DEF Priority
  <2>2. Deductions[inputs[m].severity] \in Int /\ Weights[m] \in Int
    <3>1. inputs[m].severity \in Severities
      BY SeverityNames DEF Valid, ValidPair
    <3> QED  BY <3>1, SeverityNames, MetricNames
  <2>3. key[m] = ((p1(m) * 1000 + p2(m)) * 1000 + p3(m)) * 10 + p4(m)
    BY <2>2 DEF Rank
  <2> QED  BY <2>1, <2>3
<1> HIDE DEF key, p1, p2, p3, p4, gates, failed
<1>5. \A m \in ScoredMetrics : key[m] \in Int
  <2> SUFFICES ASSUME NEW m \in ScoredMetrics  PROVE key[m] \in Int
    OBVIOUS
  <2> DEFINE a == p1(m)  b == p2(m)  c == p3(m)  d == p4(m)
  <2>1. a \in Int /\ b \in Int /\ c \in Int /\ d \in Int
    BY <1>2
  <2>2. key[m] = ((a * 1000 + b) * 1000 + c) * 10 + d
    BY <1>4
  <2> HIDE DEF a, b, c, d
  <2> QED  BY <2>1, <2>2
<1>6. failed \subseteq ScoredMetrics /\ failed # {}
  BY <1>1 DEF failed
<1>7. PICK least \in failed : \A n \in failed : key[least] <= key[n]
  BY <1>5, <1>6, LeastMetric
<1>8. \A n \in failed \ {least} : Precedes(Priority(inputs, least), Priority(inputs, n))
  <2> SUFFICES ASSUME NEW n \in failed \ {least}
               PROVE  Precedes(Priority(inputs, least), Priority(inputs, n))
    OBVIOUS
  <2> DEFINE a == p1(least)  b == p2(least)  c == p3(least)  d == p4(least)
             e == p1(n)      f == p2(n)      g == p3(n)      h == p4(n)
  <2>1. /\ a \in 0 .. 1 /\ b \in -100 .. 0 /\ c \in -100 .. 0 /\ d \in 1 .. 9
        /\ e \in 0 .. 1 /\ f \in -100 .. 0 /\ g \in -100 .. 0 /\ h \in 1 .. 9
        /\ d # h
    BY <1>2, <1>3, <1>6
  <2>2. ((a * 1000 + b) * 1000 + c) * 10 + d <= ((e * 1000 + f) * 1000 + g) * 10 + h
    BY <1>4, <1>6, <1>7
  <2>3. /\ Priority(inputs, least) = <<a, b, c, d>>
        /\ Priority(inputs, n) = <<e, f, g, h>>
    BY <1>4, <1>6
  <2> HIDE DEF a, b, c, d, e, f, g, h
  <2>4. a < e \/ (a = e /\ (b < f \/ (b = f /\ (c < g \/ (c = g /\ d < h)))))
    BY <2>1, <2>2
  <2>5. /\ a \in Int /\ b \in Int /\ c \in Int /\ d \in Int
        /\ e \in Int /\ f \in Int /\ g \in Int /\ h \in Int
    BY <2>1
  <2>6. Precedes(<<a, b, c, d>>, <<e, f, g, h>>)
    BY <2>4, <2>5, PrecedesByNumber, Zenon
  <2> QED  BY <2>3, <2>6
<1> DEFINE first == FirstIssue(inputs)
<1>9. first \in failed
      /\ \A n \in failed \ {first} : Precedes(Priority(inputs, first), Priority(inputs, n))
  <2>1. first = CHOOSE m \in failed :
                  \A n \in failed \ {m} : Precedes(Priority(inputs, m), Priority(inputs, n))
    BY <1>6 DEF FirstIssue, failed
  <2> HIDE DEF first
  <2> QED  BY <1>7, <1>8, <2>1
<1> HIDE DEF first
<1>10. first \in gates
  <2> SUFFICES ASSUME first \notin gates  PROVE FALSE
    OBVIOUS
  <2>1. PICK gate \in gates : gate \in failed \ {first}
    BY <1>1
  <2>2. p1(first) = 1 /\ p1(gate) = 0
    BY <2>1 DEF p1
  <2>3. Precedes(Priority(inputs, first), Priority(inputs, gate))
    BY <1>9, <2>1
  <2>4. first \in ScoredMetrics /\ gate \in ScoredMetrics
    BY <1>6, <1>9, <2>1
  <2>5. p1(first) <= p1(gate)
    <3>1. /\ p1(first) \in Int /\ p2(first) \in Int /\ p3(first) \in Int
          /\ p4(first) \in Int /\ p1(gate) \in Int /\ p2(gate) \in Int
          /\ p3(gate) \in Int /\ p4(gate) \in Int
      BY <1>2, <2>4
    <3>2. Precedes(<<p1(first), p2(first), p3(first), p4(first)>>,
                   <<p1(gate), p2(gate), p3(gate), p4(gate)>>)
      BY <1>4, <2>3, <2>4
    <3> QED  BY <3>1, <3>2, PrecedesByNumber, Zenon
  <2> QED  BY <2>2, <2>5
<1> QED  BY <1>1, <1>10 DEF first

-----------------------------------------------------------------------------
(* The verdict and the list of issues.                                     *)

\* What the page says of a verdict goes back to one verdict only.
LEMMA ShipStatus ==
  ASSUME NEW v
  PROVE  /\ toShipStatus(v) = "ready" <=> v = "Ready"
         /\ toShipStatus(v) = "nope" <=> v = "High_Risk"
         /\ v = "Cannot_Assess" => toShipStatus(v) = "unassessed"
         /\ toShipStatus(v) = "unassessed" =>
              v # "Ready" /\ v # "Needs_Revision" /\ v # "High_Risk"
BY DEF toShipStatus

\* The list has each metric that failed, with its severity, and no other.
LEMMA IssuesOfJudgment ==
  ASSUME NEW j \in [AtomicMetrics -> Pairs], Sound(j)
  PROVE  toIssues(buildIssuesSummary(Rows(j))) =
           {[metric |-> m, severity |-> j[m].severity] :
              m \in {n \in AtomicMetrics : j[n].result = "false"}}
<1> DEFINE issues == {[metric |-> m, severity |-> j[m].severity] :
                        m \in {n \in AtomicMetrics : j[n].result = "false"}}
<1>1. buildIssuesSummary(Rows(j)) = issues
  <2>1. \A i : i \in buildIssuesSummary(Rows(j)) => i \in issues
    <3> SUFFICES ASSUME NEW r \in Rows(j), r.result = "false"
                 PROVE  [metric |-> r.metric_id, severity |-> r.severity] \in issues
      BY DEF buildIssuesSummary
    <3> QED  BY DEF Rows
  <2>2. \A i : i \in issues => i \in buildIssuesSummary(Rows(j))
    <3> SUFFICES ASSUME NEW m \in AtomicMetrics, j[m].result = "false"
                 PROVE  [metric |-> m, severity |-> j[m].severity]
                          \in buildIssuesSummary(Rows(j))
      OBVIOUS
    <3>1. RowOfMetric(j, m) \in Rows(j)
      BY DEF Rows, RowOfMetric
    <3>2. /\ RowOfMetric(j, m).result = "false" /\ RowOfMetric(j, m).metric_id = m
          /\ RowOfMetric(j, m).severity = j[m].severity
      BY DEF RowOfMetric
    <3> HIDE DEF issues
    <3> QED  BY <3>1, <3>2 DEF buildIssuesSummary
  <2> HIDE DEF issues
  <2> QED  BY <2>1, <2>2
<1>2. \A i \in issues : isDisplaySeverity(i.severity)
  BY SeverityNames DEF Sound, ValidPair, isDisplaySeverity
<1> HIDE DEF issues
<1>3. toIssues(issues) = issues
  BY <1>2 DEF toIssues
<1> QED  BY <1>1, <1>3 DEF issues

\* An issue that stops a launch is a gate of the engine that is down.
LEMMA StopsAreGates ==
  ASSUME NEW j \in [AtomicMetrics -> Pairs], Sound(j)
  PROVE  (\E i \in toIssues(buildIssuesSummary(Rows(j))) :
            i.metric \in DOMAIN GatingRules /\ i.severity \in {"high", "critical"})
         <=> GatingFailures(Inputs(j)) # {}
<1>1. DOMAIN GatingRules = {"production_readiness", "policy_compliance"}
      /\ \A m \in DOMAIN GatingRules : GatingRules[m] = "high"
  BY DEF GatingRules
<1>2. \A m \in DOMAIN GatingRules : /\ m \in AtomicMetrics /\ m \in ScoredMetrics
                                    /\ Inputs(j)[m] = j[m] /\ ValidPair(j[m])
  BY <1>1, InputsOfJudgment, MetricNames DEF Sound, Composite
<1>3. \A m \in DOMAIN GatingRules :
        isGatingFailure(m, j[m]) <=>
          j[m].result = "false" /\ j[m].severity \in {"high", "critical"}
  BY <1>1, <1>2, SeverityNames DEF isGatingFailure, clampSeverity, ValidPair
<1>4. GatingFailures(Inputs(j)) # {} <=>
        \E m \in DOMAIN GatingRules :
          j[m].result = "false" /\ j[m].severity \in {"high", "critical"}
  BY <1>2, <1>3 DEF GatingFailures, isGatingFailure
<1>5. (\E i \in toIssues(buildIssuesSummary(Rows(j))) :
         i.metric \in DOMAIN GatingRules /\ i.severity \in {"high", "critical"})
      <=> \E m \in DOMAIN GatingRules :
            j[m].result = "false" /\ j[m].severity \in {"high", "critical"}
  <2> DEFINE issues == {[metric |-> m, severity |-> j[m].severity] :
                          m \in {n \in AtomicMetrics : j[n].result = "false"}}
  <2>1. toIssues(buildIssuesSummary(Rows(j))) = issues
    BY IssuesOfJudgment
  <2>2. \A i \in issues : \E m \in AtomicMetrics :
          /\ j[m].result = "false"
          /\ i.metric = m /\ i.severity = j[m].severity
    OBVIOUS
  <2>3. ASSUME NEW m \in AtomicMetrics, j[m].result = "false"
        PROVE  \E i \in issues : i.metric = m /\ i.severity = j[m].severity
    <3>1. [metric |-> m, severity |-> j[m].severity] \in issues
      BY <2>3
    <3> QED  BY <3>1
  <2> HIDE DEF issues
  <2> QED  BY <1>2, <2>1, <2>2, <2>3
<1> QED  BY <1>4, <1>5

\* Nothing failed and something could be assessed: the creative is ready.
LEMMA NothingFailed ==
  ASSUME NEW inputs, Valid(inputs),
         \A m \in ScoredMetrics : inputs[m].result # "false"
  PROVE  /\ GatingFailures(inputs) = {}
         /\ computeAdReadinessPct(inputs) \in {NoScore, 1000}
<1>1. GatingFailures(inputs) = {}
  BY DEF GatingFailures, isGatingFailure
<1>2. ASSUME Applicable(inputs) # {}
      PROVE  computeAdReadinessPct(inputs) = 1000
  <2>1. /\ WeightOf(Applicable(inputs)) > 0
        /\ Applicable(inputs) \in SUBSET Assessed(inputs, ScoredMetrics)
        /\ computeAdReadinessPct(inputs) = WeightedMean(inputs, Applicable(inputs))
    BY <1>2, PercentOfInputs
  <2>2. \A m \in Applicable(inputs) : inputs[m].result = "true"
    BY DEF Applicable, Assessed, Valid, ValidPair
  <2> QED  BY <2>1, <2>2, MeanOfMetrics
<1> QED  BY <1>1, <1>2, PercentOfInputs

\* The verdict and the list of issues agree, for every judgment.
LEMMA VerdictExplained == IssuesExplainVerdict
<1> SUFFICES ASSUME NEW j \in Judgments, Scored(j)
             PROVE  LET card  == Scorecard(Rows(j))
                        video == Video(card, buildIssuesSummary(Rows(j)))
                        stops == \E i \in video.issues :
                                   /\ i.metric \in DOMAIN GatingRules
                                   /\ i.severity \in {"high", "critical"}
                    IN  /\ video.summary = "no_issues_found" =>
                             emptyIssuesCopy(video.status) = "ready_to_ship"
                        /\ video.status = "ready" => video.score >= ReadyMin /\ ~stops
                        /\ stops => video.status = "nope"
                                      /\ card.first \in DOMAIN GatingRules
                        /\ video.status = "nope" /\ video.score > NeedsRevisionMin => stops
                        /\ video.status = "unassessed" => video.score = NoScore /\ ~stops
  BY DEF IssuesExplainVerdict
<1> DEFINE a == Inputs(j)
           issues == toIssues(buildIssuesSummary(Rows(j)))
           card == scoreEngine(a)
           video == Video(card, buildIssuesSummary(Rows(j)))
           p == computeAdReadinessPct(a)
           gates == GatingFailures(a)
           v == computeStatus(p, gates)
           stops == \E i \in video.issues :
                      i.metric \in DOMAIN GatingRules /\ i.severity \in {"high", "critical"}
<1>1. j \in [AtomicMetrics -> Pairs] /\ Sound(j)
  BY JudgmentsAssumption, ScorableRows DEF Scored
<1>2. Valid(a) /\ Scorecard(Rows(j)) = card
  BY <1>1, InputsOfJudgment, ScorecardOfJudgment DEF Valid
<1>3. /\ video.issues = issues
      /\ video.status = toShipStatus(v)
      /\ video.summary = buildSummary(issues, toShipStatus(v))
      /\ video.score = IF p = NoScore THEN NoScore ELSE roundInt(p)
      /\ card.first = FirstIssue(a)
  BY DEF Video, scoreEngine
<1>4. stops <=> gates # {}
  BY <1>1, <1>3, StopsAreGates
<1>5. issues = {[metric |-> m, severity |-> j[m].severity] :
                  m \in {n \in AtomicMetrics : j[n].result = "false"}}
  BY <1>1, IssuesOfJudgment
<1>6. p \in Int /\ (p = NoScore \/ (p >= 0 /\ p <= 1000))
  <2>1. CASE Applicable(a) = {}
    BY <1>2, <2>1, PercentOfInputs DEF NoScore
  <2>2. CASE Applicable(a) # {}
    <3>1. p \in 0 .. 1000
      BY <1>2, <2>2, PercentOfInputs
    <3> QED  BY <3>1
  <2> QED  BY <2>1, <2>2
<1>7. /\ gates # {} => v = "High_Risk"
      /\ gates = {} /\ p < 0 => v = "Cannot_Assess"
      /\ gates = {} /\ p >= 850 => v = "Ready"
      /\ gates = {} /\ 650 <= p /\ p < 850 => v = "Needs_Revision"
      /\ gates = {} /\ 0 <= p /\ p < 650 => v = "High_Risk"
  BY <1>6, VerdictOfPercent
<1>8. gates # {} => FirstIssue(a) \in DOMAIN GatingRules
  BY <1>2, FirstIsGate
<1>9. issues = {} => gates = {} /\ p \in {NoScore, 1000}
  <2> SUFFICES ASSUME issues = {}  PROVE gates = {} /\ p \in {NoScore, 1000}
    OBVIOUS
  <2>1. \A m \in AtomicMetrics : j[m].result # "false"
    BY <1>5
  <2>2. \A m \in ScoredMetrics \ {Composite} : a[m].result # "false"
    BY <1>1, <2>1, InputsOfJudgment, MetricNames DEF Composite
  <2>3. a[Composite].result # "false"
    <3>1. /\ j["audience_fit"].result # "false" /\ j["channel_readiness"].result # "false"
          /\ a[Composite] =
               combineAudienceChannelFit(j["audience_fit"], j["channel_readiness"])
      BY <1>1, <2>1, InputsOfJudgment, MetricNames
    <3>2. ValidPair(j["audience_fit"]) /\ ValidPair(j["channel_readiness"])
      BY <1>1, MetricNames DEF Sound
    <3> QED  BY <3>1, <3>2, Combined
  <2> QED  BY <1>2, <2>2, <2>3, NothingFailed
<1> HIDE DEF a, issues, card, video, p, gates, v, stops
<1>10. /\ toShipStatus(v) = "ready" <=> v = "Ready"
       /\ toShipStatus(v) = "nope" <=> v = "High_Risk"
       /\ v = "Cannot_Assess" => toShipStatus(v) = "unassessed"
       /\ toShipStatus(v) = "unassessed" =>
            v # "Ready" /\ v # "Needs_Revision" /\ v # "High_Risk"
  BY ShipStatus
<1>11. video.summary = "no_issues_found" => emptyIssuesCopy(video.status) = "ready_to_ship"
  <2> SUFFICES ASSUME video.summary = "no_issues_found"
               PROVE  emptyIssuesCopy(video.status) = "ready_to_ship"
    OBVIOUS
  <2>1. toShipStatus(v) # "unassessed" /\ issues = {}
    BY <1>3 DEF buildSummary
  <2>2. gates = {} /\ p = 1000
    BY <1>6, <1>7, <1>9, <1>10, <2>1 DEF NoScore
  <2>3. video.status = "ready"
    BY <1>3, <1>7, <1>10, <2>2
  <2> QED  BY <2>3 DEF emptyIssuesCopy
<1>12. video.status = "ready" => video.score >= ReadyMin /\ ~stops
  <2> SUFFICES ASSUME video.status = "ready"  PROVE video.score >= ReadyMin /\ ~stops
    OBVIOUS
  <2>1. v = "Ready"
    BY <1>3, <1>10
  <2>2. gates = {} /\ p >= 850
    BY <1>6, <1>7, <2>1 DEF NoScore
  <2> QED  BY <1>3, <1>4, <1>6, <2>2 DEF roundInt, ReadyMin, NoScore
<1>13. stops => video.status = "nope" /\ card.first \in DOMAIN GatingRules
  BY <1>3, <1>4, <1>7, <1>8, <1>10
<1>14. video.status = "nope" /\ video.score > NeedsRevisionMin => stops
  <2> SUFFICES ASSUME video.status = "nope", video.score > NeedsRevisionMin, gates = {}
               PROVE  FALSE
    BY <1>4
  <2>1. v = "High_Risk"
    BY <1>3, <1>10
  <2>2. 0 <= p /\ p < 650
    BY <1>6, <1>7, <2>1 DEF NoScore
  <2> QED  BY <1>3, <1>6, <2>2 DEF roundInt, NeedsRevisionMin, NoScore
<1>15. video.status = "unassessed" => video.score = NoScore /\ ~stops
  <2> SUFFICES ASSUME video.status = "unassessed"  PROVE video.score = NoScore /\ gates = {}
    BY <1>4
  <2>1. gates = {} /\ p < 0
    BY <1>3, <1>6, <1>7, <1>10
  <2> QED  BY <1>3, <1>6, <2>1 DEF NoScore
<1> QED  BY <1>2, <1>11, <1>12, <1>13, <1>14, <1>15 DEF card, video, stops

-----------------------------------------------------------------------------
(* The page says nothing of a creative that is not a function of its       *)
(* judgment, so what was proved of all judgments holds in every state.     *)

\* WorseRowsNeverHelp, for every judgment of every metric: no failure and no graver
\* one raises the per cent or betters the verdict, but the one that enters the score
\* only because it fails.
THEOREM WorseNeverHelp == Spec => []WorseRowsNeverHelp
<1>1. WorseRowsNeverHelp
  BY WorseNeverScores DEF WorseRowsNeverHelp
<1> QED  BY <1>1, PTL

\* HeadlineWithinBreakdown, for every judgment: the weights of the metrics and their
\* grouping under the bars are two tables, and the mean of all lies between the means
\* of the groups because the groups part the metrics that have a weight.
THEOREM HeadlineWithin == Spec => []HeadlineWithinBreakdown
<1>1. HeadlineWithinBreakdown
  BY HeadlineEnclosed DEF HeadlineWithinBreakdown
<1> QED  BY <1>1, PTL

\* VerdictIsExplained, for every judgment: verdict, per cent, head of the list of what
\* is to be fixed and list of issues agree though each is derived on its own.
THEOREM VerdictAlwaysExplained == Spec => []VerdictIsExplained
<1>1. VerdictIsExplained
  BY VerdictExplained DEF VerdictIsExplained
<1> QED  BY <1>1, PTL
=============================================================================
