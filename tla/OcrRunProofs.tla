---------------------------- MODULE OcrRunProofs ----------------------------
(***************************************************************************)
(* What holds of an OCR Run for any number of replicas, deliveries,        *)
(* retries, frames and images.                                             *)
(***************************************************************************)
EXTENDS OcrRun, TLAPS

\* A worker that stores evidence has recorded the timing, and every frame it is
\* done with is in the bucket as the image it analysed.
EvidenceInProgress ==
  \A w \in Workers :
    /\ at[w] \in {"ocr", "store", "complete"} => timing
    /\ at[w] \in {"store", "complete"} =>
         /\ analysis[w] \in Analyses
         /\ \A f \in analysis[w].frames \ left[w] : stored[f] = analysis[w].image
    /\ at[w] = "complete" => left[w] = {}

\* A completed status, and a worker about to announce success, have a result.
SuccessHasResult ==
  /\ status = "completed" => result # NoAnalysis
  /\ \A w \in Workers : at[w] = "project" => result # NoAnalysis

IInv ==
  /\ TypeOK
  /\ EvidenceInProgress
  /\ SuccessHasResult
  /\ ResultIsEvidenced

\* An analysis is a record of frames and image, as is its absence.
LEMMA AnalysisIsRecord ==
  /\ NoAnalysis \notin Analyses
  /\ \A x \in Analyses : x.frames \subseteq Frames /\ x.image \in Images /\ x.image # None
  BY OcrAssumption DEF Analyses, NoAnalysis

\* Nothing is stored yet.
LEMMA InitIInv == Init => IInv
<1> SUFFICES ASSUME Init PROVE IInv
  OBVIOUS
<1>1. TypeOK
  <2>1. at \in [Workers -> {"idle"}] /\ tries \in [Workers -> {0}] /\ 0 \in 0..TaskAttempts
    BY OcrAssumption DEF Init
  <2>2. deliveries \in 0..MaxDeliveries
    BY OcrAssumption DEF Init
  <2> QED  BY <2>1, <2>2 DEF Init, TypeOK
<1>2. EvidenceInProgress /\ SuccessHasResult /\ ResultIsEvidenced
  BY DEF Init, EvidenceInProgress, SuccessHasResult, ResultIsEvidenced
<1> QED  BY <1>1, <1>2 DEF IInv

\* A step of w that neither stores evidence nor completes: it stays away from
\* the bucket and the result, and enters no state that promises either.
QuietStep(w) ==
  /\ status' \in {"absent", "processing", "completed", "failed"}
  /\ status' = "completed" => status = "completed"
  /\ timing' \in BOOLEAN /\ (timing => timing')
  /\ row' \in {"absent", "processing", "success", "error"}
  /\ row' = "success" => row = "success" \/ result # NoAnalysis
  /\ UNCHANGED <<result, stored, acceptable>>
  /\ at' \in [Workers -> {"idle", "mark", "create", "check", "ocr",
                          "store", "complete", "project", "failing", "raised"}]
  /\ \A v \in Workers \ {w} :
       at'[v] = at[v] /\ analysis'[v] = analysis[v] /\ left'[v] = left[v]
  /\ at'[w] \notin {"store", "complete"}
  /\ at'[w] = "ocr" => timing'
  /\ at'[w] = "project" => status = "completed"
  /\ analysis' \in [Workers -> Analyses \cup {NoAnalysis}]
  /\ left' \in [Workers -> SUBSET Frames]
  /\ raised' \in [Workers -> {None, "transient", "other"}]
  /\ tries' \in [Workers -> 0..TaskAttempts]
  /\ deliveries' \in 0..MaxDeliveries
  /\ overlapped' \in BOOLEAN

\* A step that touches neither result nor evidence keeps the invariant.
LEMMA QuietStepKeeps ==
  ASSUME IInv, NEW w \in Workers, QuietStep(w)
  PROVE  IInv'
<1> USE DEF IInv, QuietStep
<1>1. TypeOK'
  BY DEF TypeOK
<1>2. EvidenceInProgress'
  <2> SUFFICES ASSUME NEW v \in Workers
               PROVE  /\ at'[v] \in {"ocr", "store", "complete"} => timing'
                      /\ at'[v] \in {"store", "complete"} =>
                           /\ analysis'[v] \in Analyses
                           /\ \A f \in analysis'[v].frames \ left'[v] :
                                stored'[f] = analysis'[v].image
                      /\ at'[v] = "complete" => left'[v] = {}
    BY DEF EvidenceInProgress
  <2>1. CASE v = w  BY <2>1
  <2>2. CASE v # w  BY <2>2 DEF EvidenceInProgress
  <2> QED  BY <2>1, <2>2
<1>3. SuccessHasResult'
  BY DEF SuccessHasResult
<1>4. ResultIsEvidenced'
  BY DEF ResultIsEvidenced
<1> QED  BY <1>1, <1>2, <1>3, <1>4

Quiet(w) ==
  \/ Schedule(w) \/ MarkProcessing(w) \/ RetryTask(w) \/ PersistError(w)
  \/ CreateRun(w) \/ RejectMetadata(w) \/ RecordTiming(w) \/ OcrReturnsNone(w)
  \/ (\E kind \in {"transient", "other"} : OcrRaises(w, kind))
  \/ (\E f \in Frames : FrameConflicts(w, f))
  \/ CompletionRaises(w) \/ MarkFailed(w) \/ StatementFails(w)
  \/ MarkSharedCompleted(w) \/ Crash(w)

\* All steps but those of the evidence and the completion are such steps.
LEMMA QuietIsQuiet ==
  ASSUME IInv, NEW w \in Workers, Quiet(w)
  PROVE  QuietStep(w)
<1> USE OcrAssumption DEF IInv, TypeOK, runVars, deliveryVars, Goto, Raise, Leave, QuietStep
<1>1. CASE Schedule(w)  BY <1>1 DEF Schedule
<1>2. CASE MarkProcessing(w)  BY <1>2 DEF MarkProcessing
<1>3. CASE RetryTask(w)  BY <1>3 DEF RetryTask
<1>4. CASE PersistError(w)  BY <1>4 DEF PersistError
<1>5. CASE CreateRun(w)  BY <1>5 DEF CreateRun
<1>6. CASE RejectMetadata(w)  BY <1>6 DEF RejectMetadata
<1>7. CASE RecordTiming(w)  BY <1>7 DEF RecordTiming
<1>8. CASE OcrReturnsNone(w)  BY <1>8 DEF OcrReturnsNone
<1>9. CASE \E kind \in {"transient", "other"} : OcrRaises(w, kind)
  BY <1>9 DEF OcrRaises
<1>10. CASE \E f \in Frames : FrameConflicts(w, f)  BY <1>10 DEF FrameConflicts
<1>11. CASE CompletionRaises(w)  BY <1>11 DEF CompletionRaises
<1>12. CASE MarkFailed(w)  BY <1>12 DEF MarkFailed
<1>13. CASE MarkSharedCompleted(w)
  BY <1>13 DEF MarkSharedCompleted, SuccessHasResult
<1>14. CASE Crash(w)  BY <1>14 DEF Crash
<1>15. CASE StatementFails(w)  BY <1>15 DEF StatementFails
<1> QED
  BY <1>1, <1>2, <1>3, <1>4, <1>5, <1>6, <1>7, <1>8, <1>9, <1>10, <1>11, <1>12,
     <1>13, <1>14, <1>15 DEF Quiet

\* Only the step of w itself touches what EvidenceInProgress says of w, and the
\* bucket only ever gains frames.
BucketGrows == \A f \in Frames : stored[f] # None => stored'[f] = stored[f]

OthersKeep(w) ==
  /\ BucketGrows
  /\ timing' = timing
  /\ \A v \in Workers \ {w} :
       at'[v] = at[v] /\ analysis'[v] = analysis[v] /\ left'[v] = left[v]

EvidenceOf(w) ==
  /\ at[w] \in {"ocr", "store", "complete"} => timing
  /\ at[w] \in {"store", "complete"} =>
       /\ analysis[w] \in Analyses
       /\ \A f \in analysis[w].frames \ left[w] : stored[f] = analysis[w].image
  /\ at[w] = "complete" => left[w] = {}

\* What one replica does leaves the evidence of the others in place.
LEMMA OthersEvidence ==
  ASSUME IInv, NEW w \in Workers, OthersKeep(w), EvidenceOf(w)'
  PROVE  EvidenceInProgress'
<1> SUFFICES ASSUME NEW v \in Workers  PROVE EvidenceOf(v)'
  BY DEF EvidenceInProgress, EvidenceOf
<1>1. CASE v = w  BY <1>1
<1>2. CASE v # w
  <2>1. EvidenceOf(v)  BY DEF IInv, EvidenceInProgress, EvidenceOf
  <2>2. at'[v] = at[v] /\ analysis'[v] = analysis[v] /\ left'[v] = left[v] /\ timing' = timing
    BY <1>2 DEF OthersKeep
  <2>3. ASSUME at[v] \in {"store", "complete"}, NEW f \in analysis[v].frames \ left[v]
        PROVE  stored'[f] = analysis[v].image
    <3>1. f \in Frames /\ stored[f] = analysis[v].image /\ analysis[v].image # None
      BY <2>1, <2>3, AnalysisIsRecord DEF EvidenceOf
    <3> QED  BY <3>1 DEF OthersKeep, BucketGrows
  <2> QED  BY <2>1, <2>2, <2>3 DEF EvidenceOf
<1> QED  BY <1>1, <1>2

\* Evidence that only grows keeps that of the result.
LEMMA GrowthKeepsResult ==
  ASSUME IInv, BucketGrows, UNCHANGED <<result, timing>>
  PROVE  ResultIsEvidenced'
<1>1. ASSUME result # NoAnalysis, NEW f \in result.frames
      PROVE  stored'[f] = result.image
  <2>1. result \in Analyses  BY <1>1 DEF IInv, TypeOK
  <2>2. f \in Frames /\ stored[f] = result.image /\ result.image # None
    BY <1>1, <2>1, AnalysisIsRecord DEF IInv, ResultIsEvidenced
  <2> QED  BY <2>2 DEF BucketGrows
<1> QED  BY <1>1 DEF IInv, ResultIsEvidenced

\* The replica has its analysis, and all frames to store.
LEMMA OcrReturnsStep ==
  ASSUME IInv, NEW w \in Workers, NEW found \in Analyses, OcrReturns(w, found)
  PROVE  IInv'
<1> USE DEF OcrReturns, Goto, runVars, deliveryVars
<1>1. TypeOK'
  BY AnalysisIsRecord DEF IInv, TypeOK
<1>2. OthersKeep(w) /\ EvidenceOf(w)'
  BY DEF OthersKeep, BucketGrows, EvidenceOf, IInv, TypeOK, EvidenceInProgress
<1>3. SuccessHasResult' /\ ResultIsEvidenced'
  BY DEF IInv, TypeOK, SuccessHasResult, ResultIsEvidenced
<1> QED  BY <1>1, <1>2, <1>3, OthersEvidence DEF IInv

\* A frame is stored, or found to be stored already.
LEMMA StoreFrameStep ==
  ASSUME IInv, NEW w \in Workers, NEW f \in Frames, StoreFrame(w, f)
  PROVE  IInv'
<1> USE DEF StoreFrame, deliveryVars
<1>0. analysis[w] \in Analyses /\ analysis[w].image \in Images
  BY AnalysisIsRecord DEF IInv, EvidenceInProgress
<1>1. TypeOK'
  BY <1>0 DEF IInv, TypeOK
<1>2. OthersKeep(w)
  BY DEF OthersKeep, BucketGrows, IInv, TypeOK
<1>3. EvidenceOf(w)'
  BY <1>0, AnalysisIsRecord DEF EvidenceOf, IInv, TypeOK, EvidenceInProgress
<1>4. SuccessHasResult' /\ ResultIsEvidenced'
  BY <1>2, GrowthKeepsResult DEF IInv, SuccessHasResult, OthersKeep
<1> QED  BY <1>1, <1>2, <1>3, <1>4, OthersEvidence DEF IInv

\* The store fails, and what it has stored stays.
LEMMA StorageFailsStep ==
  ASSUME IInv, NEW w \in Workers, NEW f \in Frames, NEW kind \in {"transient", "other"},
         StorageFails(w, f, kind)
  PROVE  IInv'
<1> USE DEF StorageFails, Raise, Goto, deliveryVars
<1>0. analysis[w] \in Analyses /\ analysis[w].image \in Images
  BY AnalysisIsRecord DEF IInv, EvidenceInProgress
<1>1. TypeOK'
  BY <1>0 DEF IInv, TypeOK
<1>2. OthersKeep(w)
  BY DEF OthersKeep, BucketGrows, IInv, TypeOK
<1>3. EvidenceOf(w)'
  BY DEF EvidenceOf, IInv, TypeOK
<1>4. SuccessHasResult' /\ ResultIsEvidenced'
  BY <1>2, GrowthKeepsResult DEF IInv, TypeOK, SuccessHasResult, OthersKeep
<1> QED  BY <1>1, <1>2, <1>3, <1>4, OthersEvidence DEF IInv

\* No frame is left to store.
LEMMA EvidenceStoredStep ==
  ASSUME IInv, NEW w \in Workers, EvidenceStored(w)
  PROVE  IInv'
<1> USE DEF EvidenceStored, Goto, runVars, deliveryVars
<1>1. TypeOK'
  BY DEF IInv, TypeOK
<1>2. OthersKeep(w) /\ EvidenceOf(w)'
  BY DEF OthersKeep, BucketGrows, EvidenceOf, IInv, TypeOK, EvidenceInProgress
<1>3. SuccessHasResult' /\ ResultIsEvidenced'
  BY DEF IInv, TypeOK, SuccessHasResult, ResultIsEvidenced
<1> QED  BY <1>1, <1>2, <1>3, OthersEvidence DEF IInv

\* The result is written behind its evidence, or is there already.
LEMMA CompleteRunStep ==
  ASSUME IInv, NEW w \in Workers, CompleteRun(w)
  PROVE  IInv'
<1> USE DEF CompleteRun, Goto, deliveryVars
<1>0. /\ analysis[w] \in Analyses /\ analysis[w] # NoAnalysis /\ timing
      /\ \A f \in analysis[w].frames : stored[f] = analysis[w].image
  BY AnalysisIsRecord DEF IInv, EvidenceInProgress
<1>1. TypeOK'
  BY <1>0 DEF IInv, TypeOK
<1>2. OthersKeep(w) /\ EvidenceOf(w)'
  BY DEF OthersKeep, BucketGrows, EvidenceOf, IInv, TypeOK
<1>3. result' # NoAnalysis
  BY <1>0
<1>4. SuccessHasResult'
  BY <1>3 DEF SuccessHasResult
<1>5. ResultIsEvidenced'
  BY <1>0 DEF IInv, ResultIsEvidenced
<1> QED  BY <1>1, <1>2, <1>4, <1>5, OthersEvidence DEF IInv

\* Every step keeps the invariant.
LEMMA NextIInv == IInv /\ [Next]_vars => IInv'
<1> SUFFICES ASSUME IInv, [Next]_vars  PROVE IInv'
  OBVIOUS
<1>1. CASE UNCHANGED vars
  BY <1>1 DEF vars, runVars, workerVars, deliveryVars, IInv, TypeOK, EvidenceInProgress,
              SuccessHasResult, ResultIsEvidenced
<1>2. ASSUME NEW w \in Workers, Step(w)  PROVE IInv'
  <2>1. CASE Quiet(w)  BY <2>1, QuietIsQuiet, QuietStepKeeps
  <2>2. CASE \E found \in Analyses : OcrReturns(w, found)  BY <2>2, OcrReturnsStep
  <2>3. CASE \E f \in Frames : StoreFrame(w, f)  BY <2>3, StoreFrameStep
  <2>4. CASE \E f \in Frames, kind \in {"transient", "other"} : StorageFails(w, f, kind)
    BY <2>4, StorageFailsStep
  <2>5. CASE EvidenceStored(w)  BY <2>5, EvidenceStoredStep
  <2>6. CASE CompleteRun(w)  BY <2>6, CompleteRunStep
  <2> QED  BY <1>2, <2>1, <2>2, <2>3, <2>4, <2>5, <2>6 DEF Step, Quiet
<1> QED  BY <1>1, <1>2 DEF Next

\* The types, and the evidence behind every OCR Result: each frame it cites is
\* stored as the image that was recognised.
THEOREM ResultsAreEvidenced == Spec => [](TypeOK /\ ResultIsEvidenced)
<1>1. IInv => TypeOK /\ ResultIsEvidenced  BY DEF IInv
<1> QED  BY <1>1, InitIInv, NextIInv, PTL DEF Spec

\* Every step of an OCR Run stores the first result, announces a stored one,
\* withdraws an announcement, or changes nothing a reader can see.
LEMMA StepRefines ==
  ASSUME IInv, [Next]_vars
  PROVE  [Promise!Next]_<<result, row = "success">>
<1> USE DEF Promise!Next, Promise!Store, Promise!Announce, Promise!Withdraw
<1>1. CASE UNCHANGED vars
  BY <1>1 DEF vars, runVars
<1>2. ASSUME NEW w \in Workers, Step(w)
      PROVE  [Promise!Next]_<<result, row = "success">>
  <2>1. CASE Quiet(w)
    <3>1. result' = result /\ (row' = "success" => row = "success" \/ result # NoAnalysis)
      BY <2>1, QuietIsQuiet DEF QuietStep
    <3>2. CASE row' = "success" /\ row # "success"  BY <3>1, <3>2
    <3>3. CASE row' # "success" /\ row = "success"  BY <3>1, <3>3
    <3>4. CASE (row' = "success") = (row = "success")  BY <3>1, <3>4
    <3> QED  BY <3>2, <3>3, <3>4
  <2>2. CASE CompleteRun(w)
    <3>1. analysis[w] \in Analyses  BY <2>2 DEF IInv, EvidenceInProgress, CompleteRun
    <3>2. row' = row  BY <2>2 DEF CompleteRun
    <3> QED  BY <2>2, <3>1, <3>2 DEF CompleteRun
  <2>3. CASE \/ \E found \in Analyses : OcrReturns(w, found)
             \/ \E f \in Frames : StoreFrame(w, f)
             \/ \E f \in Frames, kind \in {"transient", "other"} : StorageFails(w, f, kind)
             \/ EvidenceStored(w)
    BY <2>3 DEF OcrReturns, StoreFrame, StorageFails, EvidenceStored, runVars
  <2> QED  BY <1>2, <2>1, <2>2, <2>3 DEF Step, Quiet
<1> QED  BY <1>1, <1>2 DEF Next

\* An OCR Run keeps its promise for any number of replicas: the first result
\* stands, and success is announced only over a result.
THEOREM Refinement == Spec => ImplementsOcrResult
<1>1. Init => Promise!Init  BY DEF Init, Promise!Init
<1>2. IInv /\ [Next]_vars => [Promise!Next]_<<result, row = "success">>
  BY StepRefines
<1> QED
  BY <1>1, <1>2, InitIInv, NextIInv, PTL DEF Spec, ImplementsOcrResult, Promise!Spec

-----------------------------------------------------------------------------
\* As long as deliveries follow one another only one worker is on the run, and
\* between its look at the status and the completion there is no result yet.
SequentialInv ==
  ~overlapped =>
    /\ \A v, w \in Workers : at[v] # "idle" /\ at[w] # "idle" => v = w
    /\ (status = "completed") <=> (result # NoAnalysis)
    /\ \A w \in Workers :
         at[w] \in {"check", "ocr", "store", "complete", "failing"} =>
           result = NoAnalysis

\* The first delivery finds nothing done.
LEMMA InitSequential == Init => SequentialInv
  BY DEF Init, SequentialInv

\* A step of the worker that is alone on the run, the others being idle.
LEMMA NextSequential ==
  ASSUME IInv, SequentialInv, [Next]_vars
  PROVE  /\ SequentialInv'
         /\ \A w \in Workers :
              at[w] = "create" /\ at'[w] = "check" /\ ~overlapped => result = NoAnalysis
<1> USE DEF SequentialInv
<1>1. CASE UNCHANGED vars
  BY <1>1 DEF vars, runVars, workerVars, deliveryVars
<1>2. ASSUME NEW w \in Workers, Step(w)
      PROVE  /\ SequentialInv'
             /\ \A v \in Workers :
                  at[v] = "create" /\ at'[v] = "check" /\ ~overlapped => result = NoAnalysis
  <2> USE DEF IInv, TypeOK, Goto, Raise, Leave, runVars, deliveryVars
  <2>1. CASE Schedule(w)
    BY <2>1 DEF Schedule
  <2>2. CASE MarkProcessing(w) \/ RetryTask(w) \/ PersistError(w)
    BY <2>2 DEF MarkProcessing, RetryTask, PersistError
  <2>3. CASE CreateRun(w)  BY <2>3 DEF CreateRun
  <2>4. CASE RejectMetadata(w) \/ RecordTiming(w) \/ OcrReturnsNone(w)
    BY <2>4 DEF RejectMetadata, RecordTiming, OcrReturnsNone
  <2>5. CASE (\E found \in Analyses : OcrReturns(w, found))
             \/ (\E kind \in {"transient", "other"} : OcrRaises(w, kind))
    BY <2>5 DEF OcrReturns, OcrRaises
  <2>6. CASE \E f \in Frames :
               \/ StoreFrame(w, f) \/ FrameConflicts(w, f)
               \/ \E kind \in {"transient", "other"} : StorageFails(w, f, kind)
    BY <2>6 DEF StoreFrame, FrameConflicts, StorageFails
  <2>7. CASE EvidenceStored(w) \/ CompletionRaises(w) \/ MarkFailed(w)
    BY <2>7 DEF EvidenceStored, CompletionRaises, MarkFailed
  <2>8. CASE CompleteRun(w)
    <3>1. analysis[w] # NoAnalysis
      BY <2>8, AnalysisIsRecord DEF CompleteRun, EvidenceInProgress
    <3> QED  BY <2>8, <3>1 DEF CompleteRun
  <2>9. CASE StatementFails(w) \/ MarkSharedCompleted(w) \/ Crash(w)
    BY <2>9 DEF StatementFails, MarkSharedCompleted, Crash
  <2> QED  BY <1>2, <2>1, <2>2, <2>3, <2>4, <2>5, <2>6, <2>7, <2>8, <2>9 DEF Step
<1> QED  BY <1>1, <1>2 DEF Next

\* As long as deliveries have followed one another, the run is completed exactly
\* when its result exists, through every crash, failure and retry.
THEOREM SequentialStatus == Spec => []StatusMatchesResult
<1>1. IInv /\ SequentialInv /\ [Next]_vars => SequentialInv'  BY NextSequential
<1>2. SequentialInv => StatusMatchesResult  BY DEF SequentialInv, StatusMatchesResult
<1> QED  BY <1>1, <1>2, InitIInv, NextIInv, InitSequential, PTL DEF Spec

\* As long as deliveries have followed one another, none goes on to OCR once the
\* result is durable.
THEOREM SequentialOnce == Spec => OcrIsNotRepeated
<1>1. IInv /\ SequentialInv /\ [Next]_vars => SequentialInv'  BY NextSequential
<1>2. IInv /\ SequentialInv /\ [Next]_vars =>
        [\A w \in Workers :
           at[w] = "create" /\ at'[w] = "check" /\ ~overlapped => result = NoAnalysis]_vars
  BY NextSequential
<1> QED
  BY <1>1, <1>2, InitIInv, NextIInv, InitSequential, PTL DEF Spec, OcrIsNotRepeated
=============================================================================
