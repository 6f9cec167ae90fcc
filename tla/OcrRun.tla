------------------------------- MODULE OcrRun -------------------------------
(***************************************************************************)
(* The OCR task of one Ad Creative: the durable OCR Run that its           *)
(* deliveries create or resume, the evidence frames they upload, and the   *)
(* immutable OCR Result that one of them stores.                           *)
(*                                                                         *)
(* MediaQueue abstracts all of this into one step (FinishOcr).  Here every *)
(* statement and every storage request is a step of its own.  A worker may *)
(* run while another does (its lease was lost), and may die at any step.   *)
(***************************************************************************)
EXTENDS Naturals, FiniteSets

CONSTANTS
  Workers,       \* worker replicas
  Frames,        \* source frames of the creative
  Images,        \* what decoding one of them may give
  MaxDeliveries, \* deliveries of the creative's message (MAX_RETRIES)
  TaskAttempts   \* settings.ANALYSIS_TASK_MAX_ATTEMPTS

None == "none"

\* What run_ocr returns, as far as durable evidence is concerned: the
\* representative frames and the image they were recognised in.
Analyses == [frames : SUBSET Frames, image : Images]

ASSUME OcrAssumption ==
  /\ MaxDeliveries \in Nat
  /\ TaskAttempts \in Nat \ {0}
  /\ None \notin Images

VARIABLES
  status,     \* ocr_runs.status, "absent" before the insert
  timing,     \* ocr_runs.timing_source and fallback_fps are recorded
  result,     \* the ocr_results header with its segments
  stored,     \* stored[f]: the object of frame f in the evidence bucket
  row,        \* video_processing.status of task 'ocr'
  acceptable, \* the video is at most 60 s long and has a usable frame rate
  at,         \* at[w]: where worker w is
  analysis,   \* analysis[w]: what w's run_ocr returned
  left,       \* left[w]: frames w has yet to store
  raised,     \* raised[w]: the exception on its way out of w's execute
  tries,      \* tries[w]: calls of execute in this delivery
  deliveries, \* deliveries so far
  overlapped  \* history: two workers have been on the run at once

runVars    == <<status, timing, result, stored>>
workerVars == <<at, analysis, left, raised, tries>>
deliveryVars == <<deliveries, overlapped>>
vars       == <<runVars, row, acceptable, workerVars, deliveryVars>>

NoAnalysis == [frames |-> {}, image |-> None]

TypeOK ==
  /\ status \in {"absent", "processing", "completed", "failed"}
  /\ timing \in BOOLEAN
  /\ result \in Analyses \cup {NoAnalysis}
  /\ stored \in [Frames -> Images \cup {None}]
  /\ row \in {"absent", "processing", "success", "error"}
  /\ acceptable \in BOOLEAN
  /\ at \in [Workers -> {"idle", "mark", "create", "check", "ocr",
                         "store", "complete", "project", "failing", "raised"}]
  /\ analysis \in [Workers -> Analyses \cup {NoAnalysis}]
  /\ left \in [Workers -> SUBSET Frames]
  /\ raised \in [Workers -> {None, "transient", "other"}]
  /\ tries \in [Workers -> 0..TaskAttempts]
  /\ deliveries \in 0..MaxDeliveries
  /\ overlapped \in BOOLEAN

Init ==
  /\ status = "absent" /\ timing = FALSE
  /\ result = NoAnalysis
  /\ stored = [f \in Frames |-> None]
  /\ row = "absent"
  /\ acceptable \in BOOLEAN
  /\ at = [w \in Workers |-> "idle"]
  /\ analysis = [w \in Workers |-> NoAnalysis]
  /\ left = [w \in Workers |-> {}]
  /\ raised = [w \in Workers |-> None]
  /\ tries = [w \in Workers |-> 0]
  /\ deliveries = 0
  /\ overlapped = FALSE

Goto(w, place) == at' = [at EXCEPT ![w] = place]

Raise(w, kind) ==
  /\ Goto(w, "failing")
  /\ raised' = [raised EXCEPT ![w] = kind]

Leave(w) ==
  /\ Goto(w, "idle")
  /\ analysis' = [analysis EXCEPT ![w] = NoAnalysis]
  /\ left' = [left EXCEPT ![w] = {}]
  /\ raised' = [raised EXCEPT ![w] = None]
  /\ tries' = [tries EXCEPT ![w] = 0]

-----------------------------------------------------------------------------
(* _run_analysis.                                                          *)

\* completed_analyzers does not hold 'ocr', so the task is scheduled.
Schedule(w) ==
  /\ at[w] = "idle" /\ deliveries < MaxDeliveries
  /\ row # "success"
  /\ deliveries' = deliveries + 1
  /\ overlapped' = (overlapped \/ \E v \in Workers : at[v] # "idle")
  /\ Goto(w, "mark")
  /\ UNCHANGED <<runVars, row, acceptable, analysis, left, raised, tries>>

MarkProcessing(w) ==
  /\ at[w] = "mark"
  /\ row' = "processing"
  /\ Goto(w, "create")
  /\ tries' = [tries EXCEPT ![w] = 1]
  /\ UNCHANGED <<runVars, acceptable, analysis, left, raised, deliveryVars>>

\* _with_retry calls execute again after a TransientError.
RetryTask(w) ==
  /\ at[w] = "raised" /\ raised[w] = "transient" /\ tries[w] < TaskAttempts
  /\ tries' = [tries EXCEPT ![w] = @ + 1]
  /\ raised' = [raised EXCEPT ![w] = None]
  /\ Goto(w, "create")
  /\ UNCHANGED <<runVars, row, acceptable, analysis, left, deliveryVars>>

PersistError(w) ==
  /\ at[w] = "raised"
  /\ raised[w] = "other" \/ tries[w] = TaskAttempts
  /\ row' = "error"
  /\ Leave(w)
  /\ UNCHANGED <<runVars, acceptable, deliveryVars>>

-----------------------------------------------------------------------------
(* OcrRunLifecycle.execute.                                                *)

\* Mutant: forgets to look at the status of the run it resumes.
CreateRun_Resume(w) ==
  /\ at[w] = "create"
  /\ status' = IF status = "absent" THEN "processing" ELSE status
  /\ Goto(w, "check")
  /\ UNCHANGED <<timing, result, stored, row, acceptable, analysis, left,
                 raised, tries, deliveryVars>>

\* INSERT ... ON CONFLICT DO UPDATE changes nothing of an existing run and
\* returns the status, on which the worker goes on.
CreateRun(w) ==
  /\ at[w] = "create"
  /\ status' = IF status = "absent" THEN "processing" ELSE status
  /\ Goto(w, IF status = "completed" THEN "project" ELSE "check")
  /\ UNCHANGED <<timing, result, stored, row, acceptable, analysis, left,
                 raised, tries, deliveryVars>>

\* Too long, or without a finite positive frame rate: PermanentError.
RejectMetadata(w) ==
  /\ at[w] = "check" /\ ~acceptable
  /\ Raise(w, "other")
  /\ UNCHANGED <<runVars, row, acceptable, analysis, left, tries, deliveryVars>>

RecordTiming(w) ==
  /\ at[w] = "check" /\ acceptable
  /\ timing' = TRUE
  /\ Goto(w, "ocr")
  /\ UNCHANGED <<status, result, stored, row, acceptable, analysis, left,
                 raised, tries, deliveryVars>>

OcrReturns(w, found) ==
  /\ at[w] = "ocr"
  /\ analysis' = [analysis EXCEPT ![w] = found]
  /\ left' = [left EXCEPT ![w] = found.frames]
  /\ Goto(w, "store")
  /\ UNCHANGED <<runVars, row, acceptable, raised, tries, deliveryVars>>

\* None: the run stays as it is, and so does the task's row.
OcrReturnsNone(w) ==
  /\ at[w] = "ocr"
  /\ Leave(w)
  /\ UNCHANGED <<runVars, row, acceptable, deliveryVars>>

\* run_ocr raises, or no completion coordinator is configured.
OcrRaises(w, kind) ==
  /\ at[w] = "ocr"
  /\ Raise(w, kind)
  /\ UNCHANGED <<runVars, row, acceptable, analysis, left, tries, deliveryVars>>

\* Mutant: takes 409 for an earlier upload of the same image.
StoreFrame_AnyConflict(w, f) ==
  /\ at[w] = "store" /\ f \in left[w]
  /\ stored' = [stored EXCEPT ![f] = IF @ = None THEN analysis[w].image ELSE @]
  /\ left' = [left EXCEPT ![w] = @ \ {f}]
  /\ UNCHANGED <<status, timing, result, row, acceptable, at, analysis,
                 raised, tries, deliveryVars>>

\* POST without upsert, and a GET that compares digests after a 409.
StoreFrame(w, f) ==
  /\ at[w] = "store" /\ f \in left[w]
  /\ stored[f] \in {None, analysis[w].image}
  /\ stored' = [stored EXCEPT ![f] = analysis[w].image]
  /\ left' = [left EXCEPT ![w] = @ \ {f}]
  /\ UNCHANGED <<status, timing, result, row, acceptable, at, analysis,
                 raised, tries, deliveryVars>>

FrameConflicts(w, f) ==
  /\ at[w] = "store" /\ f \in left[w]
  /\ stored[f] \notin {None, analysis[w].image}
  /\ Raise(w, "other")
  /\ UNCHANGED <<runVars, row, acceptable, analysis, left, tries, deliveryVars>>

\* The storage request fails; its object may have been stored all the same.
StorageFails(w, f, kind) ==
  /\ at[w] = "store" /\ f \in left[w]
  /\ \/ UNCHANGED stored
     \/ stored[f] = None /\ stored' = [stored EXCEPT ![f] = analysis[w].image]
  /\ Raise(w, kind)
  /\ UNCHANGED <<status, timing, result, row, acceptable, analysis, left, tries,
                 deliveryVars>>

EvidenceStored(w) ==
  /\ at[w] = "store" /\ left[w] = {}
  /\ Goto(w, "complete")
  /\ UNCHANGED <<runVars, row, acceptable, analysis, left, raised, tries, deliveryVars>>

\* Mutant: replaces the header of an earlier result.
CompleteRun_Replace(w) ==
  /\ at[w] = "complete"
  /\ result' = analysis[w] /\ status' = "completed"
  /\ Goto(w, "project")
  /\ UNCHANGED <<timing, stored, row, acceptable, analysis, left, raised, tries,
                 deliveryVars>>

\* Mutant: stores the result but leaves the status to the caller.
CompleteRun_KeepStatus(w) ==
  /\ at[w] = "complete"
  /\ result' = IF result = NoAnalysis THEN analysis[w] ELSE result
  /\ Goto(w, "project")
  /\ UNCHANGED <<status, timing, stored, row, acceptable, analysis, left, raised,
                 tries, deliveryVars>>

\* complete_ocr_run: header, segments and status in one transaction; when the
\* header exists it returns false and changes nothing.
CompleteRun(w) ==
  /\ at[w] = "complete"
  /\ IF result = NoAnalysis
     THEN result' = analysis[w] /\ status' = "completed"
     ELSE UNCHANGED <<result, status>>
  /\ Goto(w, "project")
  /\ UNCHANGED <<timing, stored, row, acceptable, analysis, left, raised, tries,
                 deliveryVars>>

\* A segment cites a frame that is not stored, or the database rejects the rows.
CompletionRaises(w) ==
  /\ at[w] = "complete"
  /\ Raise(w, "other")
  /\ UNCHANGED <<runVars, row, acceptable, analysis, left, tries, deliveryVars>>

\* _mark_failed, whatever the run has become.
MarkFailed(w) ==
  /\ at[w] = "failing"
  /\ status' = "failed"
  /\ Goto(w, "raised")
  /\ UNCHANGED <<timing, result, stored, row, acceptable, analysis, left, raised,
                 tries, deliveryVars>>

\* The database rejects a statement outside the two try blocks, or that of
\* _mark_failed; the exception leaves execute.
StatementFails(w) ==
  /\ at[w] \in {"create", "check", "failing", "project"}
  /\ Goto(w, "raised")
  /\ raised' = [raised EXCEPT ![w] = "other"]
  /\ UNCHANGED <<runVars, row, acceptable, analysis, left, tries, deliveryVars>>

\* _mark_shared_completed; the task then returns None.
MarkSharedCompleted(w) ==
  /\ at[w] = "project"
  /\ row' = "success"
  /\ Leave(w)
  /\ UNCHANGED <<runVars, acceptable, deliveryVars>>

\* The process dies or loses its connection.
Crash(w) ==
  /\ at[w] # "idle"
  /\ Leave(w)
  /\ UNCHANGED <<runVars, row, acceptable, deliveryVars>>

-----------------------------------------------------------------------------
Step(w) ==
  \/ Schedule(w) \/ MarkProcessing(w) \/ RetryTask(w) \/ PersistError(w)
  \/ CreateRun(w) \/ RejectMetadata(w) \/ RecordTiming(w)
  \/ \E found \in Analyses : OcrReturns(w, found)
  \/ OcrReturnsNone(w)
  \/ \E kind \in {"transient", "other"} : OcrRaises(w, kind)
  \/ \E f \in Frames :
       \/ StoreFrame(w, f) \/ FrameConflicts(w, f)
       \/ \E kind \in {"transient", "other"} : StorageFails(w, f, kind)
  \/ EvidenceStored(w) \/ CompleteRun(w) \/ CompletionRaises(w)
  \/ MarkFailed(w) \/ StatementFails(w) \/ MarkSharedCompleted(w)
  \/ Crash(w)

Next == \E w \in Workers : Step(w)

Spec == Init /\ [][Next]_vars

-----------------------------------------------------------------------------
(* Properties.                                                             *)

\* However many replicas work on the run and wherever they die, the first
\* result stands and the task succeeds only over a durable result.
Promise == INSTANCE OcrResult
             WITH Results <- Analyses, NoResult <- NoAnalysis,
                  announced <- (row = "success")
ImplementsOcrResult == Promise!Spec

\* Every frame an OCR Result cites is in the bucket, as the very image that was
\* recognised, whoever uploaded it and however many uploads failed before.
ResultIsEvidenced ==
  result # NoAnalysis =>
    timing /\ \A f \in result.frames : stored[f] = result.image

\* As long as its deliveries have followed one another, whatever crashed and was
\* retried: the run is completed exactly when its result exists.
StatusMatchesResult ==
  ~overlapped => ((status = "completed") <=> (result # NoAnalysis))

\* "Durable completion is authoritative on redelivery, so OCR must not be
\* repeated even when the queue delivers the request again" (ocr_runs.py:62):
\* no execution that finds the result in place goes on to OCR, unless another
\* replica was on the run at the same time.
OcrIsNotRepeated ==
  [][\A w \in Workers :
       at[w] = "create" /\ at'[w] = "check" /\ ~overlapped => result = NoAnalysis]_vars
=============================================================================
