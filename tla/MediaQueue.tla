----------------------------- MODULE MediaQueue -----------------------------
(***************************************************************************)
(* Media Processing: the Railway workers, the pgmq queue "jobs", the       *)
(* video_processing rows of each Ad Creative and the database trigger that *)
(* dispatches the evaluators once those rows are finished.                 *)
(*                                                                         *)
(* A message of pgmq is read under a lease (the visibility timeout), which *)
(* a heartbeat thread renews.  read_ct counts its deliveries.  Every action*)
(* below is one autocommitted statement, or one transaction, of a worker,  *)
(* with the trigger that runs inside it.                                   *)
(*                                                                         *)
(* Time is abstract: a lease may run out whenever no worker is entitled to *)
(* keep it (HoldsLease), and a backoff delay may end at any moment.        *)
(***************************************************************************)
EXTENDS Naturals, FiniteSets

CONSTANTS
  Jobs,           \* Ad Creatives: one requests row and one pgmq message each
  Workers,        \* worker replicas, each draining the queue sequentially
  Tasks,          \* the analysis tasks that are scheduled for a creative
  OcrTask,        \* the task that writes its own video_processing row
  SkippableTasks, \* tasks that may return None (no audio track, no OCR adapter)
  MaxRetries,     \* settings.MAX_RETRIES
  PromptSteps,    \* steps assumed to end before an unrenewed lease does
  MaxCrashes,     \* bound on process deaths and lost connections
  MaxMissedBeats, \* bound on heartbeats that stop renewing the lease
  NoJob           \* "this worker has no message"

\* The steps of a worker outside its idle loop, in program order.
Processing == {"start", "prepare", "plan", "analyse", "finish"}
Steps == Processing \cup
         {"idle", "exhausted", "archive", "delete", "fail", "retry"}

ASSUME ConstantsAssumption ==
  /\ IsFiniteSet(Tasks) /\ Tasks # {}
  /\ OcrTask \in Tasks
  /\ SkippableTasks \subseteq Tasks
  /\ MaxRetries \in Nat
  /\ PromptSteps \subseteq Steps
  /\ MaxCrashes \in Nat /\ MaxMissedBeats \in Nat
  /\ NoJob \notin Jobs

VARIABLES
  queue,     \* queue[j]: where message j is in pgmq
  visible,   \* visible[j]: its visibility timeout has passed
  readCt,    \* readCt[j]: pgmq's read_ct
  media,     \* media[j]: requests.media_processing_status and failure_code
  row,       \* row[j][t]: video_processing.status, "absent" before its insert
  triggered, \* triggered[j]: requests.agents_triggered_at is not null
  step,      \* step[w]: where worker w is
  job,       \* job[w]: the message w has read
  delivery,  \* delivery[w]: read_ct as w read it
  plan,      \* plan[w][t]: how far w is with task t of its message
  beat,      \* beat[w]: state of w's heartbeat thread
  crashes,   \* process deaths so far
  missed     \* heartbeat failures so far

queueVars  == <<queue, visible, readCt>>
dbVars     == <<media, row, triggered>>
workerVars == <<step, job, delivery, plan, beat>>
faultVars  == <<crashes, missed>>
vars       == <<queueVars, dbVars, workerVars, faultVars>>

\* "failed" and "exhausted" are status 'failed' with the codes
\* media_processing_failed and media_processing_retries_exhausted.
MediaStatus == {"null", "processing", "completed", "failed", "exhausted"}
Terminal    == {"completed", "failed", "exhausted"}
RowStatus   == {"absent", "processing", "success", "error"}
Finished    == {"success", "error"}

\* "skip": not scheduled; "mark": to be marked processing; "run": running;
\* "result", "transient", "permanent": outcomes _run_analysis collects; "done":
\* None, or a persisted result; "failed", "fatal": a persisted error.
Progress == {"skip", "mark", "run", "result", "transient", "permanent",
             "done", "failed", "fatal"}

TypeOK ==
  /\ queue \in [Jobs -> {"unsent", "queued", "deleted", "archived"}]
  /\ visible \in [Jobs -> BOOLEAN]
  /\ readCt \in [Jobs -> Nat]
  /\ media \in [Jobs -> MediaStatus]
  /\ row \in [Jobs -> [Tasks -> RowStatus]]
  /\ triggered \in [Jobs -> BOOLEAN]
  /\ step \in [Workers -> Steps]
  /\ job \in [Workers -> Jobs \cup {NoJob}]
  /\ delivery \in [Workers -> Nat]
  /\ plan \in [Workers -> [Tasks -> Progress]]
  /\ beat \in [Workers -> {"off", "alive", "missed"}]
  /\ crashes \in 0..MaxCrashes
  /\ missed \in 0..MaxMissedBeats

Init ==
  /\ queue = [j \in Jobs |-> "unsent"]
  /\ visible = [j \in Jobs |-> FALSE]
  /\ readCt = [j \in Jobs |-> 0]
  /\ media = [j \in Jobs |-> "null"]
  /\ row = [j \in Jobs |-> [t \in Tasks |-> "absent"]]
  /\ triggered = [j \in Jobs |-> FALSE]
  /\ step = [w \in Workers |-> "idle"]
  /\ job = [w \in Workers |-> NoJob]
  /\ delivery = [w \in Workers |-> 0]
  /\ plan = [w \in Workers |-> [t \in Tasks |-> "skip"]]
  /\ beat = [w \in Workers |-> "off"]
  /\ crashes = 0
  /\ missed = 0

-----------------------------------------------------------------------------
(* The database side.                                                      *)

\* Inserting the requests row enqueues its message in the same transaction. A
\* client's retry re-sends the same request_id and inserts nothing.
Submit(j) ==
  /\ queue[j] = "unsent"
  /\ queue' = [queue EXCEPT ![j] = "queued"]
  /\ visible' = [visible EXCEPT ![j] = TRUE]
  /\ UNCHANGED <<readCt, dbVars, workerVars, faultVars>>

\* video_processing_all_done, over the rows of one creative.
AllDone(rows) == \A t \in Tasks : rows[t] # "processing"

\* _upsert_processing, with the trigger of an UPDATE to a finished status (an
\* INSERT does not fire it) and its agents_triggered_at guard.
SetRow(j, t, status) ==
  LET rows == [row[j] EXCEPT ![t] = status] IN
  /\ row' = [row EXCEPT ![j] = rows]
  /\ triggered' = [triggered EXCEPT ![j] =
       @ \/ (status # "processing" /\ row[j][t] # "absent" /\ AllDone(rows))]

SetMedia(w, status) == media' = [media EXCEPT ![job[w]] = status]

\* pgmq.set_vt with a positive offset, whoever asks; nothing happens to a
\* message that has been deleted or archived.
Hide(j) ==
  visible' = [visible EXCEPT ![j] = IF queue[j] = "queued" THEN FALSE ELSE @]

\* pgmq.delete and pgmq.archive, which find no message the second time.
Remove(j, place) ==
  queue' = [queue EXCEPT ![j] = IF @ = "queued" THEN place ELSE @]

-----------------------------------------------------------------------------
(* A worker.                                                               *)

Goto(w, s) == step' = [step EXCEPT ![w] = s]

\* Back to the top of drain_queue's loop, or a new process after a crash.
Release(w) ==
  /\ step' = [step EXCEPT ![w] = "idle"]
  /\ job' = [job EXCEPT ![w] = NoJob]
  /\ delivery' = [delivery EXCEPT ![w] = 0]
  /\ plan' = [plan EXCEPT ![w] = [t \in Tasks |-> "skip"]]
  /\ beat' = [beat EXCEPT ![w] = "off"]

\* process_message is over: the heartbeat's __exit__ stops its thread.
LeaveHeartbeat(w, s) ==
  /\ Goto(w, s)
  /\ beat' = [beat EXCEPT ![w] = "off"]
  /\ UNCHANGED <<job, delivery, plan>>

Deliver(w, j) ==
  /\ step[w] = "idle" /\ queue[j] = "queued" /\ visible[j]
  /\ visible' = [visible EXCEPT ![j] = FALSE]
  /\ readCt' = [readCt EXCEPT ![j] = @ + 1]
  /\ job' = [job EXCEPT ![w] = j]
  /\ delivery' = [delivery EXCEPT ![w] = readCt[j] + 1]
  /\ UNCHANGED <<queue, plan, dbVars, faultVars>>

\* Mutant: compares the count before this delivery.
ReadToProcess_OffByOne(w, j) ==
  /\ Deliver(w, j)
  /\ readCt[j] <= MaxRetries
  /\ Goto(w, "start")
  /\ beat' = [beat EXCEPT ![w] = "alive"]

ReadToProcess(w, j) ==
  /\ Deliver(w, j)
  /\ readCt[j] + 1 <= MaxRetries
  /\ Goto(w, "start")
  /\ beat' = [beat EXCEPT ![w] = "alive"]

\* Mutant: archives an exhausted message without recording the failure.
ReadToGiveUp_Unrecorded(w, j) ==
  /\ Deliver(w, j)
  /\ readCt[j] + 1 > MaxRetries
  /\ Goto(w, "archive")
  /\ UNCHANGED beat

ReadToGiveUp(w, j) ==
  /\ Deliver(w, j)
  /\ readCt[j] + 1 > MaxRetries
  /\ Goto(w, "exhausted")
  /\ UNCHANGED beat

MarkExhausted(w) ==
  /\ step[w] = "exhausted"
  /\ SetMedia(w, "exhausted")
  /\ Goto(w, "archive")
  /\ UNCHANGED <<row, triggered, job, delivery, plan, beat,
                 queueVars, faultVars>>

\* mark_media_processing_started, once the payload has been parsed.
MarkStarted(w) ==
  /\ step[w] = "start"
  /\ SetMedia(w, "processing")
  /\ Goto(w, "prepare")
  /\ UNCHANGED <<row, triggered, job, delivery, plan, beat,
                 queueVars, faultVars>>

\* Preprocessing; storing quality frames and metadata may fail unnoticed.
Prepare(w) ==
  /\ step[w] = "prepare"
  /\ Goto(w, "plan")
  /\ UNCHANGED <<job, delivery, plan, beat, queueVars, dbVars, faultVars>>

\* A missing or forbidden object: UnrecoverableError, no retry.
PrepareFails(w) ==
  /\ step[w] = "prepare"
  /\ LeaveHeartbeat(w, "fail")
  /\ UNCHANGED <<queueVars, dbVars, faultVars>>

\* Mutant: schedules every task again on a redelivery.
PlanTasks_Everything(w) ==
  /\ step[w] = "plan"
  /\ plan' = [plan EXCEPT ![w] = [t \in Tasks |-> "mark"]]
  /\ Goto(w, "analyse")
  /\ UNCHANGED <<job, delivery, beat, queueVars, dbVars, faultVars>>

\* completed_analyzers is read once, before the rows are marked.
PlanTasks(w) ==
  /\ step[w] = "plan"
  /\ plan' = [plan EXCEPT ![w] =
       [t \in Tasks |-> IF row[job[w]][t] = "success" THEN "skip" ELSE "mark"]]
  /\ Goto(w, "analyse")
  /\ UNCHANGED <<job, delivery, beat, queueVars, dbVars, faultVars>>

Pending(w, stages) == \E t \in Tasks : plan[w][t] \in stages

\* A step of worker w on task t that leaves it at the given stage.
TaskStep(w, t, stage) ==
  /\ step[w] = "analyse"
  /\ plan' = [plan EXCEPT ![w][t] = stage]
  /\ UNCHANGED <<media, step, job, delivery, beat, queueVars, faultVars>>

MarkProcessing(w, t) ==
  /\ plan[w][t] = "mark"
  /\ TaskStep(w, t, "run")
  /\ SetRow(job[w], t, "processing")

\* A future completes. Only some tasks return None.
FinishTask(w, t, outcome) ==
  /\ plan[w][t] = "run" /\ ~Pending(w, {"mark"})
  /\ \/ outcome \in {"transient", "permanent"}
     \/ outcome = "result" /\ t # OcrTask
     \/ outcome = "done" /\ t \in SkippableTasks
  /\ TaskStep(w, t, outcome)
  /\ UNCHANGED <<row, triggered>>

\* Mutant: OCR may finish before every task has been marked processing.
FinishOcr_BeforeMarks(w) ==
  /\ plan[w][OcrTask] = "run"
  /\ TaskStep(w, OcrTask, "done")
  /\ SetRow(job[w], OcrTask, "success")

\* OCR's lifecycle stores the result and projects it into video_processing
\* itself, while the other tasks run; the wrapper then returns None.
FinishOcr(w) ==
  /\ plan[w][OcrTask] = "run" /\ ~Pending(w, {"mark"})
  /\ TaskStep(w, OcrTask, "done")
  /\ SetRow(job[w], OcrTask, "success")

\* persist_results: every success in a transaction of its own, then the errors.
PersistResult(w, t) ==
  /\ plan[w][t] = "result" /\ ~Pending(w, {"mark", "run"})
  /\ TaskStep(w, t, "done")
  /\ SetRow(job[w], t, "success")

PersistError(w, t) ==
  /\ plan[w][t] \in {"transient", "permanent"}
  /\ ~Pending(w, {"mark", "run", "result"})
  /\ TaskStep(w, t, IF plan[w][t] = "permanent" THEN "fatal" ELSE "failed")
  /\ SetRow(job[w], t, "error")

Settled(w) == \A t \in Tasks : plan[w][t] \in {"skip", "done", "failed", "fatal"}

\* Mutant: only permanent errors keep the job from completing.
AnalysisSucceeded_IgnoresRetryable(w) ==
  /\ step[w] = "analyse" /\ Settled(w) /\ ~Pending(w, {"fatal"})
  /\ Goto(w, "finish")
  /\ UNCHANGED <<job, delivery, plan, beat, queueVars, dbVars, faultVars>>

AnalysisSucceeded(w) ==
  /\ step[w] = "analyse" /\ Settled(w) /\ ~Pending(w, {"failed", "fatal"})
  /\ Goto(w, "finish")
  /\ UNCHANGED <<job, delivery, plan, beat, queueVars, dbVars, faultVars>>

AnalysisFailed(w) ==
  /\ step[w] = "analyse" /\ Settled(w) /\ Pending(w, {"failed", "fatal"})
  /\ LeaveHeartbeat(w, IF Pending(w, {"fatal"}) THEN "fail" ELSE "retry")
  /\ UNCHANGED <<queueVars, dbVars, faultVars>>

MarkCompleted(w) ==
  /\ step[w] = "finish"
  /\ SetMedia(w, "completed")
  /\ LeaveHeartbeat(w, "delete")
  /\ UNCHANGED <<row, triggered, queueVars, faultVars>>

\* Any other exception of process_message: an invalid payload, a transient
\* download failure, a statement the database rejects.
Raise(w) ==
  /\ step[w] \in Processing
  /\ LeaveHeartbeat(w, "retry")
  /\ UNCHANGED <<queueVars, dbVars, faultVars>>

DeleteMessage(w) ==
  /\ step[w] = "delete"
  /\ Remove(job[w], "deleted")
  /\ Release(w)
  /\ UNCHANGED <<visible, readCt, dbVars, faultVars>>

\* Mutant: records the diagnostic but leaves the status alone.
MarkFailed_KeepsStatus(w) ==
  /\ step[w] = "fail"
  /\ Goto(w, "archive")
  /\ UNCHANGED <<dbVars, job, delivery, plan, beat, queueVars, faultVars>>

MarkFailed(w) ==
  /\ step[w] = "fail"
  /\ SetMedia(w, "failed")
  /\ Goto(w, "archive")
  /\ UNCHANGED <<row, triggered, job, delivery, plan, beat,
                 queueVars, faultVars>>

ArchiveMessage(w) ==
  /\ step[w] = "archive"
  /\ Remove(job[w], "archived")
  /\ Release(w)
  /\ UNCHANGED <<visible, readCt, dbVars, faultVars>>

\* record_media_processing_error keeps the status; set_vt then delays the retry.
Backoff(w) ==
  /\ step[w] = "retry"
  /\ Hide(job[w])
  /\ Release(w)
  /\ UNCHANGED <<queue, readCt, dbVars, faultVars>>

-----------------------------------------------------------------------------
(* Time and faults.                                                        *)

\* w keeps the lease of its message: its heartbeat renews it, or w is at a step
\* that is over long before what is left of the lease.
HoldsLease(w, j) ==
  job[w] = j /\ (beat[w] = "alive" \/ step[w] \in PromptSteps)

LeaseExpires(j) ==
  /\ queue[j] = "queued" /\ ~visible[j]
  /\ \A w \in Workers : ~HoldsLease(w, j)
  /\ visible' = [visible EXCEPT ![j] = TRUE]
  /\ UNCHANGED <<queue, readCt, dbVars, workerVars, faultVars>>

\* connect() fails in the thread, or its set_vt calls fail or come too late.
HeartbeatMisses(w) ==
  /\ beat[w] = "alive" /\ missed < MaxMissedBeats
  /\ beat' = [beat EXCEPT ![w] = "missed"]
  /\ missed' = missed + 1
  /\ UNCHANGED <<step, job, delivery, plan, queueVars, dbVars, crashes>>

\* A later set_vt succeeds, without asking who holds the lease by now.
HeartbeatResumes(w) ==
  /\ beat[w] = "missed"
  /\ beat' = [beat EXCEPT ![w] = "alive"]
  /\ Hide(job[w])
  /\ UNCHANGED <<queue, readCt, dbVars, step, job, delivery, plan, faultVars>>

\* The process dies and is restarted, or main's loop reconnects after an
\* OperationalError: the message stays leased until its lease runs out.
Crash(w) ==
  /\ step[w] # "idle" /\ crashes < MaxCrashes
  /\ crashes' = crashes + 1
  /\ Release(w)
  /\ UNCHANGED <<queueVars, dbVars, missed>>

-----------------------------------------------------------------------------
TaskActivity(w) ==
  \E t \in Tasks :
    \/ MarkProcessing(w, t)
    \/ \E o \in {"result", "done", "transient", "permanent"} : FinishTask(w, t, o)
    \/ PersistResult(w, t)
    \/ PersistError(w, t)

WorkerStep(w) ==
  \/ \E j \in Jobs : ReadToProcess(w, j) \/ ReadToGiveUp(w, j)
  \/ MarkExhausted(w)
  \/ MarkStarted(w)
  \/ Prepare(w) \/ PrepareFails(w)
  \/ PlanTasks(w)
  \/ TaskActivity(w) \/ FinishOcr(w)
  \/ AnalysisSucceeded(w) \/ AnalysisFailed(w)
  \/ MarkCompleted(w)
  \/ Raise(w)
  \/ DeleteMessage(w)
  \/ MarkFailed(w)
  \/ ArchiveMessage(w)
  \/ Backoff(w)

Environment ==
  \/ \E j \in Jobs : Submit(j) \/ LeaseExpires(j)
  \/ \E w \in Workers : HeartbeatMisses(w) \/ HeartbeatResumes(w) \/ Crash(w)

Next == Environment \/ \E w \in Workers : WorkerStep(w)

Spec == Init /\ [][Next]_vars

\* A worker that can act does: its loop polls every POLL_TIMEOUT seconds and
\* every provider call has a timeout. A lease nobody renews runs out.
Fairness ==
  /\ \A w \in Workers : WF_vars(WorkerStep(w))
  /\ \A j \in Jobs : WF_vars(LeaseExpires(j))

FairSpec == Spec /\ Fairness

-----------------------------------------------------------------------------
(* Properties.                                                             *)

Processors(j) == {w \in Workers : job[w] = j /\ step[w] \in Processing}

\* No more than MAX_RETRIES workers are ever inside process_message for one
\* creative, however many leases are lost: read_ct alone limits them. With the
\* shipped MAX_RETRIES = 1 this is mutual exclusion without any lease.
ConcurrentAttemptsBounded ==
  \A j \in Jobs : Cardinality(Processors(j)) <= MaxRetries

\* The evaluators are dispatched only when every scheduled task has a finished
\* row, never while the evidence of one is missing (trigger of migration 058).
AgentsSeeFinishedEvidence ==
  [][\A j \in Jobs : ~triggered[j] /\ triggered'[j] =>
       \A t \in Tasks : row'[j][t] \in Finished]_vars

\* A task that succeeded is not done again: no crash, retry or redelivery takes
\* its row out of 'success' (completed_analyzers' persist-partial promise).
SuccessIsKept ==
  [][\A j \in Jobs, t \in Tasks :
       row[j][t] = "success" => row'[j][t] = "success"]_vars

\* When the message has left the queue and no worker holds it, the creative
\* shows a final media status: nobody is left who could still write one.
UnattendedIsFinal ==
  \A j \in Jobs :
    /\ queue[j] \in {"deleted", "archived"}
    /\ \A w \in Workers : job[w] # j
    => media[j] \in Terminal

\* A creative whose media processing completed has every row on 'success' and
\* its evaluators dispatched, as process_message's last statement implies.
CompletedIsWhole ==
  \A j \in Jobs : media[j] = "completed" =>
    triggered[j] /\ \A t \in Tasks : row[j][t] = "success"

\* Every submitted creative reaches a final media status and keeps it, whatever
\* crashes and lost heartbeats come in between.
EventuallyFinal ==
  \A j \in Jobs : (queue[j] = "queued") ~> [](media[j] \in Terminal)

-----------------------------------------------------------------------------
(* What the repository says of this code and the runs refute.              *)

\* "Keep the OCR Run resumable until the analysis produces an actual result to
\* persist" (worker/app/ocr_runs.py:112): a task left in 'processing' keeps the
\* message that could resume it.
UnfinishedTaskKeepsItsMessage ==
  \A j \in Jobs, t \in Tasks :
    row[j][t] = "processing" => queue[j] # "deleted"
=============================================================================
