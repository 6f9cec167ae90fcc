-------------------------- MODULE MediaQueueProofs --------------------------
(***************************************************************************)
(* What holds of Media Processing for every number of creatives, workers,  *)
(* tasks, attempts and faults, with and without leases.                    *)
(***************************************************************************)
EXTENDS MediaQueue, FiniteSetTheorems, TLAPS

-----------------------------------------------------------------------------
(* Type correctness.                                                       *)

\* The initial state has its types.
LEMMA InitTypeOK == Init => TypeOK
  BY ConstantsAssumption
  DEF Init, TypeOK, MediaStatus, RowStatus, Progress, Steps

\* What the helpers of the worker's actions write has the right type.
LEMMA SetRowType ==
  ASSUME TypeOK, NEW j \in Jobs, NEW t \in Tasks,
         NEW status \in RowStatus \ {"absent"}, SetRow(j, t, status)
  PROVE  /\ row' \in [Jobs -> [Tasks -> RowStatus]]
         /\ triggered' \in [Jobs -> BOOLEAN]
<1>1. [row[j] EXCEPT ![t] = status] \in [Tasks -> RowStatus]
  BY DEF TypeOK
<1> QED  BY <1>1 DEF SetRow, TypeOK

\* A replica that lets go of its job keeps the types.
LEMMA ReleaseType ==
  ASSUME TypeOK, NEW w \in Workers, Release(w)
  PROVE  /\ step' \in [Workers -> Steps]
         /\ job' \in [Workers -> Jobs \cup {NoJob}]
         /\ delivery' \in [Workers -> Nat]
         /\ plan' \in [Workers -> [Tasks -> Progress]]
         /\ beat' \in [Workers -> {"off", "alive", "missed"}]
<1>1. [t \in Tasks |-> "skip"] \in [Tasks -> Progress]  BY DEF Progress
<1> QED  BY <1>1 DEF Release, TypeOK, Steps

\* So does a delivery.
LEMMA DeliverType ==
  ASSUME TypeOK, NEW w \in Workers, NEW j \in Jobs, Deliver(w, j)
  PROVE  /\ visible' \in [Jobs -> BOOLEAN]
         /\ readCt' \in [Jobs -> Nat]
         /\ job' \in [Workers -> Jobs \cup {NoJob}]
         /\ delivery' \in [Workers -> Nat]
         /\ plan' = plan /\ queue' = queue
  BY DEF Deliver, TypeOK

\* A worker outside its idle loop has a message.
BusyHasMessage == \A w \in Workers : step[w] # "idle" => job[w] \in Jobs

\* Every step keeps both, action by action.
LEMMA NextType ==
  ASSUME TypeOK, BusyHasMessage, Next
  PROVE  TypeOK' /\ BusyHasMessage'
<1> USE ConstantsAssumption DEF MediaStatus
<1>1. ASSUME NEW j \in Jobs, Submit(j)  PROVE TypeOK' /\ BusyHasMessage'
  BY <1>1 DEF Submit, TypeOK, BusyHasMessage, dbVars, workerVars, faultVars
<1>2. ASSUME NEW j \in Jobs, LeaseExpires(j)  PROVE TypeOK' /\ BusyHasMessage'
  BY <1>2 DEF LeaseExpires, TypeOK, BusyHasMessage, dbVars, workerVars, faultVars
<1>3. ASSUME NEW w \in Workers, HeartbeatMisses(w)
      PROVE TypeOK' /\ BusyHasMessage'
  BY <1>3 DEF HeartbeatMisses, TypeOK, BusyHasMessage, queueVars, dbVars
<1>4. ASSUME NEW w \in Workers, HeartbeatResumes(w)
      PROVE TypeOK' /\ BusyHasMessage'
  BY <1>4 DEF HeartbeatResumes, Hide, TypeOK, BusyHasMessage, dbVars, faultVars
<1>5. ASSUME NEW w \in Workers, Crash(w)  PROVE TypeOK' /\ BusyHasMessage'
  <2>1. Release(w)  BY <1>5 DEF Crash
  <2>2. TypeOK'
    BY <1>5, <2>1, ReleaseType DEF Crash, TypeOK, queueVars, dbVars
  <2> QED  BY <2>1, <2>2 DEF BusyHasMessage, Release, TypeOK
<1>6. ASSUME NEW w \in Workers, NEW j \in Jobs, ReadToProcess(w, j)
      PROVE TypeOK' /\ BusyHasMessage'
  <2>1. Deliver(w, j) /\ step' = [step EXCEPT ![w] = "start"]
    BY <1>6 DEF ReadToProcess, Goto
  <2>2. TypeOK'
    BY <1>6, <2>1, DeliverType
    DEF ReadToProcess, Deliver, TypeOK, Steps, Processing, dbVars, faultVars
  <2> QED  BY <2>1, <2>2 DEF BusyHasMessage, Deliver, TypeOK
<1>7. ASSUME NEW w \in Workers, NEW j \in Jobs, ReadToGiveUp(w, j)
      PROVE TypeOK' /\ BusyHasMessage'
  <2>1. Deliver(w, j) /\ step' = [step EXCEPT ![w] = "exhausted"]
    BY <1>7 DEF ReadToGiveUp, Goto
  <2>2. TypeOK'
    BY <1>7, <2>1, DeliverType
    DEF ReadToGiveUp, Deliver, TypeOK, Steps, Processing, dbVars, faultVars
  <2> QED  BY <2>1, <2>2 DEF BusyHasMessage, Deliver, TypeOK
<1>8. ASSUME NEW w \in Workers,
             \/ MarkExhausted(w) \/ MarkStarted(w) \/ MarkFailed(w)
      PROVE TypeOK' /\ BusyHasMessage'
  <2>1. media' \in [Jobs -> MediaStatus]
    BY <1>8 DEF MarkExhausted, MarkStarted, MarkFailed, SetMedia, TypeOK
  <2>2. step' \in [Workers -> Steps]
    BY <1>8 DEF MarkExhausted, MarkStarted, MarkFailed, Goto, TypeOK, Steps,
                Processing
  <2>3. BusyHasMessage'
    BY <1>8 DEF MarkExhausted, MarkStarted, MarkFailed, Goto, TypeOK,
                BusyHasMessage
  <2> QED
    BY <1>8, <2>1, <2>2, <2>3
    DEF MarkExhausted, MarkStarted, MarkFailed, TypeOK, queueVars, faultVars
<1>9. ASSUME NEW w \in Workers,
             \/ Prepare(w) \/ PrepareFails(w) \/ AnalysisSucceeded(w)
             \/ AnalysisFailed(w) \/ Raise(w)
      PROVE TypeOK' /\ BusyHasMessage'
  <2>1. step[w] # "idle"
        /\ \E place \in {"plan", "finish", "fail", "retry"} :
             step' = [step EXCEPT ![w] = place]
    BY <1>9 DEF Prepare, PrepareFails, AnalysisSucceeded, AnalysisFailed, Raise,
                LeaveHeartbeat, Goto, Processing
  <2>2. UNCHANGED beat \/ beat' = [beat EXCEPT ![w] = "off"]
    BY <1>9 DEF Prepare, PrepareFails, AnalysisSucceeded, AnalysisFailed, Raise,
                LeaveHeartbeat
  <2>3. UNCHANGED <<job, delivery, plan, queueVars, dbVars, faultVars>>
    BY <1>9 DEF Prepare, PrepareFails, AnalysisSucceeded, AnalysisFailed, Raise,
                LeaveHeartbeat
  <2>4. step' \in [Workers -> Steps] /\ BusyHasMessage'
    BY <2>1, <2>3 DEF TypeOK, BusyHasMessage, Steps, Processing
  <2> QED  BY <2>2, <2>3, <2>4 DEF TypeOK, queueVars, dbVars, faultVars
<1>10. ASSUME NEW w \in Workers, PlanTasks(w)  PROVE TypeOK' /\ BusyHasMessage'
  <2>1. [t \in Tasks |-> IF row[job[w]][t] = "success" THEN "skip" ELSE "mark"]
          \in [Tasks -> Progress]
    BY DEF Progress
  <2> QED
    BY <1>10, <2>1 DEF PlanTasks, Goto, TypeOK, BusyHasMessage, Steps,
                       Processing, queueVars, dbVars, faultVars
<1>11. ASSUME NEW w \in Workers, NEW t \in Tasks, NEW stage \in Progress,
              TaskStep(w, t, stage), \/ UNCHANGED <<row, triggered>>
                                     \/ \E s \in RowStatus \ {"absent"} :
                                          SetRow(job[w], t, s)
       PROVE TypeOK' /\ BusyHasMessage'
  <2>1. job[w] \in Jobs  BY <1>11 DEF TaskStep, BusyHasMessage
  <2>2. row' \in [Jobs -> [Tasks -> RowStatus]] /\ triggered' \in [Jobs -> BOOLEAN]
    BY <1>11, <2>1, SetRowType DEF TypeOK
  <2>3. plan' \in [Workers -> [Tasks -> Progress]]
    BY <1>11 DEF TaskStep, TypeOK
  <2> QED
    BY <1>11, <2>2, <2>3 DEF TaskStep, TypeOK, BusyHasMessage, queueVars, faultVars
<1>12. ASSUME NEW w \in Workers, TaskActivity(w) \/ FinishOcr(w)
       PROVE TypeOK' /\ BusyHasMessage'
  <2>1. CASE FinishOcr(w)
    BY <2>1, <1>11 DEF FinishOcr, Progress, RowStatus
  <2>2. ASSUME NEW t \in Tasks, MarkProcessing(w, t)
        PROVE TypeOK' /\ BusyHasMessage'
    BY <2>2, <1>11 DEF MarkProcessing, Progress, RowStatus
  <2>3. ASSUME NEW t \in Tasks, PersistResult(w, t) \/ PersistError(w, t)
        PROVE TypeOK' /\ BusyHasMessage'
    BY <2>3, <1>11 DEF PersistResult, PersistError, Progress, RowStatus
  <2>4. ASSUME NEW t \in Tasks, NEW o \in {"result", "done", "transient", "permanent"},
               FinishTask(w, t, o)
        PROVE TypeOK' /\ BusyHasMessage'
    BY <2>4, <1>11 DEF FinishTask, Progress
  <2> QED  BY <1>12, <2>1, <2>2, <2>3, <2>4 DEF TaskActivity
<1>13. ASSUME NEW w \in Workers, MarkCompleted(w)
       PROVE TypeOK' /\ BusyHasMessage'
  BY <1>13 DEF MarkCompleted, SetMedia, LeaveHeartbeat, Goto, TypeOK,
               BusyHasMessage, Steps, queueVars, faultVars
<1>14. ASSUME NEW w \in Workers,
              DeleteMessage(w) \/ ArchiveMessage(w) \/ Backoff(w)
       PROVE TypeOK' /\ BusyHasMessage'
  <2>1. Release(w) /\ BusyHasMessage'
    BY <1>14 DEF DeleteMessage, ArchiveMessage, Backoff, Release,
                 BusyHasMessage, TypeOK
  <2>2. queue' \in [Jobs -> {"unsent", "queued", "deleted", "archived"}]
    <3>1. \/ UNCHANGED queue
          \/ \E place \in {"deleted", "archived"} : Remove(job[w], place)
      BY <1>14 DEF DeleteMessage, ArchiveMessage, Backoff
    <3> QED  BY <3>1 DEF Remove, TypeOK
  <2>3. visible' \in [Jobs -> BOOLEAN]
    <3>1. UNCHANGED visible \/ Hide(job[w])
      BY <1>14 DEF DeleteMessage, ArchiveMessage, Backoff
    <3>2. ASSUME Hide(job[w])  PROVE visible' \in [Jobs -> BOOLEAN]
      BY <3>2 DEF Hide, TypeOK
    <3>3. ASSUME UNCHANGED visible  PROVE visible' \in [Jobs -> BOOLEAN]
      BY <3>3 DEF TypeOK
    <3> QED  BY <3>1, <3>2, <3>3
  <2>4. UNCHANGED <<readCt, media, row, triggered, crashes, missed>>
    BY <1>14 DEF DeleteMessage, ArchiveMessage, Backoff, dbVars, faultVars
  <2>5. /\ step' \in [Workers -> Steps] /\ job' \in [Workers -> Jobs \cup {NoJob}]
        /\ delivery' \in [Workers -> Nat] /\ plan' \in [Workers -> [Tasks -> Progress]]
        /\ beat' \in [Workers -> {"off", "alive", "missed"}]
    BY <2>1, ReleaseType
  <2>6. /\ readCt' \in [Jobs -> Nat] /\ media' \in [Jobs -> MediaStatus]
        /\ row' \in [Jobs -> [Tasks -> RowStatus]] /\ triggered' \in [Jobs -> BOOLEAN]
        /\ crashes' \in 0..MaxCrashes /\ missed' \in 0..MaxMissedBeats
    BY <2>4 DEF TypeOK
  <2>7. TypeOK'
    BY <2>2, <2>3, <2>5, <2>6 DEF TypeOK
  <2> QED  BY <2>1, <2>7
<1> QED
  BY <1>1, <1>2, <1>3, <1>4, <1>5, <1>6, <1>7, <1>8, <1>9, <1>10, <1>12, <1>13,
     <1>14 DEF Next, Environment, WorkerStep

\* The type invariant of MediaQueue holds in every state of every instance.
THEOREM TypeCorrect == Spec => []TypeOK
<1>1. Init => TypeOK /\ BusyHasMessage
  BY InitTypeOK DEF Init, BusyHasMessage
<1>2. TypeOK /\ BusyHasMessage /\ [Next]_vars => (TypeOK /\ BusyHasMessage)'
  <2> SUFFICES ASSUME TypeOK, BusyHasMessage, [Next]_vars
               PROVE  TypeOK' /\ BusyHasMessage'
    OBVIOUS
  <2>1. CASE Next  BY <2>1, NextType
  <2>2. CASE UNCHANGED vars
    BY <2>2 DEF vars, queueVars, dbVars, workerVars, faultVars, TypeOK, BusyHasMessage
  <2> QED  BY <2>1, <2>2
<1> QED  BY <1>1, <1>2, PTL DEF Spec

-----------------------------------------------------------------------------
(* Deliveries: no two workers hold the same delivery of one message.       *)

\* The counters that bound the attempts.  Only a read moves read_ct, so each
\* worker's copy of it identifies one delivery.
DistinctDeliveries ==
  /\ \A w \in Workers : job[w] \in Jobs => delivery[w] \in 1..readCt[job[w]]
  /\ \A v, w \in Workers :
       v # w /\ job[v] \in Jobs /\ job[v] = job[w] => delivery[v] # delivery[w]
  /\ \A w \in Workers : step[w] \in Processing => delivery[w] <= MaxRetries

\* An action that moves no delivery and starts no attempt.
KeepsDeliveries ==
  /\ UNCHANGED <<readCt, job, delivery>>
  /\ \A w \in Workers : step'[w] \in Processing => step[w] \in Processing

\* A step that hands out and counts no delivery keeps the live ones distinct.
LEMMA KeepsDeliveriesStep ==
  ASSUME TypeOK, DistinctDeliveries, KeepsDeliveries
  PROVE  DistinctDeliveries'
  BY DEF DistinctDeliveries, KeepsDeliveries

\* So does letting go of one.
LEMMA ReleaseStep ==
  ASSUME TypeOK, DistinctDeliveries, NEW w \in Workers, Release(w), readCt' = readCt
  PROVE  DistinctDeliveries'
  BY ConstantsAssumption DEF DistinctDeliveries, Release, TypeOK, Processing

\* A new delivery is numbered behind all others of its message.
LEMMA DeliverStep ==
  ASSUME TypeOK, DistinctDeliveries, NEW w \in Workers, NEW j \in Jobs,
         Deliver(w, j), NEW s \in Steps, Goto(w, s),
         s \in Processing => readCt[j] + 1 <= MaxRetries
  PROVE  DistinctDeliveries'
<1> USE ConstantsAssumption DEF TypeOK
<1>1. \A v \in Workers : job'[v] \in Jobs => delivery'[v] \in 1..readCt'[job'[v]]
  <2> SUFFICES ASSUME NEW v \in Workers, job'[v] \in Jobs
               PROVE  delivery'[v] \in 1..readCt'[job'[v]]
    OBVIOUS
  <2>1. CASE v = w  BY <2>1 DEF Deliver
  <2>2. CASE v # w
    <3>1. job'[v] = job[v] /\ delivery'[v] = delivery[v]  BY <2>2 DEF Deliver
    <3>2. delivery[v] \in 1..readCt[job[v]]  BY <3>1 DEF DistinctDeliveries
    <3>3. readCt'[job[v]] >= readCt[job[v]] /\ readCt'[job[v]] \in Nat
      BY <3>1 DEF Deliver
    <3> QED  BY <3>1, <3>2, <3>3
  <2> QED  BY <2>1, <2>2
<1>2. \A v \in Workers :
        v # w /\ job[v] = j => delivery[v] # readCt[j] + 1
  BY DEF DistinctDeliveries
<1>3. \A u, v \in Workers :
        u # v /\ job'[u] \in Jobs /\ job'[u] = job'[v] => delivery'[u] # delivery'[v]
  BY <1>2 DEF Deliver, DistinctDeliveries
<1>4. \A v \in Workers : step'[v] \in Processing => delivery'[v] <= MaxRetries
  BY DEF Deliver, Goto, DistinctDeliveries
<1> QED  BY <1>1, <1>3, <1>4 DEF DistinctDeliveries

\* Every step keeps them distinct.
LEMMA DeliveriesStep ==
  ASSUME TypeOK, DistinctDeliveries, [Next]_vars
  PROVE  DistinctDeliveries'
<1> USE DEF Processing
<1>1. CASE UNCHANGED vars
  BY <1>1, KeepsDeliveriesStep
  DEF vars, queueVars, workerVars, KeepsDeliveries
<1>2. ASSUME NEW w \in Workers, NEW j \in Jobs, ReadToProcess(w, j) \/ ReadToGiveUp(w, j)
      PROVE DistinctDeliveries'
  <2>1. CASE ReadToProcess(w, j)
    BY <2>1, DeliverStep DEF ReadToProcess, Steps
  <2>2. CASE ReadToGiveUp(w, j)
    BY <2>2, DeliverStep DEF ReadToGiveUp, Steps
  <2> QED  BY <1>2, <2>1, <2>2
<1>3. ASSUME NEW w \in Workers,
             DeleteMessage(w) \/ ArchiveMessage(w) \/ Backoff(w) \/ Crash(w)
      PROVE DistinctDeliveries'
  BY <1>3, ReleaseStep
  DEF DeleteMessage, ArchiveMessage, Backoff, Crash, queueVars
<1>4. ASSUME NEW j \in Jobs, Submit(j) \/ LeaseExpires(j)  PROVE DistinctDeliveries'
  BY <1>4, KeepsDeliveriesStep
  DEF Submit, LeaseExpires, KeepsDeliveries, workerVars
<1>5. ASSUME NEW w \in Workers, HeartbeatMisses(w) \/ HeartbeatResumes(w)
      PROVE DistinctDeliveries'
  BY <1>5, KeepsDeliveriesStep
  DEF HeartbeatMisses, HeartbeatResumes, KeepsDeliveries, queueVars
<1>6. ASSUME NEW w \in Workers,
             \/ MarkExhausted(w) \/ MarkStarted(w) \/ Prepare(w)
             \/ PrepareFails(w) \/ PlanTasks(w) \/ AnalysisSucceeded(w)
             \/ AnalysisFailed(w) \/ MarkCompleted(w) \/ Raise(w) \/ MarkFailed(w)
      PROVE DistinctDeliveries'
  <2>1. UNCHANGED <<readCt, job, delivery>>
    BY <1>6 DEF MarkExhausted, MarkStarted, Prepare, PrepareFails, PlanTasks,
                AnalysisSucceeded, AnalysisFailed, MarkCompleted, Raise,
                MarkFailed, LeaveHeartbeat, queueVars
  <2>2. \A v \in Workers : step'[v] \in Processing => step[v] \in Processing
    BY <1>6 DEF MarkExhausted, MarkStarted, Prepare, PrepareFails, PlanTasks,
                AnalysisSucceeded, AnalysisFailed, MarkCompleted, Raise,
                MarkFailed, LeaveHeartbeat, Goto, TypeOK
  <2> QED  BY <2>1, <2>2, KeepsDeliveriesStep DEF KeepsDeliveries
<1>7. ASSUME NEW w \in Workers, TaskActivity(w) \/ FinishOcr(w)
      PROVE DistinctDeliveries'
  <2>1. UNCHANGED <<readCt, job, delivery, step>>
    BY <1>7 DEF TaskActivity, FinishOcr, MarkProcessing, FinishTask, PersistResult,
                PersistError, TaskStep, queueVars
  <2> QED  BY <2>1, KeepsDeliveriesStep DEF KeepsDeliveries
<1> QED
  BY <1>1, <1>2, <1>3, <1>4, <1>5, <1>6, <1>7 DEF Next, Environment, WorkerStep

\* The processors of one creative are told apart by deliveries in
\* 1..MaxRetries, so there are no more of them than that.
LEMMA DeliveriesBoundProcessors ==
  ASSUME TypeOK, DistinctDeliveries
  PROVE  ConcurrentAttemptsBounded
<1> USE ConstantsAssumption
<1> SUFFICES ASSUME NEW j \in Jobs
             PROVE  Cardinality(Processors(j)) <= MaxRetries
  BY DEF ConcurrentAttemptsBounded
<1> DEFINE f == [w \in Processors(j) |-> delivery[w]]
<1>1. f \in Injection(Processors(j), 1..MaxRetries)
  <2>1. \A w \in Processors(j) : delivery[w] \in 1..MaxRetries
    BY DEF Processors, DistinctDeliveries, TypeOK
  <2>2. \A v, w \in Processors(j) : v # w => delivery[v] # delivery[w]
    BY DEF Processors, DistinctDeliveries
  <2> QED  BY <2>1, <2>2 DEF Injection, IsInjective
<1>2. IsFiniteSet(1..MaxRetries) /\ Cardinality(1..MaxRetries) = MaxRetries
  <2>1. MaxRetries \in Nat /\ 1 \in Int /\ MaxRetries \in Int
    OBVIOUS
  <2> QED  BY <2>1, FS_Interval
<1>3. Cardinality(Processors(j)) <= Cardinality(1..MaxRetries)
  BY <1>1, <1>2, FS_Injection
<1> QED  BY <1>2, <1>3

\* However many leases are lost, at most MAX_RETRIES workers are inside
\* process_message for one creative: drain_queue's comparison of read_ct is
\* enough, without the visibility timeout.
THEOREM AttemptsBounded == Spec => []ConcurrentAttemptsBounded
<1>1. Init => DistinctDeliveries
  BY ConstantsAssumption DEF Init, DistinctDeliveries, Processing
<1>2. TypeOK /\ DistinctDeliveries /\ [Next]_vars => DistinctDeliveries'
  BY DeliveriesStep
<1>3. TypeOK /\ DistinctDeliveries => ConcurrentAttemptsBounded
  BY DeliveriesBoundProcessors
<1> QED  BY <1>1, <1>2, <1>3, TypeCorrect, PTL DEF Spec

-----------------------------------------------------------------------------
(* Evidence: what the dispatch of the evaluators may rely on.              *)

\* A worker that analyses has a row for every task it is not about to mark, and
\* no action takes a row away again.
MarkedHaveRows ==
  \A w \in Workers : step[w] = "analyse" =>
    \A t \in Tasks : plan[w][t] = "mark" \/ row[job[w]][t] # "absent"

\* A step that writes no row and leaves the analyses under way alone.
NoRowStep ==
  /\ UNCHANGED <<row, triggered>>
  /\ \A v \in Workers : step'[v] \in {"analyse", "finish"} =>
       step'[v] = step[v] /\ plan'[v] = plan[v] /\ job'[v] = job[v]

\* The four statements that write a row: w moves task t on to the given stage.
WritesRow(w, t, stage, status) ==
  /\ TaskStep(w, t, stage) /\ SetRow(job[w], t, status)
  /\ \/ plan[w][t] = "mark" /\ stage = "run" /\ status = "processing"
     \/ /\ plan[w][t] \in {"run", "result"} /\ stage = "done" /\ status = "success"
        /\ ~Pending(w, {"mark"})
     \/ /\ plan[w][t] \in {"transient", "permanent"} /\ status = "error"
        /\ stage \in {"failed", "fatal"}
        /\ ~Pending(w, {"mark"})

\* What a step of the system is, to the rows and to the analyses under way.
LEMMA RowFrame ==
  ASSUME TypeOK, [Next]_vars
  PROVE  \/ NoRowStep
         \/ \E w \in Workers : PlanTasks(w) \/ AnalysisSucceeded(w)
         \/ \E w \in Workers, t \in Tasks,
               o \in {"result", "done", "transient", "permanent"} : FinishTask(w, t, o)
         \/ \E w \in Workers, t \in Tasks, stage \in Progress \ {"mark"},
               status \in RowStatus \ {"absent"} : WritesRow(w, t, stage, status)
<1> USE ConstantsAssumption DEF TypeOK
<1>1. CASE UNCHANGED vars
  BY <1>1 DEF vars, dbVars, workerVars, NoRowStep
<1>2. ASSUME NEW j \in Jobs, Submit(j) \/ LeaseExpires(j)  PROVE NoRowStep
  BY <1>2 DEF Submit, LeaseExpires, dbVars, workerVars, NoRowStep
<1>3. ASSUME NEW w \in Workers, NEW j \in Jobs,
             ReadToProcess(w, j) \/ ReadToGiveUp(w, j)
      PROVE  NoRowStep
  BY <1>3 DEF ReadToProcess, ReadToGiveUp, Deliver, Goto, dbVars, NoRowStep
<1>4. ASSUME NEW w \in Workers,
             \/ DeleteMessage(w) \/ ArchiveMessage(w) \/ Backoff(w) \/ Crash(w)
      PROVE  NoRowStep
  BY <1>4 DEF DeleteMessage, ArchiveMessage, Backoff, Crash, Release, dbVars, NoRowStep
<1>5. ASSUME NEW w \in Workers,
             \/ MarkExhausted(w) \/ MarkStarted(w) \/ Prepare(w) \/ PrepareFails(w)
             \/ AnalysisFailed(w) \/ MarkCompleted(w) \/ Raise(w) \/ MarkFailed(w)
             \/ HeartbeatMisses(w) \/ HeartbeatResumes(w)
      PROVE  NoRowStep
  <2>1. UNCHANGED <<row, triggered, plan, job>>
    BY <1>5 DEF MarkExhausted, MarkStarted, Prepare, PrepareFails, AnalysisFailed,
                MarkCompleted, Raise, MarkFailed, HeartbeatMisses, HeartbeatResumes,
                LeaveHeartbeat, dbVars
  <2>2. \A v \in Workers : step'[v] \in {"analyse", "finish"} => step'[v] = step[v]
    BY <1>5 DEF MarkExhausted, MarkStarted, Prepare, PrepareFails, AnalysisFailed,
                MarkCompleted, Raise, MarkFailed, HeartbeatMisses, HeartbeatResumes,
                LeaveHeartbeat, Goto
  <2> QED  BY <2>1, <2>2 DEF NoRowStep
<1>6. ASSUME NEW w \in Workers, NEW t \in Tasks, MarkProcessing(w, t)
      PROVE  WritesRow(w, t, "run", "processing")
  BY <1>6 DEF MarkProcessing, WritesRow
<1>7. ASSUME NEW w \in Workers, FinishOcr(w)
      PROVE  WritesRow(w, OcrTask, "done", "success")
  BY <1>7 DEF FinishOcr, WritesRow
<1>8. ASSUME NEW w \in Workers, NEW t \in Tasks, PersistResult(w, t)
      PROVE  WritesRow(w, t, "done", "success")
  BY <1>8 DEF PersistResult, WritesRow, Pending
<1>9. ASSUME NEW w \in Workers, NEW t \in Tasks, PersistError(w, t)
      PROVE  \E stage \in {"failed", "fatal"} : WritesRow(w, t, stage, "error")
  <2>1. ~Pending(w, {"mark"})  BY <1>9 DEF PersistError, Pending
  <2>2. CASE plan[w][t] = "permanent"
    BY <1>9, <2>1, <2>2 DEF PersistError, WritesRow
  <2>3. CASE plan[w][t] # "permanent"
    BY <1>9, <2>1, <2>3 DEF PersistError, WritesRow
  <2> QED  BY <2>2, <2>3
<1>10. /\ {"run", "done", "failed", "fatal"} \subseteq Progress \ {"mark"}
       /\ {"processing", "success", "error"} \subseteq RowStatus \ {"absent"}
  BY DEF Progress, RowStatus
<1>11. ASSUME NEW w \in Workers, NEW t \in Tasks,
              MarkProcessing(w, t) \/ PersistResult(w, t) \/ PersistError(w, t)
       PROVE  \E stage \in Progress \ {"mark"}, status \in RowStatus \ {"absent"} :
                WritesRow(w, t, stage, status)
  BY <1>6, <1>8, <1>9, <1>10, <1>11
<1>12. ASSUME NEW w \in Workers, FinishOcr(w)
       PROVE  \E t \in Tasks, stage \in Progress \ {"mark"},
                 status \in RowStatus \ {"absent"} : WritesRow(w, t, stage, status)
  BY <1>7, <1>10, <1>12
<1>13. ASSUME NEW w \in Workers, TaskActivity(w)
       PROVE  \/ \E t \in Tasks, stage \in Progress \ {"mark"},
                    status \in RowStatus \ {"absent"} : WritesRow(w, t, stage, status)
              \/ \E t \in Tasks, o \in {"result", "done", "transient", "permanent"} :
                   FinishTask(w, t, o)
  BY <1>11, <1>13 DEF TaskActivity
<1>14. ASSUME NEW w \in Workers, WorkerStep(w)
       PROVE  \/ NoRowStep
              \/ PlanTasks(w) \/ AnalysisSucceeded(w)
              \/ \E t \in Tasks, o \in {"result", "done", "transient", "permanent"} :
                   FinishTask(w, t, o)
              \/ \E t \in Tasks, stage \in Progress \ {"mark"},
                    status \in RowStatus \ {"absent"} : WritesRow(w, t, stage, status)
  BY <1>3, <1>4, <1>5, <1>12, <1>13, <1>14 DEF WorkerStep
<1>15. CASE Environment
  BY <1>2, <1>4, <1>5, <1>15 DEF Environment
<1> QED  BY <1>1, <1>14, <1>15 DEF Next

\* Writing one row, which moves one task of the writer on.
LEMMA RowStep ==
  ASSUME TypeOK, BusyHasMessage, MarkedHaveRows,
         NEW w \in Workers, NEW t \in Tasks, NEW stage \in Progress \ {"mark"},
         NEW status \in RowStatus \ {"absent"},
         TaskStep(w, t, stage), SetRow(job[w], t, status)
  PROVE  /\ MarkedHaveRows'
         /\ ~Pending(w, {"mark"}) =>
              \A j \in Jobs : ~triggered[j] /\ triggered'[j] =>
                \A u \in Tasks : row'[j][u] \in Finished
         /\ status = "processing" => triggered' = triggered
<1> DEFINE k == job[w]
<1>1. k \in Jobs /\ step[w] = "analyse" /\ step' = step /\ job' = job
  BY DEF TaskStep, BusyHasMessage
<1>2. \A u \in Tasks : row'[k][u] = IF u = t THEN status ELSE row[k][u]
  BY <1>1 DEF SetRow, TypeOK
<1>3. \A j \in Jobs : j # k => row'[j] = row[j] /\ triggered'[j] = triggered[j]
  BY <1>1 DEF SetRow, TypeOK
<1>4. MarkedHaveRows'
  <2> SUFFICES ASSUME NEW v \in Workers, step[v] = "analyse", NEW u \in Tasks,
                      plan'[v][u] # "mark"
               PROVE  row'[job[v]][u] # "absent"
    BY <1>1 DEF MarkedHaveRows
  <2>1. job[v] \in Jobs  BY DEF BusyHasMessage
  <2>2. CASE v = w /\ u = t
    BY <2>2, <1>2
  <2>3. CASE ~(v = w /\ u = t)
    <3>1. plan'[v][u] = plan[v][u]  BY <2>3 DEF TaskStep, TypeOK
    <3>2. row[job[v]][u] # "absent"  BY <3>1 DEF MarkedHaveRows
    <3> QED  BY <3>2, <2>1, <1>2, <1>3
  <2> QED  BY <2>2, <2>3
<1>5. ASSUME ~Pending(w, {"mark"}), NEW j \in Jobs, ~triggered[j], triggered'[j],
             NEW u \in Tasks
      PROVE  row'[j][u] \in Finished
  <2>1. j = k  BY <1>5, <1>3
  <2>2. row[k][u] # "absent"
    BY <1>1, <1>5 DEF MarkedHaveRows, Pending
  <2>3. row'[k][u] # "absent"  BY <2>2, <1>2
  <2>4. row'[k][u] # "processing"
    BY <1>1, <1>5, <2>1 DEF SetRow, AllDone, TypeOK
  <2>5. row'[k][u] \in RowStatus  BY <1>1, <1>2 DEF TypeOK
  <2> QED  BY <2>1, <2>3, <2>4, <2>5 DEF RowStatus, Finished
<1>6. status = "processing" => triggered' = triggered
  BY <1>1 DEF SetRow, TypeOK
<1> QED  BY <1>4, <1>5, <1>6

EvidenceAtDispatch ==
  \A j \in Jobs : ~triggered[j] /\ triggered'[j] =>
    \A t \in Tasks : row'[j][t] \in Finished

\* A step that dispatches the evaluators finds every row finished.
LEMMA EvidenceStep ==
  ASSUME TypeOK, BusyHasMessage, MarkedHaveRows, [Next]_vars
  PROVE  MarkedHaveRows' /\ EvidenceAtDispatch
<1>1. ASSUME UNCHANGED <<row, triggered>>  PROVE EvidenceAtDispatch
  BY <1>1 DEF EvidenceAtDispatch
<1>2. CASE NoRowStep
  BY <1>1, <1>2 DEF NoRowStep, MarkedHaveRows
\* What PlanTasks leaves out has a row on 'success'.
<1>3. ASSUME NEW w \in Workers, PlanTasks(w) \/ AnalysisSucceeded(w)
      PROVE  MarkedHaveRows' /\ EvidenceAtDispatch
  <2>1. CASE PlanTasks(w)
    <3>1. \A t \in Tasks : plan'[w][t] = "mark" \/ row[job[w]][t] = "success"
      BY <2>1 DEF PlanTasks, TypeOK
    <3>2. \A v \in Workers \ {w} : plan'[v] = plan[v] /\ step'[v] = step[v]
      BY <2>1 DEF PlanTasks, Goto, TypeOK
    <3> QED  BY <1>1, <2>1, <3>1, <3>2 DEF PlanTasks, dbVars, MarkedHaveRows
  <2>2. CASE AnalysisSucceeded(w)
    BY <1>1, <2>2 DEF AnalysisSucceeded, Goto, dbVars, MarkedHaveRows, TypeOK
  <2> QED  BY <1>3, <2>1, <2>2
<1>4. ASSUME NEW w \in Workers, NEW t \in Tasks,
             NEW o \in {"result", "done", "transient", "permanent"}, FinishTask(w, t, o)
      PROVE  MarkedHaveRows' /\ EvidenceAtDispatch
  <2>1. UNCHANGED <<row, triggered, step, job>>  BY <1>4 DEF FinishTask, TaskStep
  <2>2. plan[w][t] # "mark" /\ plan' = [plan EXCEPT ![w][t] = o]
    BY <1>4 DEF FinishTask, TaskStep
  <2> QED  BY <2>1, <2>2, <1>1 DEF MarkedHaveRows, TypeOK
<1>5. ASSUME NEW w \in Workers, NEW t \in Tasks, NEW stage \in Progress \ {"mark"},
             NEW status \in RowStatus \ {"absent"}, WritesRow(w, t, stage, status)
      PROVE  MarkedHaveRows' /\ EvidenceAtDispatch
  BY <1>5, RowStep DEF WritesRow, EvidenceAtDispatch
<1> QED  BY <1>2, <1>3, <1>4, <1>5, RowFrame

\* The evaluators of a creative are dispatched only over a complete set of
\* finished rows, whoever else holds the message by then.
THEOREM EvidenceComplete == Spec => AgentsSeeFinishedEvidence
<1>1. Init => TypeOK /\ BusyHasMessage /\ MarkedHaveRows
  BY InitTypeOK DEF Init, BusyHasMessage, MarkedHaveRows
<1>2. TypeOK /\ BusyHasMessage /\ MarkedHaveRows /\ [Next]_vars
        => /\ (TypeOK /\ BusyHasMessage /\ MarkedHaveRows)'
           /\ [EvidenceAtDispatch]_vars
  <2> SUFFICES ASSUME TypeOK, BusyHasMessage, MarkedHaveRows, [Next]_vars
               PROVE  /\ TypeOK' /\ BusyHasMessage' /\ MarkedHaveRows'
                      /\ EvidenceAtDispatch
    OBVIOUS
  <2>1. TypeOK' /\ BusyHasMessage'
    <3>1. CASE Next  BY <3>1, NextType
    <3>2. CASE UNCHANGED vars
      BY <3>2 DEF vars, queueVars, dbVars, workerVars, faultVars, TypeOK,
                  BusyHasMessage
    <3> QED  BY <3>1, <3>2
  <2> QED  BY <2>1, EvidenceStep
<1>3. Spec => [][EvidenceAtDispatch]_vars
  BY <1>1, <1>2, PTL DEF Spec
<1> QED  BY <1>3 DEF AgentsSeeFinishedEvidence, EvidenceAtDispatch

-----------------------------------------------------------------------------
(* One attempt at a time.  What follows holds when no two attempts at one  *)
(* creative overlap: with the shipped MAX_RETRIES of 1, whatever becomes of *)
(* the leases, or with any MAX_RETRIES as long as no lease is lost.        *)

\* Heartbeats do not fail, and the statements around them are prompt.
LeasesAreKept ==
  /\ MaxMissedBeats = 0
  /\ Steps \ (Processing \cup {"idle"}) \subseteq PromptSteps

OneAttemptAtATime == MaxRetries <= 1 \/ LeasesAreKept

\* Until it has recorded the start, a worker cannot lose its lease.
StartIsPrompt == "start" \in PromptSteps \/ MaxMissedBeats = 0

\* An idle worker has no message, and a heartbeat that cannot fail beats for as
\* long as process_message runs.
WorkerShape ==
  /\ \A w \in Workers : step[w] = "idle" => job[w] = NoJob
  /\ MaxMissedBeats = 0 =>
       \A w \in Workers :
         beat[w] # "missed" /\ (step[w] \in Processing => beat[w] = "alive")

\* Nobody but w holds its message, which is hidden in the queue.
Alone(w) ==
  /\ queue[job[w]] = "queued" /\ ~visible[job[w]]
  /\ \A v \in Workers \ {w} : job[v] # job[w]

\* A step moves one worker at most.
LEMMA OneActor ==
  ASSUME TypeOK, NEW w \in Workers,
         WorkerStep(w) \/ HeartbeatMisses(w) \/ HeartbeatResumes(w) \/ Crash(w)
  PROVE  \A v \in Workers \ {w} :
           /\ step'[v] = step[v] /\ job'[v] = job[v] /\ plan'[v] = plan[v]
           /\ beat'[v] = beat[v] /\ delivery'[v] = delivery[v]
<1> USE DEF TypeOK, Goto, LeaveHeartbeat, Release
<1>1. CASE HeartbeatMisses(w) \/ HeartbeatResumes(w) \/ Crash(w)
  BY <1>1 DEF HeartbeatMisses, HeartbeatResumes, Crash
<1>2. ASSUME NEW j \in Jobs, ReadToProcess(w, j) \/ ReadToGiveUp(w, j)
      PROVE  \A v \in Workers \ {w} :
               /\ step'[v] = step[v] /\ job'[v] = job[v] /\ plan'[v] = plan[v]
               /\ beat'[v] = beat[v] /\ delivery'[v] = delivery[v]
  BY <1>2 DEF ReadToProcess, ReadToGiveUp, Deliver
<1>3. CASE \/ MarkExhausted(w) \/ MarkStarted(w) \/ Prepare(w) \/ PrepareFails(w)
           \/ PlanTasks(w) \/ AnalysisSucceeded(w) \/ AnalysisFailed(w)
           \/ MarkCompleted(w) \/ Raise(w) \/ MarkFailed(w)
  BY <1>3 DEF MarkExhausted, MarkStarted, Prepare, PrepareFails, PlanTasks,
              AnalysisSucceeded, AnalysisFailed, MarkCompleted, Raise, MarkFailed
<1>4. CASE DeleteMessage(w) \/ ArchiveMessage(w) \/ Backoff(w)
  BY <1>4 DEF DeleteMessage, ArchiveMessage, Backoff
<1>5. CASE TaskActivity(w) \/ FinishOcr(w)
  BY <1>5 DEF TaskActivity, FinishOcr, MarkProcessing, FinishTask, PersistResult,
              PersistError, TaskStep
<1> QED  BY <1>1, <1>2, <1>3, <1>4, <1>5 DEF WorkerStep

\* Every step keeps the shape of the workers.
LEMMA ShapeStep ==
  ASSUME TypeOK, BusyHasMessage, WorkerShape, [Next]_vars
  PROVE  WorkerShape'
<1> USE DEF TypeOK, WorkerShape
<1>1. CASE UNCHANGED vars
  BY <1>1 DEF vars, workerVars
<1>2. ASSUME NEW j \in Jobs, Submit(j) \/ LeaseExpires(j)  PROVE WorkerShape'
  BY <1>2 DEF Submit, LeaseExpires, workerVars
<1>3. ASSUME NEW w \in Workers,
             WorkerStep(w) \/ HeartbeatMisses(w) \/ HeartbeatResumes(w) \/ Crash(w)
      PROVE  WorkerShape'
  <2> SUFFICES
        /\ step'[w] = "idle" => job'[w] = NoJob
        /\ MaxMissedBeats = 0 =>
             beat'[w] # "missed" /\ (step'[w] \in Processing => beat'[w] = "alive")
    BY <1>3, OneActor
  <2> USE DEF Goto, LeaveHeartbeat, Release, Processing
  <2>1. CASE HeartbeatMisses(w) \/ HeartbeatResumes(w) \/ Crash(w)
    BY <2>1 DEF HeartbeatMisses, HeartbeatResumes, Crash
  <2>2. ASSUME NEW j \in Jobs, ReadToProcess(w, j) \/ ReadToGiveUp(w, j)
        PROVE  /\ step'[w] = "idle" => job'[w] = NoJob
               /\ MaxMissedBeats = 0 =>
                    beat'[w] # "missed" /\ (step'[w] \in Processing => beat'[w] = "alive")
    BY <2>2 DEF ReadToProcess, ReadToGiveUp, Deliver
  <2>3. CASE \/ MarkExhausted(w) \/ MarkStarted(w) \/ Prepare(w) \/ PrepareFails(w)
             \/ PlanTasks(w) \/ AnalysisSucceeded(w) \/ AnalysisFailed(w)
             \/ MarkCompleted(w) \/ Raise(w) \/ MarkFailed(w)
    BY <2>3 DEF MarkExhausted, MarkStarted, Prepare, PrepareFails, PlanTasks,
                AnalysisSucceeded, AnalysisFailed, MarkCompleted, Raise, MarkFailed
  <2>4. CASE DeleteMessage(w) \/ ArchiveMessage(w) \/ Backoff(w)
    BY <2>4 DEF DeleteMessage, ArchiveMessage, Backoff
  <2>5. CASE TaskActivity(w) \/ FinishOcr(w)
    BY <2>5 DEF TaskActivity, FinishOcr, MarkProcessing, FinishTask, PersistResult,
                PersistError, TaskStep
  <2> QED  BY <1>3, <2>1, <2>2, <2>3, <2>4, <2>5 DEF WorkerStep
<1> QED  BY <1>1, <1>2, <1>3 DEF Next, Environment

\* While no lease is lost, a worker that has a message is alone with it.
LeaseHeld ==
  LeasesAreKept => \A w \in Workers : job[w] \in Jobs => Alone(w)

\* A lease runs out only of a message nobody has; a read finds a visible one.
LEMMA LeaseStep ==
  ASSUME TypeOK, WorkerShape, LeaseHeld, [Next]_vars
  PROVE  LeaseHeld'
<1> SUFFICES ASSUME LeasesAreKept
             PROVE  \A w \in Workers : job'[w] \in Jobs => Alone(w)'
  BY DEF LeaseHeld
<1> USE ConstantsAssumption DEF TypeOK
<1>1. \A w \in Workers : job[w] \in Jobs => Alone(w)  BY DEF LeaseHeld
<1>2. ASSUME UNCHANGED <<queue, visible, job>>
      PROVE  \A w \in Workers : job'[w] \in Jobs => Alone(w)'
  BY <1>1, <1>2 DEF Alone
<1>3. CASE UNCHANGED vars
  BY <1>2, <1>3 DEF vars, queueVars, workerVars
<1>4. ASSUME NEW j \in Jobs, Submit(j)
      PROVE  \A w \in Workers : job'[w] \in Jobs => Alone(w)'
  BY <1>1, <1>4 DEF Submit, workerVars, Alone
<1>5. ASSUME NEW j \in Jobs, LeaseExpires(j)
      PROVE  \A w \in Workers : job'[w] \in Jobs => Alone(w)'
  <2>1. \A w \in Workers : job[w] # j
    <3> SUFFICES ASSUME NEW w \in Workers, job[w] = j  PROVE FALSE
      OBVIOUS
    <3>1. step[w] # "idle"  BY DEF WorkerShape
    <3>2. CASE step[w] \in Processing
      BY <3>2, <1>5 DEF LeasesAreKept, WorkerShape, LeaseExpires, HoldsLease
    <3>3. CASE step[w] \notin Processing
      BY <3>1, <3>3, <1>5 DEF LeasesAreKept, LeaseExpires, HoldsLease
    <3> QED  BY <3>2, <3>3
  <2> QED  BY <1>1, <1>5, <2>1 DEF LeaseExpires, workerVars, Alone
<1>6. ASSUME NEW w \in Workers, HeartbeatMisses(w) \/ HeartbeatResumes(w)
      PROVE  FALSE
  BY <1>6 DEF HeartbeatMisses, HeartbeatResumes, LeasesAreKept, WorkerShape
<1>7. ASSUME NEW w \in Workers,
             DeleteMessage(w) \/ ArchiveMessage(w) \/ Backoff(w) \/ Crash(w)
      PROVE  \A v \in Workers : job'[v] \in Jobs => Alone(v)'
  <2>1. \A v \in Workers : job'[v] = IF v = w THEN NoJob ELSE job[v]
    BY <1>7 DEF DeleteMessage, ArchiveMessage, Backoff, Crash, Release
  <2>2. \A j \in Jobs : j # job[w] =>
          queue'[j] = queue[j] /\ visible'[j] = visible[j]
    BY <1>7 DEF DeleteMessage, ArchiveMessage, Backoff, Crash, Remove, Hide, queueVars
  <2> QED  BY <1>1, <2>1, <2>2 DEF Alone
<1>8. ASSUME NEW w \in Workers, NEW j \in Jobs,
             ReadToProcess(w, j) \/ ReadToGiveUp(w, j)
      PROVE  \A v \in Workers : job'[v] \in Jobs => Alone(v)'
  <2>1. Deliver(w, j)  BY <1>8 DEF ReadToProcess, ReadToGiveUp
  <2>2. \A v \in Workers : job[v] # j  BY <1>1, <2>1 DEF Deliver, Alone
  <2> QED  BY <1>1, <2>1, <2>2 DEF Deliver, Alone
<1>9. ASSUME NEW w \in Workers,
             \/ MarkExhausted(w) \/ MarkStarted(w) \/ Prepare(w)
             \/ PrepareFails(w) \/ PlanTasks(w) \/ AnalysisSucceeded(w)
             \/ AnalysisFailed(w) \/ MarkCompleted(w) \/ Raise(w) \/ MarkFailed(w)
             \/ TaskActivity(w) \/ FinishOcr(w)
      PROVE  \A v \in Workers : job'[v] \in Jobs => Alone(v)'
  BY <1>9, <1>2
  DEF MarkExhausted, MarkStarted, Prepare, PrepareFails, PlanTasks,
      AnalysisSucceeded, AnalysisFailed, MarkCompleted, Raise, MarkFailed,
      LeaveHeartbeat, queueVars, TaskActivity, FinishOcr, MarkProcessing,
      FinishTask, PersistResult, PersistError, TaskStep
<1> QED
  BY <1>3, <1>4, <1>5, <1>6, <1>7, <1>8, <1>9 DEF Next, Environment, WorkerStep

\* Two workers inside process_message are busy with two creatives.
SoleProcessor ==
  \A v, w \in Workers :
    v # w /\ step[v] \in Processing /\ step[w] \in Processing => job[v] # job[w]

\* With one delivery to process, or a lease, there is no second attempt.
LEMMA OneAttemptIsSole ==
  ASSUME TypeOK, BusyHasMessage, DistinctDeliveries, LeaseHeld, OneAttemptAtATime
  PROVE  SoleProcessor
<1> SUFFICES ASSUME NEW v \in Workers, NEW w \in Workers, v # w, job[v] = job[w],
                    step[v] \in Processing, step[w] \in Processing
             PROVE  FALSE
  BY DEF SoleProcessor
<1>1. job[v] \in Jobs /\ job[w] \in Jobs  BY DEF BusyHasMessage, Processing
<1>2. CASE MaxRetries <= 1
  <2>1. /\ delivery[v] \in 1..readCt[job[v]] /\ delivery[v] <= MaxRetries
        /\ delivery[w] \in 1..readCt[job[w]] /\ delivery[w] <= MaxRetries
        /\ delivery[v] # delivery[w]
    BY <1>1 DEF DistinctDeliveries
  <2>2. readCt[job[v]] \in Nat /\ MaxRetries \in Nat
    BY <1>1, ConstantsAssumption DEF TypeOK
  <2> QED  BY <1>1, <1>2, <2>1, <2>2
<1>3. CASE LeasesAreKept
  BY <1>1, <1>3 DEF LeaseHeld, Alone
<1> QED  BY <1>2, <1>3 DEF OneAttemptAtATime

\* What every attempt at a creative is known to satisfy, in every instance.
AttemptInv ==
  TypeOK /\ BusyHasMessage /\ DistinctDeliveries /\ WorkerShape /\ LeaseHeld

\* It holds at first.
LEMMA AttemptInit == Init => AttemptInv
  BY ConstantsAssumption, InitTypeOK
  DEF Init, AttemptInv, BusyHasMessage, DistinctDeliveries, WorkerShape, LeaseHeld,
      Processing

\* Every step keeps it.
LEMMA AttemptStep ==
  ASSUME AttemptInv, [Next]_vars
  PROVE  AttemptInv'
<1>1. TypeOK' /\ BusyHasMessage'
  <2>1. CASE Next  BY <2>1, NextType DEF AttemptInv
  <2>2. CASE UNCHANGED vars
    BY <2>2 DEF vars, queueVars, dbVars, workerVars, faultVars, TypeOK,
                BusyHasMessage, AttemptInv
  <2> QED  BY <2>1, <2>2
<1> QED  BY <1>1, DeliveriesStep, ShapeStep, LeaseStep DEF AttemptInv

\* So it holds throughout.
LEMMA AttemptInvHolds == Spec => []AttemptInv
<1>1. AttemptInv /\ [Next]_vars => AttemptInv'
  BY AttemptStep
<1> QED  BY <1>1, AttemptInit, PTL DEF Spec

-----------------------------------------------------------------------------
(* A task that succeeded is not done again.                                *)

\* An analysis has planned nothing for a task whose row is on 'success': it read
\* the rows when it planned, and nobody else has written one since.
PlanKnowsSuccess ==
  \A w \in Workers : step[w] = "analyse" =>
    \A t \in Tasks : row[job[w]][t] = "success" => plan[w][t] \in {"skip", "done"}

SuccessStays ==
  \A j \in Jobs, t \in Tasks : row[j][t] = "success" => row'[j][t] = "success"

\* Writing a row moves one row and one plan.
LEMMA WriteRowMoves ==
  ASSUME TypeOK, BusyHasMessage, NEW w \in Workers, NEW t \in Tasks,
         NEW stage \in Progress \ {"mark"}, NEW status \in RowStatus \ {"absent"},
         WritesRow(w, t, stage, status)
  PROVE  /\ job[w] \in Jobs /\ step[w] = "analyse" /\ step' = step /\ job' = job
         /\ \A j \in Jobs, u \in Tasks :
              row'[j][u] = IF j = job[w] /\ u = t THEN status ELSE row[j][u]
         /\ \A v \in Workers, u \in Tasks :
              plan'[v][u] = IF v = w /\ u = t THEN stage ELSE plan[v][u]
         /\ UNCHANGED <<media, queue, visible, readCt>>
  BY DEF WritesRow, TaskStep, SetRow, BusyHasMessage, TypeOK, queueVars

\* Every step keeps what the plans know, and with it every success.
LEMMA SuccessStep ==
  ASSUME TypeOK, BusyHasMessage, SoleProcessor, PlanKnowsSuccess, [Next]_vars
  PROVE  PlanKnowsSuccess' /\ SuccessStays
<1>1. ASSUME UNCHANGED row  PROVE SuccessStays
  BY <1>1 DEF SuccessStays
<1>2. CASE NoRowStep
  BY <1>1, <1>2 DEF NoRowStep, PlanKnowsSuccess
<1>3. ASSUME NEW w \in Workers, PlanTasks(w)  PROVE PlanKnowsSuccess' /\ SuccessStays
  <2>1. \A t \in Tasks : row[job[w]][t] = "success" => plan'[w][t] = "skip"
    BY <1>3 DEF PlanTasks, TypeOK
  <2>2. \A v \in Workers \ {w} : plan'[v] = plan[v] /\ step'[v] = step[v]
    BY <1>3 DEF PlanTasks, Goto, TypeOK
  <2> QED  BY <1>1, <1>3, <2>1, <2>2 DEF PlanTasks, dbVars, PlanKnowsSuccess
<1>4. ASSUME NEW w \in Workers, AnalysisSucceeded(w)
      PROVE  PlanKnowsSuccess' /\ SuccessStays
  BY <1>1, <1>4 DEF AnalysisSucceeded, Goto, dbVars, PlanKnowsSuccess, TypeOK
<1>5. ASSUME NEW w \in Workers, NEW t \in Tasks,
             NEW o \in {"result", "done", "transient", "permanent"}, FinishTask(w, t, o)
      PROVE  PlanKnowsSuccess' /\ SuccessStays
  <2>1. UNCHANGED <<row, step, job>> /\ step[w] = "analyse"
    BY <1>5 DEF FinishTask, TaskStep
  <2>2. plan[w][t] = "run" /\ plan' = [plan EXCEPT ![w][t] = o]
    BY <1>5 DEF FinishTask, TaskStep
  <2>3. row[job[w]][t] # "success"  BY <2>1, <2>2 DEF PlanKnowsSuccess
  <2> QED  BY <1>1, <2>1, <2>2, <2>3 DEF PlanKnowsSuccess, TypeOK
<1>6. ASSUME NEW w \in Workers, NEW t \in Tasks, NEW stage \in Progress \ {"mark"},
             NEW status \in RowStatus \ {"absent"}, WritesRow(w, t, stage, status)
      PROVE  PlanKnowsSuccess' /\ SuccessStays
  <2>1. status = "success" \/ plan[w][t] \notin {"skip", "done"}
    BY <1>6 DEF WritesRow
  <2>2. status = "success" => stage = "done"
    BY <1>6 DEF WritesRow
  <2>3. SuccessStays
    BY <1>6, <2>1, WriteRowMoves DEF SuccessStays, PlanKnowsSuccess
  <2>4. \A v \in Workers \ {w} : step[v] = "analyse" => job[v] # job[w]
    BY <1>6, WriteRowMoves DEF SoleProcessor, Processing
  <2>5. PlanKnowsSuccess'
    <3> SUFFICES ASSUME NEW v \in Workers, step[v] = "analyse", NEW u \in Tasks,
                        row'[job[v]][u] = "success"
                 PROVE  plan'[v][u] \in {"skip", "done"}
      BY <1>6, WriteRowMoves DEF PlanKnowsSuccess
    <3>1. job[v] \in Jobs  BY DEF BusyHasMessage
    <3>2. CASE v = w /\ u = t
      BY <3>2, <1>6, <2>2, WriteRowMoves
    <3>3. CASE ~(v = w /\ u = t)
      BY <3>1, <3>3, <1>6, <2>4, WriteRowMoves DEF PlanKnowsSuccess
    <3> QED  BY <3>2, <3>3
  <2> QED  BY <2>3, <2>5
<1> QED  BY <1>2, <1>3, <1>4, <1>5, <1>6, RowFrame

\* No crash, retry or redelivery takes a task's row out of 'success', as long as
\* no two attempts at one creative overlap.
THEOREM SuccessKept ==
  ASSUME OneAttemptAtATime
  PROVE  Spec => SuccessIsKept
<1>1. Init => PlanKnowsSuccess
  BY DEF Init, PlanKnowsSuccess
<1>2. AttemptInv /\ PlanKnowsSuccess /\ [Next]_vars
        => AttemptInv' /\ PlanKnowsSuccess' /\ [SuccessStays]_vars
  BY AttemptStep, OneAttemptIsSole, SuccessStep DEF AttemptInv
<1>3. Spec => [][SuccessStays]_vars
  BY AttemptInit, <1>1, <1>2, PTL DEF Spec
<1> QED  BY <1>3 DEF SuccessIsKept, SuccessStays

-----------------------------------------------------------------------------
(* A completed creative is whole.                                          *)

\* What an analysis counts as done is on 'success', when every task answers.
DoneHasSuccess ==
  SkippableTasks = {} => \A w \in Workers, t \in Tasks :
    /\ step[w] = "analyse" /\ plan[w][t] \in {"skip", "done"}
         => row[job[w]][t] = "success"
    /\ step[w] = "finish" => row[job[w]][t] = "success"

\* The update of the last row has dispatched the evaluators.
AllSuccessTriggers ==
  \A j \in Jobs : (\A t \in Tasks : row[j][t] = "success") => triggered[j]

CompletedHasSuccess ==
  SkippableTasks = {} =>
    \A j \in Jobs : media[j] = "completed" => \A t \in Tasks : row[j][t] = "success"

\* Every step keeps what 'done' stands for.
LEMMA DoneStep ==
  ASSUME TypeOK, BusyHasMessage, SoleProcessor, DoneHasSuccess, [Next]_vars
  PROVE  DoneHasSuccess'
<1> SUFFICES ASSUME SkippableTasks = {}  PROVE DoneHasSuccess'
  BY DEF DoneHasSuccess
<1>1. CASE NoRowStep
  BY <1>1 DEF NoRowStep, DoneHasSuccess
<1>2. ASSUME NEW w \in Workers, PlanTasks(w)  PROVE DoneHasSuccess'
  <2>1. \A t \in Tasks : plan'[w][t] = "skip" => row[job[w]][t] = "success"
    BY <1>2 DEF PlanTasks, TypeOK
  <2>2. \A t \in Tasks : plan'[w][t] # "done"
    BY <1>2 DEF PlanTasks, TypeOK
  <2>3. \A v \in Workers \ {w} : plan'[v] = plan[v] /\ step'[v] = step[v]
    BY <1>2 DEF PlanTasks, Goto, TypeOK
  <2>4. step'[w] = "analyse"  BY <1>2 DEF PlanTasks, Goto, TypeOK
  <2> QED  BY <1>2, <2>1, <2>2, <2>3, <2>4 DEF PlanTasks, dbVars, DoneHasSuccess
<1>3. ASSUME NEW w \in Workers, AnalysisSucceeded(w)  PROVE DoneHasSuccess'
  <2>1. \A t \in Tasks : plan[w][t] \in {"skip", "done"}
    BY <1>3 DEF AnalysisSucceeded, Settled, Pending
  <2>2. step[w] = "analyse" /\ UNCHANGED <<row, plan, job>>
    BY <1>3 DEF AnalysisSucceeded, dbVars
  <2>3. \A v \in Workers \ {w} : step'[v] = step[v]
    BY <1>3 DEF AnalysisSucceeded, Goto, TypeOK
  <2>4. step'[w] = "finish"  BY <1>3 DEF AnalysisSucceeded, Goto, TypeOK
  <2> QED  BY <2>1, <2>2, <2>3, <2>4 DEF DoneHasSuccess
<1>4. ASSUME NEW w \in Workers, NEW t \in Tasks,
             NEW o \in {"result", "done", "transient", "permanent"}, FinishTask(w, t, o)
      PROVE  DoneHasSuccess'
  <2>1. UNCHANGED <<row, step, job>> /\ o # "done"
    BY <1>4 DEF FinishTask, TaskStep
  <2>2. plan' = [plan EXCEPT ![w][t] = o]
    BY <1>4 DEF FinishTask, TaskStep
  <2> QED  BY <2>1, <2>2 DEF DoneHasSuccess, TypeOK
<1>5. ASSUME NEW w \in Workers, NEW t \in Tasks, NEW stage \in Progress \ {"mark"},
             NEW status \in RowStatus \ {"absent"}, WritesRow(w, t, stage, status)
      PROVE  DoneHasSuccess'
  <2>1. stage \in {"skip", "done"} => status = "success"
    BY <1>5 DEF WritesRow
  <2>2. \A v \in Workers \ {w} :
          step[v] \in {"analyse", "finish"} => job[v] \in Jobs /\ job[v] # job[w]
    BY <1>5, WriteRowMoves DEF SoleProcessor, Processing, BusyHasMessage
  <2> SUFFICES ASSUME NEW v \in Workers, NEW u \in Tasks
               PROVE  /\ step[v] = "analyse" /\ plan'[v][u] \in {"skip", "done"}
                           => row'[job[v]][u] = "success"
                      /\ step[v] = "finish" => row'[job[v]][u] = "success"
    BY <1>5, WriteRowMoves DEF DoneHasSuccess
  <2>3. CASE v = w /\ u = t
    BY <2>1, <2>3, <1>5, WriteRowMoves
  <2>4. CASE v = w /\ u # t
    BY <2>4, <1>5, WriteRowMoves DEF DoneHasSuccess
  <2>5. CASE v # w
    BY <2>2, <2>5, <1>5, WriteRowMoves DEF DoneHasSuccess
  <2> QED  BY <2>3, <2>4, <2>5
<1> QED  BY <1>1, <1>2, <1>3, <1>4, <1>5, RowFrame

\* Every step keeps the dispatch behind a full set of successes.
LEMMA TriggerStep ==
  ASSUME TypeOK, BusyHasMessage, MarkedHaveRows, AllSuccessTriggers, [Next]_vars
  PROVE  AllSuccessTriggers'
<1>1. ASSUME UNCHANGED <<row, triggered>>  PROVE AllSuccessTriggers'
  BY <1>1 DEF AllSuccessTriggers
<1>2. ASSUME NEW w \in Workers,
             \/ PlanTasks(w) \/ AnalysisSucceeded(w)
             \/ \E t \in Tasks, o \in {"result", "done", "transient", "permanent"} :
                  FinishTask(w, t, o)
      PROVE  UNCHANGED <<row, triggered>>
  BY <1>2 DEF PlanTasks, AnalysisSucceeded, FinishTask, dbVars
<1>3. ASSUME NEW w \in Workers, NEW t \in Tasks, NEW stage \in Progress \ {"mark"},
             NEW status \in RowStatus \ {"absent"}, WritesRow(w, t, stage, status)
      PROVE  AllSuccessTriggers'
  <2>1. \A j \in Jobs : j # job[w] => triggered'[j] = triggered[j]
    BY <1>3 DEF WritesRow, SetRow, TypeOK
  <2>2. CASE status # "success"
    BY <1>3, <2>1, <2>2, WriteRowMoves DEF AllSuccessTriggers
  <2>3. CASE status = "success"
    <3>1. row[job[w]][t] # "absent"
      BY <1>3, <2>3, WriteRowMoves DEF WritesRow, MarkedHaveRows
    <3>2. job[w] \in Jobs /\ SetRow(job[w], t, status)
      BY <1>3, WriteRowMoves DEF WritesRow
    <3>3. AllDone(row'[job[w]]) => triggered'[job[w]]
      BY <2>3, <3>1, <3>2 DEF SetRow, TypeOK
    <3>4. (\A u \in Tasks : row'[job[w]][u] = "success") => triggered'[job[w]]
      BY <3>3 DEF AllDone
    <3> QED  BY <1>3, <2>1, <3>4, WriteRowMoves DEF AllSuccessTriggers
  <2> QED  BY <2>2, <2>3
<1> QED  BY <1>1, <1>2, <1>3, RowFrame DEF NoRowStep

\* The statements that write a media status, and where they take the worker.
WritesMedia(w, from, status, to) ==
  /\ step[w] = from /\ SetMedia(w, status) /\ Goto(w, to)
  /\ UNCHANGED <<row, triggered, queue, visible, readCt, job, plan>>

\* A step that writes none, and brings nobody to the removal of a message.
NoMediaStep ==
  /\ UNCHANGED media
  /\ \A v \in Workers : step'[v] \in {"archive", "delete"} =>
       step'[v] = step[v] /\ job'[v] = job[v]

\* What a step of the system is, to the media status.
LEMMA MediaFrame ==
  ASSUME TypeOK, [Next]_vars
  PROVE  \/ NoMediaStep
         \/ \E w \in Workers :
              \/ WritesMedia(w, "start", "processing", "prepare")
              \/ WritesMedia(w, "exhausted", "exhausted", "archive")
              \/ WritesMedia(w, "fail", "failed", "archive")
              \/ WritesMedia(w, "finish", "completed", "delete")
<1> USE ConstantsAssumption DEF TypeOK
<1>1. CASE UNCHANGED vars
  BY <1>1 DEF vars, dbVars, workerVars, NoMediaStep
<1>2. ASSUME NEW j \in Jobs, Submit(j) \/ LeaseExpires(j)  PROVE NoMediaStep
  BY <1>2 DEF Submit, LeaseExpires, dbVars, workerVars, NoMediaStep
<1>3. ASSUME NEW w \in Workers, NEW j \in Jobs,
             ReadToProcess(w, j) \/ ReadToGiveUp(w, j)
      PROVE  NoMediaStep
  BY <1>3 DEF ReadToProcess, ReadToGiveUp, Deliver, Goto, dbVars, NoMediaStep
<1>4. ASSUME NEW w \in Workers,
             \/ DeleteMessage(w) \/ ArchiveMessage(w) \/ Backoff(w) \/ Crash(w)
      PROVE  NoMediaStep
  BY <1>4 DEF DeleteMessage, ArchiveMessage, Backoff, Crash, Release, dbVars,
              NoMediaStep
<1>5. ASSUME NEW w \in Workers,
             \/ Prepare(w) \/ PrepareFails(w) \/ PlanTasks(w) \/ AnalysisSucceeded(w)
             \/ AnalysisFailed(w) \/ Raise(w)
             \/ HeartbeatMisses(w) \/ HeartbeatResumes(w)
      PROVE  NoMediaStep
  BY <1>5 DEF Prepare, PrepareFails, PlanTasks, AnalysisSucceeded, AnalysisFailed,
              Raise, HeartbeatMisses, HeartbeatResumes, LeaveHeartbeat, Goto, dbVars,
              NoMediaStep
<1>6. ASSUME NEW w \in Workers, TaskActivity(w) \/ FinishOcr(w)  PROVE NoMediaStep
  BY <1>6 DEF TaskActivity, FinishOcr, MarkProcessing, FinishTask, PersistResult,
              PersistError, TaskStep, NoMediaStep
<1>7. ASSUME NEW w \in Workers
      PROVE  /\ MarkStarted(w) => WritesMedia(w, "start", "processing", "prepare")
             /\ MarkExhausted(w) => WritesMedia(w, "exhausted", "exhausted", "archive")
             /\ MarkFailed(w) => WritesMedia(w, "fail", "failed", "archive")
             /\ MarkCompleted(w) => WritesMedia(w, "finish", "completed", "delete")
  BY DEF MarkStarted, MarkExhausted, MarkFailed, MarkCompleted, WritesMedia,
         LeaveHeartbeat, queueVars
<1> QED
  BY <1>1, <1>2, <1>3, <1>4, <1>5, <1>6, <1>7 DEF Next, Environment, WorkerStep

\* Writing a media status moves that of one creative.
LEMMA WriteMediaMoves ==
  ASSUME TypeOK, BusyHasMessage, NEW w \in Workers, NEW from \in Steps \ {"idle"},
         NEW status \in MediaStatus, NEW to \in Steps, WritesMedia(w, from, status, to)
  PROVE  /\ job[w] \in Jobs
         /\ \A j \in Jobs : media'[j] = IF j = job[w] THEN status ELSE media[j]
         /\ \A v \in Workers : step'[v] = IF v = w THEN to ELSE step[v]
  BY DEF WritesMedia, SetMedia, Goto, BusyHasMessage, TypeOK

\* Every step keeps the rows of a completed creative whole.
LEMMA CompletedStep ==
  ASSUME TypeOK, BusyHasMessage, DoneHasSuccess, CompletedHasSuccess, SuccessStays,
         [Next]_vars
  PROVE  CompletedHasSuccess'
<1> SUFFICES ASSUME SkippableTasks = {}, NEW j \in Jobs, media'[j] = "completed",
                    NEW t \in Tasks
             PROVE  row'[j][t] = "success"
  BY DEF CompletedHasSuccess
<1>1. CASE NoMediaStep
  BY <1>1 DEF NoMediaStep, CompletedHasSuccess, SuccessStays
<1>2. ASSUME NEW w \in Workers,
             \/ WritesMedia(w, "start", "processing", "prepare")
             \/ WritesMedia(w, "exhausted", "exhausted", "archive")
             \/ WritesMedia(w, "fail", "failed", "archive")
      PROVE  row'[j][t] = "success"
  <2>1. media[j] = "completed" /\ row' = row
    BY <1>2, WriteMediaMoves DEF Steps, Processing, MediaStatus, WritesMedia
  <2> QED  BY <2>1 DEF CompletedHasSuccess
<1>3. ASSUME NEW w \in Workers, WritesMedia(w, "finish", "completed", "delete")
      PROVE  row'[j][t] = "success"
  <2>1. job[w] = j \/ media[j] = "completed"
    BY <1>3, WriteMediaMoves DEF Steps, Processing, MediaStatus
  <2>2. row' = row /\ step[w] = "finish"  BY <1>3 DEF WritesMedia
  <2> QED  BY <2>1, <2>2 DEF CompletedHasSuccess, DoneHasSuccess
<1> QED  BY <1>1, <1>2, <1>3, MediaFrame

\* A creative whose media processing completed has every row on 'success' and its
\* evaluators dispatched: when no two attempts overlap and no task may return
\* None, as the run media_skipped_task shows to be needed.
THEOREM CompletedWhole ==
  ASSUME OneAttemptAtATime, SkippableTasks = {}
  PROVE  Spec => []CompletedIsWhole
<1> DEFINE Inv == /\ AttemptInv /\ MarkedHaveRows /\ PlanKnowsSuccess
                  /\ DoneHasSuccess /\ AllSuccessTriggers /\ CompletedHasSuccess
<1>1. Init => Inv
  <2> SUFFICES ASSUME Init  PROVE Inv
    OBVIOUS
  <2>1. AttemptInv  BY AttemptInit
  <2>2. MarkedHaveRows /\ PlanKnowsSuccess /\ DoneHasSuccess /\ CompletedHasSuccess
    BY DEF Init, MarkedHaveRows, PlanKnowsSuccess, DoneHasSuccess, CompletedHasSuccess
  <2>3. AllSuccessTriggers
    BY ConstantsAssumption DEF Init, AllSuccessTriggers
  <2> QED  BY <2>1, <2>2, <2>3
<1>2. Inv /\ [Next]_vars => Inv'
  <2> SUFFICES ASSUME Inv, [Next]_vars  PROVE Inv'
    OBVIOUS
  <2>1. TypeOK /\ BusyHasMessage /\ SoleProcessor
    BY OneAttemptIsSole DEF AttemptInv
  <2>2. AttemptInv'  BY AttemptStep
  <2>3. MarkedHaveRows'  BY <2>1, EvidenceStep
  <2>4. PlanKnowsSuccess' /\ SuccessStays  BY <2>1, SuccessStep
  <2>5. DoneHasSuccess'  BY <2>1, DoneStep
  <2>6. AllSuccessTriggers'  BY <2>1, TriggerStep
  <2>7. CompletedHasSuccess'  BY <2>1, <2>4, CompletedStep
  <2> QED  BY <2>2, <2>3, <2>4, <2>5, <2>6, <2>7
<1>3. Inv => CompletedIsWhole
  BY DEF CompletedHasSuccess, AllSuccessTriggers, CompletedIsWhole
<1> QED  BY <1>1, <1>2, <1>3, PTL DEF Spec

-----------------------------------------------------------------------------
(* A creative nobody attends to has its final status.                      *)

\* While a worker is at one of these steps, it is alone with its message.
AloneWhile(S) == \A w \in Workers : step[w] \in S => Alone(w)

\* The lease is kept at these steps, by haste or by the heartbeat.
Kept(S) == S \subseteq PromptSteps \/ MaxMissedBeats = 0

\* With one delivery to process, the lease that is kept from that delivery on
\* keeps everybody else away: nobody else can start, and nobody has started.
LEMMA AloneStep ==
  ASSUME MaxRetries <= 1, NEW S, S = {"start"} \/ S = Processing, Kept(S),
         TypeOK, BusyHasMessage, DistinctDeliveries, WorkerShape, AloneWhile(S),
         [Next]_vars
  PROVE  AloneWhile(S)'
<1>0. /\ queue \in [Jobs -> {"unsent", "queued", "deleted", "archived"}]
      /\ visible \in [Jobs -> BOOLEAN] /\ readCt \in [Jobs -> Nat]
      /\ step \in [Workers -> Steps] /\ job \in [Workers -> Jobs \cup {NoJob}]
      /\ beat \in [Workers -> {"off", "alive", "missed"}]
      /\ MaxRetries \in Nat /\ NoJob \notin Jobs
  BY ConstantsAssumption DEF TypeOK
<1> USE <1>0
<1> SUFFICES ASSUME NEW v \in Workers, step'[v] \in S  PROVE Alone(v)'
  BY DEF AloneWhile
<1>1. S \subseteq Processing /\ "idle" \notin S  BY DEF Processing
<1>2. ASSUME step[v] \in S
      PROVE  job[v] \in Jobs /\ Alone(v)
  BY <1>1, <1>2 DEF AloneWhile, BusyHasMessage
<1>3. ASSUME UNCHANGED <<queue, visible, job>>, step[v] \in S  PROVE Alone(v)'
  BY <1>2, <1>3 DEF Alone
<1>4. CASE UNCHANGED vars
  BY <1>3, <1>4 DEF vars, queueVars, workerVars
<1>5. ASSUME NEW j \in Jobs, Submit(j)  PROVE Alone(v)'
  BY <1>2, <1>5 DEF Submit, workerVars, Alone
<1>6. ASSUME NEW j \in Jobs, LeaseExpires(j)  PROVE Alone(v)'
  <2>1. step[v] \in S /\ UNCHANGED <<queue, job>>
    BY <1>6 DEF LeaseExpires, workerVars
  <2>2. job[v] # j
    <3>1. S \subseteq PromptSteps \/ beat[v] = "alive"
      BY <1>1, <2>1 DEF Kept, WorkerShape
    <3> QED  BY <1>6, <2>1, <3>1 DEF LeaseExpires, HoldsLease
  <2> QED  BY <1>2, <1>6, <2>1, <2>2 DEF LeaseExpires, Alone
<1>7. ASSUME NEW w \in Workers, HeartbeatMisses(w) \/ HeartbeatResumes(w)
      PROVE  Alone(v)'
  <2>1. step[v] \in S /\ UNCHANGED <<queue, job>>
    BY <1>7 DEF HeartbeatMisses, HeartbeatResumes, queueVars
  <2>2. ~visible[job[v]] => ~visible'[job[v]]
    <3>1. CASE visible' = visible
      BY <3>1
    <3>2. CASE Hide(job[w])
      <4>1. job[v] = job[w] => visible'[job[v]] = FALSE
        BY <1>2, <2>1, <3>2 DEF Hide, Alone
      <4>2. job[v] # job[w] => visible'[job[v]] = visible[job[v]]
        BY <1>2, <2>1, <3>2 DEF Hide
      <4> QED  BY <4>1, <4>2
    <3> QED
      BY <1>7, <3>1, <3>2 DEF HeartbeatMisses, HeartbeatResumes, queueVars
  <2> QED  BY <1>2, <2>1, <2>2 DEF Alone
<1>8. ASSUME NEW w \in Workers,
             DeleteMessage(w) \/ ArchiveMessage(w) \/ Backoff(w) \/ Crash(w)
      PROVE  Alone(v)'
  <2>1. /\ step' = [step EXCEPT ![w] = "idle"]
        /\ \A u \in Workers : job'[u] = IF u = w THEN NoJob ELSE job[u]
    BY <1>8 DEF DeleteMessage, ArchiveMessage, Backoff, Crash, Release
  <2>2. \A j \in Jobs : j # job[w] =>
          queue'[j] = queue[j] /\ visible'[j] = visible[j]
    BY <1>8 DEF DeleteMessage, ArchiveMessage, Backoff, Crash, Remove, Hide, queueVars
  <2>3. v # w /\ step[v] \in S  BY <1>1, <2>1
  <2> QED  BY <1>2, <2>1, <2>2, <2>3 DEF Alone
<1>9. ASSUME NEW w \in Workers, NEW j \in Jobs, ReadToProcess(w, j)  PROVE Alone(v)'
  <2>1. Deliver(w, j) /\ readCt[j] = 0 /\ step' = [step EXCEPT ![w] = "start"]
    <3>1. readCt[j] \in Nat /\ MaxRetries \in Nat /\ readCt[j] + 1 <= MaxRetries
      BY <1>9 DEF ReadToProcess
    <3>2. readCt[j] = 0  BY <3>1
    <3> QED  BY <1>9, <3>2 DEF ReadToProcess, Goto
  <2>2. \A u \in Workers : job[u] # j
    BY <2>1 DEF DistinctDeliveries
  <2>3. CASE v = w
    BY <2>1, <2>2, <2>3 DEF Deliver, Alone
  <2>4. CASE v # w
    BY <1>2, <2>1, <2>2, <2>4 DEF Deliver, Alone
  <2> QED  BY <2>3, <2>4
<1>10. ASSUME NEW w \in Workers, NEW j \in Jobs, ReadToGiveUp(w, j)  PROVE Alone(v)'
  <2>1. Deliver(w, j) /\ step' = [step EXCEPT ![w] = "exhausted"]
    BY <1>10 DEF ReadToGiveUp, Goto
  <2>2. v # w /\ step[v] \in S  BY <1>1, <2>1 DEF Processing
  <2> QED  BY <1>2, <2>1, <2>2 DEF Deliver, Alone
<1>11. ASSUME NEW w \in Workers,
              \/ MarkExhausted(w) \/ MarkStarted(w) \/ Prepare(w)
              \/ PrepareFails(w) \/ PlanTasks(w) \/ AnalysisSucceeded(w)
              \/ AnalysisFailed(w) \/ MarkCompleted(w) \/ Raise(w) \/ MarkFailed(w)
       PROVE  Alone(v)'
  <2>1. UNCHANGED <<queue, visible, job>>
    BY <1>11 DEF MarkExhausted, MarkStarted, Prepare, PrepareFails, PlanTasks,
                 AnalysisSucceeded, AnalysisFailed, MarkCompleted, Raise,
                 MarkFailed, LeaveHeartbeat, queueVars
  <2>2. step[v] \in S
    BY <1>11 DEF MarkExhausted, MarkStarted, Prepare, PrepareFails, PlanTasks,
                 AnalysisSucceeded, AnalysisFailed, MarkCompleted, Raise,
                 MarkFailed, LeaveHeartbeat, Goto, Processing
  <2> QED  BY <1>3, <2>1, <2>2
<1>12. ASSUME NEW w \in Workers, TaskActivity(w) \/ FinishOcr(w)  PROVE Alone(v)'
  BY <1>3, <1>12
  DEF TaskActivity, FinishOcr, MarkProcessing, FinishTask, PersistResult,
      PersistError, TaskStep, queueVars
<1> QED
  BY <1>4, <1>5, <1>6, <1>7, <1>8, <1>9, <1>10, <1>11, <1>12
  DEF Next, Environment, WorkerStep

\* A worker that is about to remove a message has recorded how it ended, and a
\* message that is gone has its creative's final status.
RemovalIsFinal ==
  /\ \A w \in Workers : step[w] \in {"archive", "delete"} => media[job[w]] \in Terminal
  /\ \A j \in Jobs : queue[j] \in {"deleted", "archived"} => media[j] \in Terminal

\* Every step keeps that: recording the start happens alone.
LEMMA RemovalStep ==
  ASSUME TypeOK, BusyHasMessage, AloneWhile({"start"}), RemovalIsFinal, [Next]_vars
  PROVE  RemovalIsFinal'
<1> USE DEF Terminal
<1>1. ASSUME NEW w \in Workers, DeleteMessage(w) \/ ArchiveMessage(w)
      PROVE  /\ job[w] \in Jobs /\ media[job[w]] \in Terminal
             /\ \A j \in Jobs : j # job[w] => queue'[j] = queue[j]
  BY <1>1 DEF DeleteMessage, ArchiveMessage, Remove, RemovalIsFinal, BusyHasMessage,
              TypeOK
<1>2. \/ \E w \in Workers : DeleteMessage(w) \/ ArchiveMessage(w)
      \/ \A j \in Jobs : queue'[j] \in {"deleted", "archived"} => queue'[j] = queue[j]
  <2>1. CASE UNCHANGED vars
    BY <2>1 DEF vars, queueVars
  <2>2. ASSUME NEW j \in Jobs, Submit(j)
        PROVE  \A i \in Jobs : queue'[i] \in {"deleted", "archived"} => queue'[i] = queue[i]
    BY <2>2 DEF Submit, TypeOK
  <2>3. ASSUME NEW w \in Workers, NEW j \in Jobs,
               ReadToProcess(w, j) \/ ReadToGiveUp(w, j)
        PROVE  queue' = queue
    BY <2>3 DEF ReadToProcess, ReadToGiveUp, Deliver
  <2>4. ASSUME NEW j \in Jobs, LeaseExpires(j)  PROVE queue' = queue
    BY <2>4 DEF LeaseExpires
  <2>5. ASSUME NEW w \in Workers,
               \/ HeartbeatMisses(w) \/ HeartbeatResumes(w) \/ Crash(w) \/ Backoff(w)
               \/ MarkExhausted(w) \/ MarkStarted(w) \/ Prepare(w)
               \/ PrepareFails(w) \/ PlanTasks(w) \/ AnalysisSucceeded(w)
               \/ AnalysisFailed(w) \/ MarkCompleted(w) \/ Raise(w) \/ MarkFailed(w)
               \/ TaskActivity(w) \/ FinishOcr(w)
        PROVE  queue' = queue
    BY <2>5
    DEF HeartbeatMisses, HeartbeatResumes, Crash, Backoff, MarkExhausted,
        MarkStarted, Prepare, PrepareFails, PlanTasks, AnalysisSucceeded,
        AnalysisFailed, MarkCompleted, Raise, MarkFailed, queueVars, TaskActivity,
        FinishOcr, MarkProcessing, FinishTask, PersistResult, PersistError, TaskStep
  <2> QED  BY <2>1, <2>2, <2>3, <2>4, <2>5 DEF Next, Environment, WorkerStep
<1>3. CASE NoMediaStep
  BY <1>1, <1>2, <1>3 DEF NoMediaStep, RemovalIsFinal
<1>4. ASSUME NEW w \in Workers, WritesMedia(w, "start", "processing", "prepare")
      PROVE  RemovalIsFinal'
  <2>1. Alone(w) /\ UNCHANGED <<queue, job>>  BY <1>4 DEF WritesMedia, AloneWhile
  <2>2. /\ job[w] \in Jobs
        /\ \A j \in Jobs : media'[j] = IF j = job[w] THEN "processing" ELSE media[j]
        /\ \A v \in Workers : step'[v] = IF v = w THEN "prepare" ELSE step[v]
    BY <1>4, WriteMediaMoves DEF Steps, Processing, MediaStatus
  <2> QED  BY <2>1, <2>2 DEF Alone, RemovalIsFinal, BusyHasMessage
<1>5. ASSUME NEW w \in Workers, NEW from \in {"exhausted", "fail", "finish"},
             NEW status \in Terminal, NEW to \in {"archive", "delete"},
             WritesMedia(w, from, status, to)
      PROVE  RemovalIsFinal'
  <2>1. UNCHANGED <<queue, job>>  BY <1>5 DEF WritesMedia
  <2>2. /\ job[w] \in Jobs
        /\ \A j \in Jobs : media'[j] = IF j = job[w] THEN status ELSE media[j]
        /\ \A v \in Workers : step'[v] = IF v = w THEN to ELSE step[v]
    BY <1>5, WriteMediaMoves DEF Steps, Processing, MediaStatus
  <2> QED  BY <2>1, <2>2 DEF RemovalIsFinal, BusyHasMessage
<1> QED  BY <1>3, <1>4, <1>5, MediaFrame

\* When its message has left the queue, a creative has a final media status, and
\* nobody is left who could write another one: when no two attempts overlap and
\* the one that starts still has its lease.
THEOREM UnattendedFinal ==
  ASSUME OneAttemptAtATime, StartIsPrompt
  PROVE  Spec => []UnattendedIsFinal
<1> DEFINE Inv == AttemptInv /\ AloneWhile({"start"}) /\ RemovalIsFinal
<1>1. Init => Inv
  <2> SUFFICES ASSUME Init  PROVE Inv
    OBVIOUS
  <2>1. AloneWhile({"start"}) /\ RemovalIsFinal
    BY DEF Init, AloneWhile, RemovalIsFinal
  <2> QED  BY <2>1, AttemptInit
<1>2. Inv /\ [Next]_vars => Inv'
  <2> SUFFICES ASSUME Inv, [Next]_vars  PROVE Inv'
    OBVIOUS
  <2>1. AttemptInv'  BY AttemptStep
  <2>2. AloneWhile({"start"})'
    <3>1. CASE LeasesAreKept
      BY <2>1, <3>1 DEF AttemptInv, LeaseHeld, BusyHasMessage, AloneWhile
    <3>2. CASE MaxRetries <= 1
      BY <3>2, AloneStep DEF AttemptInv, StartIsPrompt, Kept
    <3> QED  BY <3>1, <3>2 DEF OneAttemptAtATime
  <2>3. RemovalIsFinal'  BY RemovalStep DEF AttemptInv
  <2> QED  BY <2>1, <2>2, <2>3
<1>3. Inv => UnattendedIsFinal
  BY DEF RemovalIsFinal, UnattendedIsFinal
<1> QED  BY <1>1, <1>2, <1>3, PTL DEF Spec

-----------------------------------------------------------------------------
(* The only attempt: with the shipped MAX_RETRIES of 1.                    *)

Early == {"start", "prepare", "plan"}

\* What the one attempt finds and leaves: nothing before it, no row before the
\* marks, a row in 'processing' for every task under way, and finished rows once
\* the evaluators have been dispatched.
OnlyAttempt ==
  /\ \A j \in Jobs : readCt[j] = 0 =>
       media[j] = "null" /\ \A t \in Tasks : row[j][t] = "absent"
  /\ \A w \in Workers : step[w] \in Early =>
       \A t \in Tasks : row[job[w]][t] = "absent"
  /\ \A w \in Workers : step[w] = "analyse" => \A t \in Tasks :
       /\ plan[w][t] = "mark" => row[job[w]][t] = "absent"
       /\ plan[w][t] \in {"run", "result", "transient", "permanent"} =>
            row[job[w]][t] = "processing"
  /\ \A j \in Jobs : triggered[j] => \A t \in Tasks : row[j][t] \in Finished

\* Only a read counts a delivery, and the only one that is processed is the first.
LEMMA ReadFrame ==
  ASSUME MaxRetries <= 1, NEW S, S = Early \/ S = Processing, TypeOK, [Next]_vars
  PROVE  /\ \A j \in Jobs : readCt'[j] = 0 => readCt[j] = 0
         /\ \A w \in Workers : step'[w] \in S =>
              \/ step[w] \in S /\ job'[w] = job[w]
              \/ job'[w] \in Jobs /\ readCt[job'[w]] = 0
<1>0. /\ readCt \in [Jobs -> Nat] /\ MaxRetries \in Nat
      /\ step \in [Workers -> Steps] /\ job \in [Workers -> Jobs \cup {NoJob}]
  BY ConstantsAssumption DEF TypeOK
<1> USE <1>0 DEF Early, Processing
<1>1. ASSUME UNCHANGED readCt,
             \A w \in Workers : step'[w] \in S => step[w] \in S /\ job'[w] = job[w]
      PROVE  /\ \A j \in Jobs : readCt'[j] = 0 => readCt[j] = 0
             /\ \A w \in Workers : step'[w] \in S =>
                  \/ step[w] \in S /\ job'[w] = job[w]
                  \/ job'[w] \in Jobs /\ readCt[job'[w]] = 0
  BY <1>1
<1>2. CASE UNCHANGED vars
  BY <1>1, <1>2 DEF vars, queueVars, workerVars
<1>3. CASE Environment
  <2>1. UNCHANGED readCt
    BY <1>3 DEF Environment, Submit, LeaseExpires, HeartbeatMisses, HeartbeatResumes,
                Crash, queueVars
  <2>2. \A w \in Workers : step'[w] \in S => step[w] \in S /\ job'[w] = job[w]
    BY <1>3 DEF Environment, Submit, LeaseExpires, HeartbeatMisses, HeartbeatResumes,
                Crash, Release, workerVars
  <2> QED  BY <1>1, <2>1, <2>2
<1>4. ASSUME NEW w \in Workers, NEW j \in Jobs,
             ReadToProcess(w, j) \/ ReadToGiveUp(w, j)
      PROVE  /\ \A i \in Jobs : readCt'[i] = 0 => readCt[i] = 0
             /\ \A v \in Workers : step'[v] \in S =>
                  \/ step[v] \in S /\ job'[v] = job[v]
                  \/ job'[v] \in Jobs /\ readCt[job'[v]] = 0
  <2>1. Deliver(w, j)  BY <1>4 DEF ReadToProcess, ReadToGiveUp
  <2>2. \A i \in Jobs : readCt'[i] = 0 => readCt[i] = 0
    BY <2>1 DEF Deliver
  <2>3. \A v \in Workers : job'[v] = IF v = w THEN j ELSE job[v]
    BY <2>1 DEF Deliver
  <2>4. CASE ReadToProcess(w, j)
    <3>1. readCt[j] + 1 <= MaxRetries /\ step' = [step EXCEPT ![w] = "start"]
      BY <2>4 DEF ReadToProcess, Goto
    <3>2. readCt[j] = 0  BY <3>1
    <3> QED  BY <2>2, <2>3, <3>1, <3>2
  <2>5. CASE ReadToGiveUp(w, j)
    BY <2>2, <2>3, <2>5 DEF ReadToGiveUp, Goto
  <2> QED  BY <1>4, <2>4, <2>5
<1>5. ASSUME NEW w \in Workers,
             DeleteMessage(w) \/ ArchiveMessage(w) \/ Backoff(w)
      PROVE  /\ UNCHANGED readCt
             /\ \A v \in Workers : step'[v] \in S => step[v] \in S /\ job'[v] = job[v]
  BY <1>5 DEF DeleteMessage, ArchiveMessage, Backoff, Release
<1>6. ASSUME NEW w \in Workers,
             \/ MarkExhausted(w) \/ MarkStarted(w) \/ Prepare(w)
             \/ PrepareFails(w) \/ PlanTasks(w) \/ AnalysisSucceeded(w)
             \/ AnalysisFailed(w) \/ MarkCompleted(w) \/ Raise(w) \/ MarkFailed(w)
             \/ TaskActivity(w) \/ FinishOcr(w)
      PROVE  /\ UNCHANGED readCt
             /\ \A v \in Workers : step'[v] \in S => step[v] \in S /\ job'[v] = job[v]
  <2>1. UNCHANGED <<readCt, job>>
    BY <1>6 DEF MarkExhausted, MarkStarted, Prepare, PrepareFails, PlanTasks,
                AnalysisSucceeded, AnalysisFailed, MarkCompleted, Raise, MarkFailed,
                LeaveHeartbeat, queueVars, TaskActivity, FinishOcr, MarkProcessing,
                FinishTask, PersistResult, PersistError, TaskStep
  <2>2. \A v \in Workers : step'[v] \in S => step[v] \in S
    BY <1>6 DEF MarkExhausted, MarkStarted, Prepare, PrepareFails, PlanTasks,
                AnalysisSucceeded, AnalysisFailed, MarkCompleted, Raise, MarkFailed,
                LeaveHeartbeat, Goto, TaskActivity, FinishOcr, MarkProcessing,
                FinishTask, PersistResult, PersistError, TaskStep
  <2> QED  BY <2>1, <2>2
<1> QED  BY <1>1, <1>2, <1>3, <1>4, <1>5, <1>6 DEF Next, WorkerStep

\* What the evaluators have been dispatched to judge does not change any more.
EvidenceStays == \A j \in Jobs : triggered[j] => row'[j] = row[j]

\* A row is written by the one attempt, whose rows are not all finished.
LEMMA OnlyAttemptStep ==
  ASSUME MaxRetries <= 1, AttemptInv, MarkedHaveRows, OnlyAttempt, [Next]_vars
  PROVE  OnlyAttempt' /\ EvidenceStays
<1>0. TypeOK /\ BusyHasMessage /\ SoleProcessor /\ DistinctDeliveries /\ EvidenceAtDispatch
  BY EvidenceStep, OneAttemptIsSole DEF AttemptInv, OneAttemptAtATime
<1> USE <1>0
\* A worker with a message has counted a delivery of it.
<1>1. \A w \in Workers : step[w] # "idle" => job[w] \in Jobs /\ readCt[job[w]] # 0
  <2> SUFFICES ASSUME NEW w \in Workers, job[w] \in Jobs  PROVE readCt[job[w]] # 0
    BY DEF BusyHasMessage
  <2>1. delivery[w] \in 1..readCt[job[w]] /\ readCt[job[w]] \in Nat
    BY DEF DistinctDeliveries, TypeOK
  <2> QED  BY <2>1
<1>2. \A j \in Jobs : readCt'[j] = 0 => media'[j] = "null"
  <2>1. CASE NoMediaStep
    BY <2>1, ReadFrame DEF NoMediaStep, OnlyAttempt
  <2>2. ASSUME NEW w \in Workers, NEW from \in Steps \ {"idle"},
               NEW status \in MediaStatus, NEW to \in Steps,
               WritesMedia(w, from, status, to), NEW j \in Jobs, readCt'[j] = 0
        PROVE  media'[j] = "null"
    <3>1. readCt[j] = 0 /\ step[w] # "idle"  BY <2>2 DEF WritesMedia
    <3>2. j # job[w]  BY <1>1, <3>1
    <3> QED  BY <2>2, <3>1, <3>2, WriteMediaMoves DEF OnlyAttempt
  <2>3. /\ {"start", "exhausted", "fail", "finish"} \subseteq Steps \ {"idle"}
        /\ {"prepare", "archive", "delete"} \subseteq Steps
        /\ {"processing", "exhausted", "failed", "completed"} \subseteq MediaStatus
    BY DEF Steps, Processing, MediaStatus
  <2> QED  BY <2>1, <2>2, <2>3, MediaFrame
\* Where no row is written, the rows of whoever starts are still absent.
<1>3. ASSUME UNCHANGED <<row, triggered>>
      PROVE  /\ EvidenceStays
             /\ \A j \in Jobs : readCt'[j] = 0 => \A t \in Tasks : row'[j][t] = "absent"
             /\ \A w \in Workers : step'[w] \in Early =>
                  \A t \in Tasks : row'[job'[w]][t] = "absent"
             /\ \A j \in Jobs : triggered'[j] => \A t \in Tasks : row'[j][t] \in Finished
  BY <1>3, ReadFrame DEF EvidenceStays, OnlyAttempt
<1>4. CASE NoRowStep
  <2>1. \A w \in Workers : step'[w] = "analyse" => \A t \in Tasks :
          /\ plan'[w][t] = "mark" => row'[job'[w]][t] = "absent"
          /\ plan'[w][t] \in {"run", "result", "transient", "permanent"} =>
               row'[job'[w]][t] = "processing"
    BY <1>4 DEF NoRowStep, OnlyAttempt
  <2> QED  BY <1>2, <1>3, <1>4, <2>1 DEF NoRowStep, OnlyAttempt
<1>5. ASSUME NEW w \in Workers, PlanTasks(w)  PROVE OnlyAttempt' /\ EvidenceStays
  <2>1. UNCHANGED <<row, triggered, job>> /\ step[w] \in Early
    BY <1>5 DEF PlanTasks, dbVars, Early
  <2>2. \A t \in Tasks : plan'[w][t] \in {"mark", "skip"}
    BY <1>5 DEF PlanTasks, TypeOK
  <2>3. \A v \in Workers \ {w} : plan'[v] = plan[v] /\ step'[v] = step[v]
    BY <1>5 DEF PlanTasks, Goto, TypeOK
  <2>4. \A v \in Workers : step'[v] = "analyse" => \A t \in Tasks :
          /\ plan'[v][t] = "mark" => row'[job'[v]][t] = "absent"
          /\ plan'[v][t] \in {"run", "result", "transient", "permanent"} =>
               row'[job'[v]][t] = "processing"
    BY <2>1, <2>2, <2>3 DEF OnlyAttempt
  <2> QED  BY <1>2, <1>3, <2>1, <2>4 DEF OnlyAttempt
<1>6. ASSUME NEW w \in Workers, AnalysisSucceeded(w)
      PROVE  OnlyAttempt' /\ EvidenceStays
  <2>1. UNCHANGED <<row, triggered, job, plan>>
    BY <1>6 DEF AnalysisSucceeded, dbVars
  <2>2. \A v \in Workers : step'[v] = "analyse" => step[v] = "analyse"
    BY <1>6 DEF AnalysisSucceeded, Goto, TypeOK
  <2>3. \A v \in Workers : step'[v] = "analyse" => \A t \in Tasks :
          /\ plan'[v][t] = "mark" => row'[job'[v]][t] = "absent"
          /\ plan'[v][t] \in {"run", "result", "transient", "permanent"} =>
               row'[job'[v]][t] = "processing"
    BY <2>1, <2>2 DEF OnlyAttempt
  <2> QED  BY <1>2, <1>3, <2>1, <2>3 DEF OnlyAttempt
<1>7. ASSUME NEW w \in Workers, NEW t \in Tasks,
             NEW o \in {"result", "done", "transient", "permanent"}, FinishTask(w, t, o)
      PROVE  OnlyAttempt' /\ EvidenceStays
  <2>1. UNCHANGED <<row, triggered, step, job>> /\ step[w] = "analyse"
    BY <1>7 DEF FinishTask, TaskStep
  <2>2. plan[w][t] = "run" /\ plan' = [plan EXCEPT ![w][t] = o]
    BY <1>7 DEF FinishTask, TaskStep
  <2>3. row[job[w]][t] = "processing"
    BY <2>1, <2>2 DEF OnlyAttempt
  <2>4. \A v \in Workers, u \in Tasks :
          plan'[v][u] = IF v = w /\ u = t THEN o ELSE plan[v][u]
    BY <2>2 DEF TypeOK
  <2>5. \A v \in Workers : step'[v] = "analyse" => \A u \in Tasks :
          /\ plan'[v][u] = "mark" => row'[job'[v]][u] = "absent"
          /\ plan'[v][u] \in {"run", "result", "transient", "permanent"} =>
               row'[job'[v]][u] = "processing"
    BY <2>1, <2>3, <2>4 DEF OnlyAttempt
  <2> QED  BY <1>2, <1>3, <2>1, <2>5 DEF OnlyAttempt
<1>8. ASSUME NEW w \in Workers, NEW t \in Tasks, NEW stage \in Progress \ {"mark"},
             NEW status \in RowStatus \ {"absent"}, WritesRow(w, t, stage, status)
      PROVE  OnlyAttempt' /\ EvidenceStays
  <2> DEFINE k == job[w]
  <2>1. /\ k \in Jobs /\ step[w] = "analyse" /\ step' = step /\ job' = job
        /\ \A j \in Jobs, u \in Tasks :
             row'[j][u] = IF j = k /\ u = t THEN status ELSE row[j][u]
        /\ \A v \in Workers, u \in Tasks :
             plan'[v][u] = IF v = w /\ u = t THEN stage ELSE plan[v][u]
        /\ UNCHANGED <<media, readCt>>
    BY <1>8, WriteRowMoves
  <2>2. plan[w][t] \in {"mark", "run", "result", "transient", "permanent"}
    BY <1>8 DEF WritesRow
  <2>3. row[k][t] \in {"absent", "processing"}  BY <2>1, <2>2 DEF OnlyAttempt
  <2>4. ~triggered[k]  BY <2>1, <2>3 DEF OnlyAttempt, Finished
  <2>5. EvidenceStays
    BY <1>8, <2>1, <2>4 DEF EvidenceStays, WritesRow, SetRow, TypeOK
  <2>6. \A j \in Jobs : triggered'[j] => \A u \in Tasks : row'[j][u] \in Finished
    BY <2>5 DEF EvidenceAtDispatch, EvidenceStays, OnlyAttempt
  <2>7. readCt[k] # 0  BY <1>1, <2>1
  <2>8. \A v \in Workers : v # w /\ step[v] \in Early \cup {"analyse"} =>
          job[v] \in Jobs /\ job[v] # k
    BY <2>1 DEF SoleProcessor, Early, Processing, BusyHasMessage
  <2>9. \A v \in Workers : step[v] \in Early => v # w /\ job[v] \in Jobs /\ job[v] # k
    BY <2>1, <2>8 DEF Early
  <2>10. \A v \in Workers : step[v] = "analyse" => \A u \in Tasks :
           /\ plan'[v][u] = "mark" => row'[job[v]][u] = "absent"
           /\ plan'[v][u] \in {"run", "result", "transient", "permanent"} =>
                row'[job[v]][u] = "processing"
    <3> SUFFICES ASSUME NEW v \in Workers, step[v] = "analyse", NEW u \in Tasks
                 PROVE  /\ plan'[v][u] = "mark" => row'[job[v]][u] = "absent"
                        /\ plan'[v][u] \in {"run", "result", "transient", "permanent"} =>
                             row'[job[v]][u] = "processing"
      OBVIOUS
    <3>1. CASE v = w /\ u = t
      <4>1. plan'[v][u] = stage /\ row'[job[v]][u] = status  BY <2>1, <3>1
      <4>2. stage = "run" => status = "processing"  BY <1>8 DEF WritesRow
      <4>3. stage \in {"run", "done", "failed", "fatal"}  BY <1>8 DEF WritesRow
      <4> QED  BY <4>1, <4>2, <4>3
    <3>2. CASE v = w /\ u # t
      BY <2>1, <3>2 DEF OnlyAttempt
    <3>3. CASE v # w
      BY <2>1, <2>8, <3>3 DEF OnlyAttempt
    <3> QED  BY <3>1, <3>2, <3>3
  <2>11. \A v \in Workers : step[v] \in Early => \A u \in Tasks : row'[job[v]][u] = "absent"
    BY <2>1, <2>9 DEF OnlyAttempt
  <2>12. \A j \in Jobs : readCt[j] = 0 => \A u \in Tasks : row'[j][u] = "absent"
    BY <2>1, <2>7 DEF OnlyAttempt
  <2> QED  BY <1>2, <2>1, <2>5, <2>6, <2>10, <2>11, <2>12 DEF OnlyAttempt
<1> QED  BY <1>4, <1>5, <1>6, <1>7, <1>8, RowFrame

\* With MAX_RETRIES 1 the invariant of the only attempt holds, lost leases or not.
LEMMA OnlyAttemptHolds ==
  ASSUME MaxRetries <= 1
  PROVE  Spec => [](AttemptInv /\ MarkedHaveRows /\ OnlyAttempt)
<1>1. Init => AttemptInv /\ MarkedHaveRows /\ OnlyAttempt
  <2>1. Init => MarkedHaveRows /\ OnlyAttempt
    BY DEF Init, MarkedHaveRows, OnlyAttempt, Early
  <2> QED  BY <2>1, AttemptInit
<1>2. AttemptInv /\ MarkedHaveRows /\ OnlyAttempt /\ [Next]_vars
        => (AttemptInv /\ MarkedHaveRows /\ OnlyAttempt)'
  <2> SUFFICES ASSUME AttemptInv, MarkedHaveRows, OnlyAttempt, [Next]_vars
               PROVE  AttemptInv' /\ MarkedHaveRows' /\ OnlyAttempt'
    OBVIOUS
  <2>1. TypeOK /\ BusyHasMessage  BY DEF AttemptInv
  <2> QED  BY <2>1, AttemptStep, EvidenceStep, OnlyAttemptStep
<1> QED  BY <1>1, <1>2, PTL DEF Spec
=============================================================================
