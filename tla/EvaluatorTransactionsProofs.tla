--------------------- MODULE EvaluatorTransactionsProofs ---------------------
(* Proofs about EvaluatorTransactions, for any evaluators, metric sets and *)
(* calls: its transactions implement the atomic steps of EvaluatorRuns.    *)
EXTENDS EvaluatorTransactions, TLAPS

\* Every place that a transaction may be at is one of its steps.
LEMMA StepTypes ==
  ASSUME NEW todo \in SUBSET Evaluators, NEW step \in Steps(todo)
  PROVE  step.next \in Evaluators \cup {None} /\ step.todo \in SUBSET Evaluators
BY DEF Steps, None

\* A transaction that completes a run has locked it: the run is processing, and
\* no other transaction has it. A swept run is timed out, and stays so.
RunLocks ==
  /\ \A c \in Calls : InTransaction(c) =>
       /\ run[c[1]] = "processing" /\ output[c] = "judged"
       /\ c[1] \notin sweep.held
       /\ deletion.at = "cascading" => c[1] \notin deletion.held
       /\ \A d \in Calls : InTransaction(d) /\ d[1] = c[1] => d = c
  /\ \A c \in Calls : at[c] = "complete" => output[c] # "none"
  /\ \A e \in sweep.held : TimedOut(e)

\* Every step keeps the types.
LEMMA TypesInductive ==
  ASSUME TypeOK, RunLocks, [Next]_vars
  PROVE  TypeOK'
<1>1. CASE UNCHANGED vars
  BY <1>1 DEF TypeOK, vars, rowVars, callVars, txVars
<1>2. ASSUME NEW posted \in SUBSET Evaluators, Dispatch(posted) PROVE TypeOK'
  <2>1. run' \in [Evaluators -> {"absent", "dispatched", "processing"} \cup Ended]
    BY <1>2 DEF Dispatch, Ended
  <2>2. at' \in [Calls -> {"unused", "inflight", "evaluating", "complete", "begun",
                          "referring", "scheduling", "failing", "over"}]
    BY <1>2 DEF Dispatch, TypeOK
  <2> QED BY <1>2, <2>1, <2>2 DEF Dispatch, TypeOK, txVars
<1>3. ASSUME NEW c \in Calls, Resend(c) \/ Lose(c) \/ EvaluateThrows(c) PROVE TypeOK'
  BY <1>3 DEF Resend, Lose, EvaluateThrows, Goto, TypeOK, rowVars, txVars
<1>4. ASSUME NEW c \in Calls, Claim(c) \/ Fail(c) PROVE TypeOK'
  <2>1. c[1] \in Evaluators
    BY TransactionsAssumption
  <2>2. run' \in [Evaluators -> {"absent", "dispatched", "processing"} \cup Ended]
        /\ stale' \in [Evaluators -> BOOLEAN]
    <3>1. (\E status \in {"processing", "failed"} : SetRun(c[1], status))
          \/ UNCHANGED <<run, stale>>
      BY <1>4 DEF Claim, Fail
    <3>2. ASSUME NEW status \in {"processing", "failed"}, SetRun(c[1], status)
          PROVE  run' \in [Evaluators -> {"absent", "dispatched", "processing"} \cup Ended]
                 /\ stale' \in [Evaluators -> BOOLEAN]
      <4>1. run' = [run EXCEPT ![c[1]] = status] /\ stale' = [stale EXCEPT ![c[1]] = FALSE]
        BY <3>2 DEF SetRun
      <4>2. status \in {"absent", "dispatched", "processing"} \cup Ended
        BY DEF Ended
      <4> QED BY <4>1, <4>2 DEF TypeOK
    <3> QED BY <3>1, <3>2 DEF TypeOK
  <2>3. at' \in [Calls -> {"unused", "inflight", "evaluating", "complete", "begun",
                           "referring", "scheduling", "failing", "over"}]
    BY <1>4 DEF Claim, Fail, Goto, TypeOK
  <2> QED BY <1>4, <2>2, <2>3 DEF Claim, Fail, TypeOK, txVars
<1>5. ASSUME NEW c \in Calls, NEW answer \in {"judged", "incomplete"},
             Evaluate(c, answer)
      PROVE  TypeOK'
  BY <1>5 DEF Evaluate, Goto, TypeOK, rowVars, txVars
<1>6. ASSUME NEW c \in Calls, Begin(c) \/ AbortCall(c) PROVE TypeOK'
  <2>1. /\ at' \in [Calls -> {"unused", "inflight", "evaluating", "complete", "begun",
                              "referring", "scheduling", "failing", "over"}]
        /\ written' \in [Calls -> SUBSET Metrics]
        /\ schedule' \in [Calls -> {"none", "pending", "failed"}]
    BY <1>6 DEF Begin, AbortCall, Answer, Rollback, Goto, TypeOK, txVars
  <2>2. UNCHANGED <<rowVars, output, sweep, deletion, deletions>>
    BY <1>6 DEF Begin, AbortCall
  <2> QED BY <2>1, <2>2 DEF TypeOK, rowVars
<1>7. ASSUME NEW c \in Calls, NEW m \in Metrics, Insert(c, m) \/ InsertNext(c, m)
      PROVE  TypeOK'
  <2>1. CASE Insert(c, m)
    BY <2>1 DEF Insert, Goto, TypeOK, rowVars
  <2>2. CASE InsertNext(c, m)
    BY <2>2 DEF InsertNext, Trigger, TypeOK, rowVars, callVars
  <2> QED BY <1>7, <2>1, <2>2
<1>8. ASSUME NEW c \in Calls, LockRequest(c) PROVE TypeOK'
  BY <1>8 DEF LockRequest, Trigger, Goto, TypeOK, rowVars
<1>9. ASSUME NEW c \in Calls, Commit(c) PROVE TypeOK'
  <2>1. c[1] \in Evaluators
    BY TransactionsAssumption
  <2>2. run' \in [Evaluators -> {"absent", "dispatched", "processing"} \cup Ended]
        /\ stale' \in [Evaluators -> BOOLEAN]
    BY <1>9, <2>1 DEF Commit, SetRun, TypeOK, Ended
  <2>3. /\ completion' \in {"null", "pending", "failed"}
        /\ lastError' \in {"none", "not_scheduled"}
        /\ posts' \in Nat
    BY <1>9 DEF Commit, TypeOK
  <2>4. at' \in [Calls -> {"unused", "inflight", "evaluating", "complete", "begun",
                           "referring", "scheduling", "failing", "over"}]
    BY <1>9 DEF Commit, Answer, Goto, TypeOK
  <2>5. /\ written' \in [Calls -> SUBSET Metrics]
        /\ schedule' \in [Calls -> {"none", "pending", "failed"}]
    BY <1>9 DEF Commit, TypeOK
  <2>6. UNCHANGED <<output, sweep, deletion, deletions>>
    BY <1>9 DEF Commit
  <2>7. result' \in [Metrics -> {"absent", "judged"}]
    BY <1>9 DEF Commit, TypeOK, RunLocks, InTransaction
  <2> QED BY <2>2, <2>3, <2>4, <2>5, <2>6, <2>7 DEF TypeOK
<1>10. ASSUME NEW e \in Evaluators, Age(e) PROVE TypeOK'
  BY <1>10 DEF Age, TypeOK, callVars, txVars
<1>11. CASE StartSweep \/ SweepRun \/ AbortSweep
  <2>1. sweep' \in [next : Evaluators \cup {None}, todo : SUBSET Evaluators,
                   held : SUBSET Evaluators]
    <3>1. CASE StartSweep
      <4>1. {e \in Evaluators : TimedOut(e)} \in SUBSET Evaluators
        OBVIOUS
      <4> QED BY <3>1, <4>1, StepTypes DEF StartSweep
    <3>2. CASE SweepRun
      <4>1. sweep.next \in Evaluators /\ sweep.todo \in SUBSET Evaluators
            /\ sweep.held \in SUBSET Evaluators
        BY <3>2 DEF SweepRun, TypeOK
      <4>2. PICK step \in Steps(sweep.todo) :
              sweep' = [next |-> step.next, todo |-> step.todo,
                        held |-> IF TimedOut(sweep.next) /\ Exists(sweep.next)
                                 THEN sweep.held \cup {sweep.next} ELSE sweep.held]
        BY <3>2 DEF SweepRun
      <4> QED BY <4>1, <4>2, StepTypes
    <3>3. CASE AbortSweep
      BY <3>3 DEF AbortSweep, NoSweep
    <3> QED BY <1>11, <3>1, <3>2, <3>3
  <2> QED BY <1>11, <2>1
          DEF StartSweep, SweepRun, AbortSweep, TypeOK, rowVars, callVars, txVars
<1>12. CASE CommitSweep
  BY <1>12 DEF CommitSweep, TypeOK, NoSweep, Ended, callVars, txVars
<1>13. CASE DeleteRequest \/ DeletionStep \/ AbortDeletion
  <2>1. deletion' \in [at : {"none", "cascading", "deleted"},
                      next : Evaluators \cup {None}, todo : SUBSET Evaluators,
                      held : SUBSET Evaluators, results : SUBSET Metrics]
    <3>1. CASE DeleteRequest
      <4>1. Doomed.runs \in SUBSET Evaluators /\ Doomed.results \in SUBSET Metrics
        BY DEF Doomed
      <4> QED BY <3>1, <4>1, StepTypes DEF DeleteRequest
    <3>2. CASE DeleteRun
      <4>1. /\ deletion.next \in Evaluators /\ deletion.todo \in SUBSET Evaluators
            /\ deletion.held \in SUBSET Evaluators
        BY <3>2 DEF DeleteRun, TypeOK
      <4>2. PICK step \in Steps(deletion.todo) :
              deletion' = [deletion EXCEPT !.next = step.next, !.todo = step.todo,
                                           !.held = deletion.held \cup {deletion.next}]
        BY <3>2 DEF DeleteRun
      <4> QED BY <4>1, <4>2, StepTypes DEF TypeOK
    <3>3. CASE CommitDeletion
      BY <3>3 DEF CommitDeletion, TypeOK
    <3>4. CASE AbortDeletion
      BY <3>4 DEF AbortDeletion, NoDeletion
    <3> QED BY <1>13, <3>1, <3>2, <3>3, <3>4 DEF DeletionStep
  <2>2. deletions' \in Nat
    <3>1. deletions' = deletions + 1 \/ deletions' = deletions
      BY <1>13 DEF DeleteRequest, DeletionStep, DeleteRun, CommitDeletion, AbortDeletion
    <3> QED BY <3>1 DEF TypeOK
  <2>3. UNCHANGED <<rowVars, callVars, txVars, sweep>>
    BY <1>13 DEF DeleteRequest, DeletionStep, DeleteRun, CommitDeletion, AbortDeletion
  <2> QED BY <2>1, <2>2, <2>3 DEF TypeOK, rowVars, callVars, txVars
<1> QED
  BY <1>1, <1>2, <1>3, <1>4, <1>5, <1>6, <1>7, <1>8, <1>9, <1>10, <1>11, <1>12, <1>13
  DEF Next, CallStep, CompletionStep, SweepStep, Abort

\* A statement that finds its run unlocked meets nobody on it.
LEMMA Unlocked ==
  ASSUME NEW e \in Evaluators, RunHolders(e) = {}
  PROVE  /\ \A c \in Calls : InTransaction(c) => c[1] # e
         /\ e \notin sweep.held
         /\ deletion.at = "cascading" => e \notin deletion.held
BY DEF RunHolders

\* The sweep and the deletion lock a run when no evaluator has it.
LEMMA WalkersWait ==
  ASSUME NEW t \in {Sweep, Deletion}, Awaited(t) = {}
  PROVE  /\ t = Sweep /\ sweep.next # None =>
              /\ \A c \in Calls : InTransaction(c) => c[1] # sweep.next
              /\ deletion.at = "cascading" => sweep.next \notin deletion.held
         /\ t = Deletion /\ deletion.next # None =>
              /\ \A c \in Calls : InTransaction(c) => c[1] # deletion.next
              /\ deletion.next \notin sweep.held
<1>1. Sweep \notin Calls /\ Deletion \notin Calls /\ Sweep # Deletion
  BY TransactionsAssumption DEF Sweep, Deletion
<1>2. ASSUME t = Sweep, sweep.next # None
      PROVE  RunHolders(sweep.next) \ {Sweep} = {}
  BY <1>2 DEF Awaited
<1>3. ASSUME t = Deletion, deletion.next # None
      PROVE  RunHolders(deletion.next) \ {Deletion} = {}
  BY <1>1, <1>3 DEF Awaited
<1> QED BY <1>1, <1>2, <1>3 DEF RunHolders

\* Every step keeps the locks on the runs exclusive.
LEMMA RunLocksInductive ==
  ASSUME TypeOK, RunLocks, [Next]_vars
  PROVE  RunLocks'
<1>0. \A c \in Calls : c[1] \in Evaluators
  BY TransactionsAssumption
<1>1. CASE UNCHANGED vars
  BY <1>1 DEF RunLocks, InTransaction, TimedOut, vars, rowVars, callVars
<1>2. ASSUME NEW posted \in SUBSET Evaluators, Dispatch(posted) PROVE RunLocks'
  <2>1. \A c \in Calls : ~InTransaction(c)
    BY <1>0, <1>2 DEF Dispatch, RunLocks
  <2>2. sweep.held = {}
    BY <1>2 DEF Dispatch, RunLocks, TimedOut, TypeOK
  <2>3. \A c \in Calls : ~InTransaction(c)'
    BY <1>2, <2>1 DEF Dispatch, InTransaction
  <2>4. sweep'.held = {}
    BY <1>2, <2>2 DEF Dispatch
  <2>5. \A c \in Calls : at'[c] = "complete" => at[c] = "complete" /\ output'[c] = output[c]
    BY <1>2 DEF Dispatch
  <2> QED BY <2>3, <2>4, <2>5 DEF RunLocks
<1>3. ASSUME NEW c \in Calls,
             \/ Resend(c) \/ Lose(c) \/ EvaluateThrows(c)
             \/ \E answer \in {"judged", "incomplete"} : Evaluate(c, answer)
      PROVE  RunLocks'
  <2>1. ~InTransaction(c) /\ ~InTransaction(c)'
    BY <1>3 DEF Resend, Lose, EvaluateThrows, Evaluate, Goto, InTransaction, TypeOK
  <2>2. \A d \in Calls \ {c} : at'[d] = at[d] /\ output'[d] = output[d]
    BY <1>3 DEF Resend, Lose, EvaluateThrows, Evaluate, Goto, TypeOK
  <2>3. UNCHANGED <<rowVars, sweep, deletion>>
    BY <1>3 DEF Resend, Lose, EvaluateThrows, Evaluate
  <2>4. at'[c] = "complete" => output'[c] # "none"
    BY <1>3 DEF Resend, Lose, EvaluateThrows, Evaluate, Goto, TypeOK
  <2> QED BY <2>1, <2>2, <2>3, <2>4 DEF RunLocks, InTransaction, TimedOut, rowVars
<1>4. ASSUME NEW c \in Calls, Claim(c) \/ Fail(c) PROVE RunLocks'
  <2>1. ~InTransaction(c) /\ ~InTransaction(c)'
    BY <1>4 DEF Claim, Fail, Goto, InTransaction, TypeOK
  <2>2. \A d \in Calls \ {c} : at'[d] = at[d]
    BY <1>4 DEF Claim, Fail, Goto, TypeOK
  <2>3. \A e \in Evaluators \ {c[1]} : run'[e] = run[e] /\ stale'[e] = stale[e]
    BY <1>4 DEF Claim, Fail, SetRun, TypeOK
  <2>4. UNCHANGED <<output, sweep, deletion>>
    BY <1>4 DEF Claim, Fail
  <2>5. /\ \A d \in Calls : InTransaction(d) => d[1] # c[1]
        /\ c[1] \notin sweep.held
    BY <1>0, <1>4, Unlocked DEF Claim, Fail
  <2>6. sweep.held \subseteq Evaluators
    BY DEF TypeOK
  <2>7. at'[c] # "complete"
    BY <1>4 DEF Claim, Fail, Goto, TypeOK
  <2> QED
    BY <1>0, <2>1, <2>2, <2>3, <2>4, <2>5, <2>6, <2>7 DEF RunLocks, InTransaction, TimedOut
<1>5. ASSUME NEW c \in Calls, Begin(c) PROVE RunLocks'
  <2>1. \A d \in Calls \ {c} : at'[d] = at[d]
    BY <1>5 DEF Begin, Answer, Rollback, Goto, TypeOK
  <2>2. UNCHANGED <<rowVars, output, sweep, deletion>>
    BY <1>5 DEF Begin
  <2>3. /\ \A d \in Calls : InTransaction(d) => d[1] # c[1]
        /\ c[1] \notin sweep.held
        /\ deletion.at = "cascading" => c[1] \notin deletion.held
    BY <1>0, <1>5, Unlocked DEF Begin
  <2>4. InTransaction(c)' => run[c[1]] = "processing" /\ output[c] = "judged"
    <3>1. CASE run[c[1]] = "processing" /\ output[c] # "incomplete"
      BY <1>5, <3>1 DEF Begin, RunLocks, TypeOK
    <3>2. CASE at'[c] \in {"over", "failing"}
      BY <3>2 DEF InTransaction
    <3> QED BY <1>5, <3>1, <3>2 DEF Begin, Answer, Rollback, Goto, TypeOK
  <2>5. at'[c] # "complete"
    BY <1>5 DEF Begin, Answer, Rollback, Goto, TypeOK
  <2> QED BY <2>1, <2>2, <2>3, <2>4, <2>5 DEF RunLocks, InTransaction, TimedOut, rowVars
<1>6. ASSUME NEW c \in Calls, AbortCall(c) PROVE RunLocks'
  <2>1. /\ ~InTransaction(c)' /\ at'[c] # "complete"
        /\ \A d \in Calls \ {c} : at'[d] = at[d]
    BY <1>6 DEF AbortCall, Rollback, Goto, InTransaction, TypeOK
  <2>2. UNCHANGED <<rowVars, output, sweep, deletion>>
    BY <1>6 DEF AbortCall
  <2> QED BY <2>1, <2>2 DEF RunLocks, InTransaction, TimedOut, rowVars
<1>7. ASSUME NEW c \in Calls,
             LockRequest(c) \/ \E m \in Metrics : Insert(c, m) \/ InsertNext(c, m)
      PROVE  RunLocks'
  <2>1. /\ InTransaction(c) /\ InTransaction(c)' /\ at'[c] # "complete"
        /\ \A d \in Calls \ {c} : at'[d] = at[d]
    BY <1>7 DEF LockRequest, Insert, InsertNext, Goto, InTransaction, TypeOK, callVars
  <2>2. UNCHANGED <<rowVars, output, sweep, deletion>>
    BY <1>7 DEF LockRequest, Insert, InsertNext, callVars
  <2> QED BY <2>1, <2>2 DEF RunLocks, InTransaction, TimedOut, rowVars
<1>8. ASSUME NEW c \in Calls, Commit(c) PROVE RunLocks'
  <2>1. /\ InTransaction(c) /\ ~InTransaction(c)' /\ at'[c] # "complete"
        /\ \A d \in Calls \ {c} : at'[d] = at[d]
    BY <1>8 DEF Commit, Answer, Goto, InTransaction, TypeOK
  <2>2. \A e \in Evaluators \ {c[1]} : run'[e] = run[e] /\ stale'[e] = stale[e]
    BY <1>8 DEF Commit, SetRun, TypeOK
  <2>3. UNCHANGED <<output, sweep, deletion>>
    BY <1>8 DEF Commit
  <2>4. c[1] \notin sweep.held /\ \A d \in Calls \ {c} : InTransaction(d) => d[1] # c[1]
    BY <2>1 DEF RunLocks
  <2>5. sweep.held \subseteq Evaluators
    BY DEF TypeOK
  <2> QED BY <1>0, <2>1, <2>2, <2>3, <2>4, <2>5 DEF RunLocks, InTransaction, TimedOut
<1>9. ASSUME NEW e \in Evaluators, Age(e) PROVE RunLocks'
  <2>1. \A d \in Evaluators : TimedOut(d) => TimedOut(d)'
    BY <1>9 DEF Age, TimedOut, TypeOK
  <2>2. UNCHANGED <<run, at, output, sweep, deletion>>
    BY <1>9 DEF Age, callVars
  <2>3. sweep.held \subseteq Evaluators
    BY DEF TypeOK
  <2> QED BY <2>1, <2>2, <2>3 DEF RunLocks, InTransaction
<1>10. CASE SweepRun
  <2>1. UNCHANGED <<rowVars, at, output, deletion>>
    BY <1>10 DEF SweepRun, callVars
  <2>2. sweep'.held \in {sweep.held, sweep.held \cup {sweep.next}}
        /\ (sweep.next \in sweep'.held => sweep.next \in sweep.held \/ TimedOut(sweep.next))
    BY <1>10 DEF SweepRun
  <2>3. \A c \in Calls : InTransaction(c) => c[1] # sweep.next
    BY <1>10, WalkersWait DEF SweepRun
  <2> QED BY <2>1, <2>2, <2>3 DEF RunLocks, InTransaction, TimedOut, rowVars
<1>11. CASE StartSweep \/ AbortSweep
  <2>1. sweep'.held = {}
    <3>1. CASE StartSweep
      <4>1. PICK step \in Steps({e \in Evaluators : TimedOut(e)}) :
              sweep' = [next |-> step.next, todo |-> step.todo, held |-> {}]
        BY <3>1 DEF StartSweep
      <4> QED BY <4>1
    <3> QED BY <1>11, <3>1 DEF AbortSweep, NoSweep
  <2>2. UNCHANGED <<rowVars, at, output, deletion>>
    BY <1>11 DEF StartSweep, AbortSweep, callVars
  <2> QED BY <2>1, <2>2 DEF RunLocks, InTransaction, rowVars
<1>12. CASE CommitSweep
  <2>1. sweep'.held = {}
    BY <1>12 DEF CommitSweep, NoSweep
  <2>2. \A e \in Evaluators \ sweep.held : run'[e] = run[e]
    BY <1>12 DEF CommitSweep
  <2>3. UNCHANGED <<at, output, deletion>>
    BY <1>12 DEF CommitSweep, callVars
  <2> QED BY <1>0, <2>1, <2>2, <2>3 DEF RunLocks, InTransaction
<1>13. CASE DeleteRun
  <2>1. UNCHANGED <<rowVars, at, output, sweep>>
    BY <1>13 DEF DeleteRun, callVars
  <2>2. deletion'.held = deletion.held \cup {deletion.next} /\ deletion.at = "cascading"
    BY <1>13 DEF DeleteRun, TypeOK
  <2>3. \A c \in Calls : InTransaction(c) => c[1] # deletion.next
    BY <1>13, WalkersWait DEF DeleteRun
  <2> QED BY <2>1, <2>2, <2>3 DEF RunLocks, InTransaction, TimedOut, rowVars
<1>14. CASE DeleteRequest \/ CommitDeletion \/ AbortDeletion
  <2>1. deletion'.at # "cascading" \/ deletion'.held = {}
    BY <1>14 DEF DeleteRequest, CommitDeletion, AbortDeletion, NoDeletion, TypeOK
  <2>2. UNCHANGED <<rowVars, at, output, sweep>>
    BY <1>14 DEF DeleteRequest, CommitDeletion, AbortDeletion, callVars
  <2> QED BY <2>1, <2>2 DEF RunLocks, InTransaction, TimedOut, rowVars
<1> QED
  BY <1>1, <1>2, <1>3, <1>4, <1>5, <1>6, <1>7, <1>8, <1>9, <1>10, <1>11, <1>12, <1>13,
     <1>14
  DEF Next, CallStep, CompletionStep, SweepStep, DeletionStep, Abort

\* While the trigger of a call has the request, no other call refers to it in a
\* transaction that is not over; while the deletion has it, none does.
RequestLocks ==
  /\ \A c, d \in Calls :
       at[c] = "scheduling" /\ at[d] \in {"referring", "scheduling"} => c = d
  /\ deletion.at = "cascading" =>
       \A c \in Calls : at[c] \notin {"referring", "scheduling"}

\* A call that moves to one of these places has waited for the request.
LEMMA RequestWaits ==
  ASSUME NEW c \in Calls, Awaited(c) = {}
  PROVE  /\ at[c] \in {"begun", "referring"} => RequestHolders = {}
         /\ at[c] = "referring" => RequestSharers \subseteq {c}
<1>1. c # Sweep /\ c # Deletion
  BY TransactionsAssumption DEF Sweep, Deletion
<1>2. CASE at[c] = "begun"
  BY <1>1, <1>2 DEF Awaited
<1>3. CASE at[c] = "referring"
  <2>1. (RequestHolders \cup RequestSharers) \ {c} = {}
    BY <1>1, <1>3 DEF Awaited
  <2>2. c \notin RequestHolders
    BY <1>1, <1>3 DEF RequestHolders
  <2> QED BY <1>3, <2>1, <2>2
<1> QED BY <1>2, <1>3

\* Every step keeps the locks on the request exclusive.
LEMMA RequestLocksInductive ==
  ASSUME TypeOK, RequestLocks, [Next]_vars
  PROVE  RequestLocks'
<1>1. ASSUME at' = at, deletion' = deletion PROVE RequestLocks'
  BY <1>1 DEF RequestLocks
<1>2. ASSUME NEW c \in Calls, deletion' = deletion,
             \A d \in Calls \ {c} : at'[d] = at[d],
             at'[c] \notin {"referring", "scheduling"}
      PROVE  RequestLocks'
  BY <1>2 DEF RequestLocks
<1>3. ASSUME NEW posted \in SUBSET Evaluators, Dispatch(posted) PROVE RequestLocks'
  BY <1>3 DEF Dispatch, RequestLocks
<1>4. ASSUME NEW c \in Calls,
             \/ Resend(c) \/ Lose(c) \/ EvaluateThrows(c) \/ Claim(c) \/ Fail(c)
             \/ \E answer \in {"judged", "incomplete"} : Evaluate(c, answer)
             \/ Begin(c) \/ AbortCall(c) \/ Commit(c)
      PROVE  RequestLocks'
  <2>1. /\ \A d \in Calls \ {c} : at'[d] = at[d]
        /\ at'[c] \notin {"referring", "scheduling"}
    BY <1>4 DEF Resend, Lose, EvaluateThrows, Claim, Fail, Evaluate, Begin, AbortCall,
                Commit, Answer, Rollback, Goto, TypeOK
  <2>2. deletion' = deletion
    BY <1>4 DEF Resend, Lose, EvaluateThrows, Claim, Fail, Evaluate, Begin, AbortCall,
                Commit
  <2> QED BY <1>2, <2>1, <2>2
<1>5. ASSUME NEW c \in Calls, NEW m \in Metrics, Insert(c, m) PROVE RequestLocks'
  <2>1. RequestHolders = {}
    BY <1>5, RequestWaits DEF Insert
  <2>2. deletion.at # "cascading" /\ \A d \in Calls : at[d] # "scheduling"
    BY <2>1 DEF RequestHolders
  <2>3. at' = [at EXCEPT ![c] = "referring"] /\ deletion' = deletion
    BY <1>5 DEF Insert, Goto
  <2> QED BY <2>2, <2>3 DEF RequestLocks, TypeOK
<1>6. ASSUME NEW c \in Calls, LockRequest(c) PROVE RequestLocks'
  <2>1. RequestHolders = {} /\ RequestSharers \subseteq {c}
    BY <1>6, RequestWaits DEF LockRequest
  <2>2. /\ deletion.at # "cascading"
        /\ \A d \in Calls \ {c} : at[d] \notin {"referring", "scheduling"}
    BY <2>1 DEF RequestHolders, RequestSharers
  <2>3. at' = [at EXCEPT ![c] = "scheduling"] /\ deletion' = deletion
    BY <1>6 DEF LockRequest, Goto
  <2> QED BY <2>2, <2>3 DEF RequestLocks, TypeOK
<1>7. CASE DeleteRequest
  <2>1. \A c \in Calls : at[c] \notin {"referring", "scheduling"}
    BY <1>7 DEF DeleteRequest, RequestHolders, RequestSharers
  <2>2. at' = at
    BY <1>7 DEF DeleteRequest, callVars
  <2> QED BY <2>1, <2>2 DEF RequestLocks
<1>8. CASE DeletionStep \/ AbortDeletion
  <2>1. at' = at /\ (deletion'.at = "cascading" => deletion.at = "cascading")
    BY <1>8 DEF DeletionStep, DeleteRun, CommitDeletion, AbortDeletion, NoDeletion,
                callVars, TypeOK
  <2> QED BY <2>1 DEF RequestLocks
<1>9. CASE UNCHANGED vars \/ SweepStep \/ AbortSweep
  BY <1>1, <1>9 DEF vars, callVars, SweepStep, StartSweep, SweepRun, CommitSweep, AbortSweep
<1>10. ASSUME NEW e \in Evaluators, Age(e) PROVE RequestLocks'
  BY <1>1, <1>10 DEF Age, callVars
<1>11. ASSUME NEW c \in Calls, NEW m \in Metrics, InsertNext(c, m) PROVE RequestLocks'
  BY <1>1, <1>11 DEF InsertNext, callVars
<1> QED
  BY <1>3, <1>4, <1>5, <1>6, <1>7, <1>8, <1>9, <1>10, <1>11
  DEF Next, CallStep, CompletionStep, Abort

\* The rows that are committed.
Present == {m \in Metrics : result[m] # "absent"}

\* A transaction has decided to ask for the scorecard exactly if it has seen all
\* rows and nobody has asked. What it saw is still so: whoever would have changed
\* it waits for the request.
Scheduling ==
  \A c \in Calls :
    /\ written[c] \subseteq MetricsOf[c[1]]
    /\ at[c] # "scheduling" => schedule[c] = "none"
    /\ at[c] = "scheduling" =>
         (schedule[c] # "none" <=> Present \cup written[c] = Metrics /\ completion # "pending")

\* Every step keeps what the transactions know.
LEMMA SchedulingInductive ==
  ASSUME TypeOK, RunLocks, RequestLocks, Scheduling, [Next]_vars
  PROVE  Scheduling'
<1>0. \A c \in Calls : c[1] \in Evaluators /\ MetricsOf[c[1]] \subseteq Metrics
  BY TransactionsAssumption
<1>1. ASSUME NEW c \in Calls, UNCHANGED <<result, completion>>,
             \A d \in Calls \ {c} : /\ at'[d] = at[d] /\ written'[d] = written[d]
                                    /\ schedule'[d] = schedule[d],
             written'[c] \subseteq MetricsOf[c[1]],
             at'[c] # "scheduling" => schedule'[c] = "none",
             at'[c] = "scheduling" =>
               (schedule'[c] # "none"
                  <=> Present \cup written'[c] = Metrics /\ completion # "pending")
      PROVE  Scheduling'
  BY <1>1 DEF Scheduling, Present
<1>2. ASSUME at' = at, UNCHANGED <<txVars, result, completion>> PROVE Scheduling'
  BY <1>2 DEF Scheduling, Present, txVars
<1>3. ASSUME NEW posted \in SUBSET Evaluators, Dispatch(posted) PROVE Scheduling'
  <2>1. \A c \in Calls : ~InTransaction(c)
    BY <1>0, <1>3 DEF Dispatch, RunLocks
  <2>2. \A c \in Calls : at'[c] # "scheduling"
    BY <1>3, <2>1 DEF Dispatch, InTransaction
  <2>3. UNCHANGED txVars /\ \A c \in Calls : at[c] # "scheduling"
    BY <1>3, <2>1 DEF Dispatch, InTransaction
  <2> QED BY <2>2, <2>3 DEF Scheduling, txVars
<1>4. ASSUME NEW c \in Calls,
             \/ Resend(c) \/ Lose(c) \/ EvaluateThrows(c) \/ Claim(c) \/ Fail(c)
             \/ \E answer \in {"judged", "incomplete"} : Evaluate(c, answer)
      PROVE  Scheduling'
  <2>1. /\ \A d \in Calls \ {c} : at'[d] = at[d]
        /\ at[c] # "scheduling" /\ at'[c] # "scheduling"
    BY <1>4 DEF Resend, Lose, EvaluateThrows, Claim, Fail, Evaluate, Goto, TypeOK
  <2>2. UNCHANGED <<txVars, result, completion>>
    BY <1>4 DEF Resend, Lose, EvaluateThrows, Claim, Fail, Evaluate, rowVars
  <2> QED BY <1>1, <2>1, <2>2 DEF Scheduling, txVars
<1>5. ASSUME NEW c \in Calls, Begin(c) \/ AbortCall(c) PROVE Scheduling'
  <2>1. /\ \A d \in Calls \ {c} : /\ at'[d] = at[d] /\ written'[d] = written[d]
                                 /\ schedule'[d] = schedule[d]
        /\ at'[c] # "scheduling"
    BY <1>5 DEF Begin, AbortCall, Answer, Rollback, Goto, TypeOK, txVars
  <2>2. written'[c] \in {written[c], {}} /\ schedule'[c] \in {schedule[c], "none"}
        /\ (at[c] = "scheduling" => schedule'[c] = "none")
    BY <1>5 DEF Begin, AbortCall, Answer, Rollback, Goto, TypeOK, txVars
  <2>3. UNCHANGED <<result, completion>>
    BY <1>5 DEF Begin, AbortCall, rowVars
  <2> QED BY <1>1, <2>1, <2>2, <2>3 DEF Scheduling
<1>6. ASSUME NEW c \in Calls, NEW m \in Metrics, Insert(c, m) PROVE Scheduling'
  <2>1. /\ \A d \in Calls \ {c} : at'[d] = at[d] /\ written'[d] = written[d]
        /\ at[c] = "begun" /\ at'[c] = "referring" /\ written'[c] = {m}
        /\ m \in MetricsOf[c[1]]
    BY <1>6 DEF Insert, Goto, TypeOK
  <2>2. UNCHANGED <<schedule, result, completion>>
    BY <1>6 DEF Insert, rowVars
  <2> QED BY <1>1, <2>1, <2>2 DEF Scheduling
<1>7. ASSUME NEW c \in Calls, NEW more \in SUBSET MetricsOf[c[1]],
             UNCHANGED <<result, completion>>,
             written' = [written EXCEPT ![c] = written[c] \cup more], Trigger(c),
             at[c] \in {"referring", "scheduling"}, at'[c] = "scheduling",
             \A d \in Calls \ {c} : at'[d] = at[d]
      PROVE  Scheduling'
  <2>1. written'[c] = written[c] \cup more
        /\ \A d \in Calls \ {c} : written'[d] = written[d]
    BY <1>7 DEF TypeOK
  <2>2. Counted(c) = Present \cup written'[c]
    BY DEF Counted, Present
  <2>3. \A d \in Calls \ {c} : schedule'[d] = schedule[d]
    BY <1>7 DEF Trigger, TypeOK
  <2>4. schedule[c] # "none" =>
          Present \cup written[c] = Metrics /\ completion # "pending"
    BY <1>7 DEF Scheduling
  <2>5. schedule[c] = "none" /\ at[c] = "scheduling" =>
          ~(Present \cup written[c] = Metrics /\ completion # "pending")
    BY DEF Scheduling
  <2>6. Present \cup written'[c] \subseteq Metrics
    BY <1>0, <1>7, <2>1 DEF Present, Scheduling
  <2>7. schedule'[c] # "none" <=> Present \cup written'[c] = Metrics /\ completion # "pending"
    <3>1. CASE schedule[c] # "none"
      <4>1. Present \cup written'[c] = Metrics
        BY <2>1, <2>4, <2>6, <3>1
      <4>2. schedule'[c] # "none"
        BY <1>7, <3>1 DEF Trigger, TypeOK
      <4> QED BY <2>4, <3>1, <4>1, <4>2
    <3>2. CASE schedule[c] = "none"
      BY <1>7, <2>2, <3>2 DEF Trigger, Status, TypeOK
    <3> QED BY <3>1, <3>2
  <2>8. written'[c] \subseteq MetricsOf[c[1]]
    BY <1>7, <2>1 DEF Scheduling
  <2> QED BY <1>1, <1>7, <2>1, <2>3, <2>7, <2>8
<1>8. ASSUME NEW c \in Calls, LockRequest(c) PROVE Scheduling'
  <2>1. written' = [written EXCEPT ![c] = written[c] \cup {}]
    BY <1>8 DEF LockRequest, TypeOK
  <2>2. /\ at[c] = "referring" /\ at'[c] = "scheduling"
        /\ \A d \in Calls \ {c} : at'[d] = at[d]
    BY <1>8 DEF LockRequest, Goto, TypeOK
  <2>3. UNCHANGED <<result, completion>> /\ Trigger(c)
    BY <1>8 DEF LockRequest, rowVars
  <2> QED BY <1>7, <2>1, <2>2, <2>3
<1>9. ASSUME NEW c \in Calls, NEW m \in Metrics, InsertNext(c, m) PROVE Scheduling'
  <2>1. {m} \subseteq MetricsOf[c[1]] /\ written' = [written EXCEPT ![c] = written[c] \cup {m}]
    BY <1>9 DEF InsertNext
  <2>2. at[c] = "scheduling" /\ at' = at /\ UNCHANGED <<result, completion>> /\ Trigger(c)
    BY <1>9 DEF InsertNext, rowVars, callVars
  <2> QED BY <1>7, <2>1, <2>2
<1>10. ASSUME NEW c \in Calls, Commit(c) PROVE Scheduling'
  <2>1. /\ at[c] = "scheduling" /\ at'[c] # "scheduling"
        /\ schedule'[c] = "none" /\ written'[c] = {}
    BY <1>10 DEF Commit, Answer, Goto, TypeOK
  <2>2. \A d \in Calls \ {c} : /\ at'[d] = at[d] /\ written'[d] = written[d]
                               /\ schedule'[d] = schedule[d]
    BY <1>10 DEF Commit, Answer, Goto, TypeOK
  <2>3. \A d \in Calls \ {c} : at[d] # "scheduling"
    BY <2>1 DEF RequestLocks
  <2> QED BY <2>1, <2>2, <2>3 DEF Scheduling
<1>11. ASSUME NEW e \in Evaluators, Age(e) PROVE Scheduling'
  BY <1>2, <1>11 DEF Age, callVars
<1>12. CASE UNCHANGED vars \/ SweepStep \/ AbortSweep
  BY <1>2, <1>12 DEF vars, rowVars, callVars, SweepStep, StartSweep, SweepRun, CommitSweep,
                     AbortSweep
<1>13. CASE DeleteRequest \/ DeletionStep \/ AbortDeletion
  BY <1>2, <1>13 DEF rowVars, callVars, DeleteRequest, DeletionStep, DeleteRun,
                     CommitDeletion, AbortDeletion
<1> QED
  BY <1>3, <1>4, <1>5, <1>6, <1>8, <1>9, <1>10, <1>11, <1>12, <1>13
  DEF Next, CallStep, CompletionStep, Abort

IInv == TypeOK /\ RunLocks /\ RequestLocks /\ Scheduling

\* Before the dispatch nothing is locked.
LEMMA InitIInv == Init => IInv
<1> SUFFICES ASSUME Init PROVE IInv
  OBVIOUS
<1>1. TypeOK
  BY DEF Init, TypeOK, NoSweep, NoDeletion
<1>2. RunLocks /\ RequestLocks
  BY DEF Init, RunLocks, RequestLocks, InTransaction, NoSweep, NoDeletion
<1>3. Scheduling
  BY DEF Init, Scheduling
<1> QED BY <1>1, <1>2, <1>3 DEF IInv

\* Every statement keeps the invariant.
LEMMA NextIInv == IInv /\ [Next]_vars => IInv'
BY TypesInductive, RunLocksInductive, RequestLocksInductive, SchedulingInductive DEF IInv

\* The tables, the calls and the transactions have their types.
THEOREM TransactionTypes == Spec => []TypeOK
<1>1. IInv => TypeOK
  BY DEF IInv
<1> QED BY <1>1, InitIInv, NextIInv, PTL DEF Spec

-----------------------------------------------------------------------------
(* The transactions implement the atomic calls.                            *)

AtBar == [c \in Calls |-> IF InTransaction(c) THEN "complete" ELSE at[c]]

\* What the atomic model sees of a step that moves one call.
LEMMA MovesOne ==
  ASSUME TypeOK, NEW c \in Calls, NEW place, Goto(c, place)
  PROVE  AtBar' = [AtBar EXCEPT ![c] =
                     IF place \in {"begun", "referring", "scheduling"} THEN "complete"
                                                                     ELSE place]
BY DEF Goto, AtBar, InTransaction, TypeOK

\* What a step that only some transaction sees is to the atomic model.
LEMMA Invisible ==
  ASSUME UNCHANGED <<rowVars, output, AtBar>>
  PROVE  UNCHANGED Atomic!evalVars
BY DEF rowVars, AtBar, Atomic!evalVars, Atomic!runVars, Atomic!callVars, Atomic!completionVars

\* A completion that commits does all that the atomic one does.
LEMMA CommitIsAtomic ==
  ASSUME IInv, NEW c \in Calls, Commit(c)
  PROVE  Atomic!Complete(c)
<1> USE DEF IInv
<1>1. InTransaction(c) /\ run[c[1]] = "processing" /\ output[c] = "judged"
  BY DEF Commit, InTransaction, RunLocks
<1>2. AtBar[c] = "complete"
  BY <1>1 DEF AtBar
<1>3. \E place \in {"over", "failing"} : AtBar' = [AtBar EXCEPT ![c] = place]
  <2>1. PICK place \in {"over", "failing"} : at' = [at EXCEPT ![c] = place]
    BY DEF Commit, Answer, Goto
  <2> QED BY <2>1 DEF AtBar, InTransaction, TypeOK
<1> DEFINE rows == [m \in Metrics |-> IF m \in MetricsOf[c[1]] THEN output[c] ELSE result[m]]
<1>4. result' = rows
  BY DEF Commit
<1>5. (\A m \in Metrics : rows[m] # "absent") <=> Present \cup written[c] = Metrics
  <2>1. \A m \in Metrics : rows[m] # "absent" <=> m \in Present \cup MetricsOf[c[1]]
    BY <1>1 DEF Present
  <2>2. MetricsOf[c[1]] \subseteq Metrics /\ Present \subseteq Metrics
    BY TransactionsAssumption DEF Present
  <2> QED BY <2>1, <2>2 DEF Commit
<1>6. Atomic!Schedule(rows)
  <2>1. schedule[c] # "none" <=> Present \cup written[c] = Metrics /\ completion # "pending"
    BY DEF Scheduling, Commit
  <2>2. CASE schedule[c] = "none"
    BY <1>5, <2>1, <2>2 DEF Commit, Atomic!Schedule
  <2>3. CASE schedule[c] = "pending"
    BY <1>5, <2>1, <2>3 DEF Commit, Atomic!Schedule
  <2>4. CASE schedule[c] = "failed"
    BY <1>5, <2>1, <2>4 DEF Commit, Atomic!Schedule
  <2> QED BY <2>2, <2>3, <2>4 DEF TypeOK
<1>7. SetRun(c[1], "completed") /\ output' = output
  BY DEF Commit
<1> QED
  BY <1>1, <1>2, <1>3, <1>4, <1>6, <1>7
  DEF AtBar, SetRun, Atomic!Complete, Atomic!SetRun, Atomic!Answer

\* The statements that commit at once are those of the atomic model, but that on
\* a deleted creative they find no row: as if the call had been killed.
LEMMA StatementsAreAtomic ==
  ASSUME IInv, NEW c \in Calls,
         \/ Resend(c) \/ Lose(c) \/ EvaluateThrows(c) \/ Claim(c) \/ Fail(c)
         \/ \E answer \in {"judged", "incomplete"} : Evaluate(c, answer)
  PROVE  Atomic!Resend(c) \/ Atomic!Lose(c) \/ Atomic!CallStep(c)
<1> USE DEF IInv
<1> USE DEF Atomic!completionVars, Atomic!runVars, rowVars
<1>1. at[c] \in {"unused", "inflight", "evaluating", "failing"} => AtBar[c] = at[c]
  BY DEF AtBar, InTransaction
<1>2. CASE Resend(c)
  <2>1. AtBar' = [AtBar EXCEPT ![c] = "inflight"]
    BY <1>2, MovesOne DEF Resend
  <2> QED BY <1>1, <1>2, <2>1 DEF Resend, AtBar, Atomic!Resend
<1>3. CASE Lose(c)
  <2>1. AtBar' = [AtBar EXCEPT ![c] = "over"]
    BY <1>3, MovesOne DEF Lose
  <2>2. AtBar[c] = at[c]
    BY <1>3 DEF Lose, AtBar, InTransaction
  <2> QED BY <1>3, <2>1, <2>2 DEF Lose, AtBar, Atomic!Lose
<1>4. CASE EvaluateThrows(c)
  <2>1. AtBar' = [AtBar EXCEPT ![c] = "failing"]
    BY <1>4, MovesOne DEF EvaluateThrows
  <2> QED BY <1>1, <1>4, <2>1 DEF EvaluateThrows, AtBar, Atomic!EvaluateThrows, Atomic!CallStep
<1>5. ASSUME NEW answer \in {"judged", "incomplete"}, Evaluate(c, answer)
      PROVE  Atomic!CallStep(c)
  <2>1. AtBar' = [AtBar EXCEPT ![c] = "complete"]
    BY <1>5, MovesOne DEF Evaluate
  <2>2. Atomic!Evaluate(c, answer)
    BY <1>1, <1>5, <2>1 DEF Evaluate, AtBar, Atomic!Evaluate
  <2> QED BY <2>2 DEF Atomic!CallStep
<1>6. CASE Claim(c)
  <2>1. CASE Exists(c[1]) /\ run[c[1]] \in Claimable
    <3>1. AtBar' = [AtBar EXCEPT ![c] = "evaluating"]
      BY <1>6, <2>1, MovesOne DEF Claim
    <3>2. Atomic!Claim(c)
      BY <1>1, <1>6, <2>1, <3>1
      DEF Claim, SetRun, Claimable, AtBar, Atomic!Claim, Atomic!SetRun, Atomic!Claimable
    <3> QED BY <3>2 DEF Atomic!CallStep
  <2>2. CASE ~(Exists(c[1]) /\ run[c[1]] \in Claimable)
    <3>1. AtBar' = [AtBar EXCEPT ![c] = "over"]
      BY <1>6, <2>2, MovesOne DEF Claim
    <3> QED BY <1>1, <1>6, <2>2, <3>1 DEF Claim, AtBar, Atomic!Lose
  <2> QED BY <2>1, <2>2
<1>7. CASE Fail(c)
  <2>1. AtBar' = [AtBar EXCEPT ![c] = "over"]
    BY <1>7, MovesOne DEF Fail
  <2>2. CASE Exists(c[1]) /\ run[c[1]] = "processing"
    <3>1. Atomic!Fail(c)
      BY <1>1, <1>7, <2>1, <2>2 DEF Fail, SetRun, AtBar, Atomic!Fail, Atomic!SetRun
    <3> QED BY <3>1 DEF Atomic!CallStep
  <2>3. CASE ~(Exists(c[1]) /\ run[c[1]] = "processing")
    BY <1>1, <1>7, <2>1, <2>3 DEF Fail, AtBar, Atomic!Lose
  <2> QED BY <2>2, <2>3
<1> QED BY <1>2, <1>3, <1>4, <1>5, <1>6, <1>7

\* The other steps of a completion change nothing that is committed.
LEMMA BeginAndAbort ==
  ASSUME IInv, NEW c \in Calls, Begin(c) \/ AbortCall(c)
  PROVE  UNCHANGED Atomic!evalVars \/ Atomic!CompleteAgain(c) \/ Atomic!CompleteRaises(c)
<1> USE DEF IInv
<1>1. AtBar[c] = "complete"
  BY DEF Begin, AbortCall, AtBar, InTransaction
<1>2. UNCHANGED <<rowVars, output>>
  BY DEF Begin, AbortCall
<1>3. CASE Goto(c, "begun")
  <2>1. AtBar' = [AtBar EXCEPT ![c] = "complete"]
    BY <1>3, MovesOne
  <2>2. AtBar' = AtBar
    BY <1>1, <2>1 DEF AtBar
  <2> QED BY <1>2, <2>2, Invisible
<1>4. CASE run[c[1]] = "completed" /\ Answer(c)
  <2>1. \E place \in {"over", "failing"} : AtBar' = [AtBar EXCEPT ![c] = place]
    BY <1>4, MovesOne DEF Answer
  <2> QED
    BY <1>1, <1>2, <1>4, <2>1
    DEF rowVars, AtBar, Atomic!CompleteAgain, Atomic!Answer, Atomic!completionVars,
        Atomic!runVars
<1>5. CASE Goto(c, "failing")
  <2>1. AtBar' = [AtBar EXCEPT ![c] = "failing"]
    BY <1>5, MovesOne
  <2> QED
    BY <1>1, <1>2, <2>1
    DEF rowVars, AtBar, Atomic!CompleteRaises, Atomic!completionVars, Atomic!runVars
<1> QED BY <1>3, <1>4, <1>5 DEF Begin, AbortCall, Rollback

\* Every step is one of EvaluatorRuns, or changes nothing that EvaluatorRuns has.
LEMMA NextIsAtomic ==
  ASSUME IInv, [Next]_vars
  PROVE  [Atomic!RunsNext]_(Atomic!evalVars)
<1> USE DEF IInv
<1>1. CASE UNCHANGED vars
  BY <1>1, Invisible DEF vars, rowVars, callVars, AtBar, InTransaction
<1>2. ASSUME NEW posted \in SUBSET Evaluators, Dispatch(posted) PROVE Atomic!RunsNext
  <2>1. \A c \in Calls : ~InTransaction(c)
    BY <1>2, TransactionsAssumption DEF Dispatch, RunLocks
  <2>2. AtBar' = [c \in Calls |->
                    IF c[1] \in posted /\ c[2] = 1 THEN "inflight" ELSE AtBar[c]]
    BY <1>2, <2>1 DEF Dispatch, AtBar, InTransaction
  <2>3. Atomic!Dispatch(posted)
    BY <1>2, <2>2 DEF Dispatch, AtBar, Atomic!Dispatch, Atomic!completionVars
  <2> QED BY <2>3 DEF Atomic!RunsNext
<1>3. ASSUME NEW c \in Calls,
             \/ Resend(c) \/ Lose(c) \/ EvaluateThrows(c) \/ Claim(c) \/ Fail(c)
             \/ \E answer \in {"judged", "incomplete"} : Evaluate(c, answer)
      PROVE  Atomic!RunsNext
  BY <1>3, StatementsAreAtomic DEF Atomic!RunsNext, Atomic!Activity
<1>4. ASSUME NEW c \in Calls, Begin(c) \/ AbortCall(c) PROVE [Atomic!RunsNext]_(Atomic!evalVars)
  BY <1>4, BeginAndAbort DEF Atomic!RunsNext, Atomic!Activity, Atomic!CallStep
<1>5. ASSUME NEW c \in Calls, Commit(c) PROVE Atomic!RunsNext
  BY <1>5, CommitIsAtomic DEF Atomic!RunsNext, Atomic!Activity, Atomic!CallStep
<1>6. ASSUME NEW c \in Calls,
             LockRequest(c) \/ \E m \in Metrics : Insert(c, m) \/ InsertNext(c, m)
      PROVE  UNCHANGED Atomic!evalVars
  <2>1. AtBar' = AtBar
    BY <1>6 DEF LockRequest, Insert, InsertNext, Goto, callVars, AtBar, InTransaction, TypeOK
  <2>2. UNCHANGED <<rowVars, output>>
    BY <1>6 DEF LockRequest, Insert, InsertNext, callVars
  <2> QED BY <2>1, <2>2, Invisible
<1>7. ASSUME NEW e \in Evaluators, Age(e) PROVE Atomic!RunsNext
  <2>1. AtBar' = AtBar
    BY <1>7 DEF Age, callVars, AtBar, InTransaction
  <2>2. Atomic!Age(e)
    BY <1>7, <2>1 DEF Age, callVars, AtBar, Atomic!Age, Atomic!callVars, Atomic!completionVars
  <2> QED BY <2>2 DEF Atomic!RunsNext, Atomic!Activity
<1>8. CASE CommitSweep
  <2>1. AtBar' = AtBar
    BY <1>8 DEF CommitSweep, callVars, AtBar, InTransaction
  <2>2. sweep.held \in SUBSET Evaluators /\ \A e \in sweep.held : TimedOut(e)
    BY DEF TypeOK, RunLocks
  <2>3. Atomic!Reconcile(sweep.held)
    BY <1>8, <2>1, <2>2
    DEF CommitSweep, callVars, TimedOut, AtBar, Atomic!Reconcile, Atomic!TimedOut,
        Atomic!callVars, Atomic!completionVars
  <2> QED BY <2>2, <2>3 DEF Atomic!RunsNext, Atomic!Activity
<1>9. CASE StartSweep \/ SweepRun \/ AbortSweep \/ DeleteRequest \/ DeletionStep
           \/ AbortDeletion
  <2>1. UNCHANGED <<rowVars, callVars>>
    BY <1>9 DEF StartSweep, SweepRun, AbortSweep, DeleteRequest, DeletionStep, DeleteRun,
                CommitDeletion, AbortDeletion
  <2> QED BY <2>1, Invisible DEF callVars, AtBar, InTransaction
<1> QED
  BY <1>1, <1>2, <1>3, <1>4, <1>5, <1>6, <1>7, <1>8, <1>9
  DEF Next, CallStep, CompletionStep, SweepStep, Abort

\* Every behaviour of the transactions is one of atomic completions, whatever
\* the evaluators, their metrics and the calls are.
THEOREM Refinement == Spec => CompletionsAreAtomic
<1>1. Init => Atomic!RunsInit
  BY DEF Init, Atomic!RunsInit, InTransaction
<1>2. IInv /\ [Next]_vars => [Atomic!RunsNext]_(Atomic!evalVars)
  BY NextIsAtomic
<1> QED BY <1>1, <1>2, InitIInv, NextIInv, PTL DEF Spec, CompletionsAreAtomic, Atomic!RunsSpec

-----------------------------------------------------------------------------
(* Deletion.                                                               *)

\* A deletion has looked up all there is and locks every run before it ends, so
\* that nobody is completing one when it does.
Cascade ==
  /\ deletion.at = "cascading" =>
       /\ deletion.results = Present
       /\ \A e \in Evaluators : run[e] # "absent" =>
            e \in deletion.held \cup deletion.todo \cup {deletion.next}
       /\ deletion.next = None => deletion.todo = {}
  /\ deletion.at = "deleted" =>
       /\ deletion.results = Present
       /\ \A c \in Calls : ~InTransaction(c)

\* Every step keeps it: nobody gets past the request while the cascade has it locked.
LEMMA CascadeInductive ==
  ASSUME IInv, Cascade, [Next]_vars
  PROVE  Cascade'
<1> USE DEF IInv
<1>1. ASSUME deletion' = deletion, \A e \in Evaluators : run'[e] # "absent" => run[e] # "absent",
             result' = result \/ deletion.at = "none",
             deletion.at = "deleted" => \A c \in Calls : InTransaction(c)' => InTransaction(c)
      PROVE  Cascade'
  BY <1>1 DEF Cascade, Present
<1>2. ASSUME NEW posted \in SUBSET Evaluators, Dispatch(posted) PROVE Cascade'
  BY <1>2 DEF Dispatch, Cascade
<1>3. ASSUME NEW c \in Calls, CallStep(c) \/ Resend(c) \/ Lose(c) \/ AbortCall(c)
      PROVE  Cascade'
  <2>1. deletion' = deletion
    BY <1>3 DEF CallStep, CompletionStep, Resend, Lose, AbortCall, EvaluateThrows, Claim, Fail,
                Evaluate, Begin, Insert, InsertNext, LockRequest, Commit
  <2>2. \A e \in Evaluators : run'[e] # "absent" => run[e] # "absent"
    <3>1. CASE UNCHANGED run
      BY <3>1
    <3>2. CASE Claim(c) \/ Fail(c) \/ Commit(c)
      BY <3>2 DEF Claim, Fail, Commit, SetRun, Exists, TypeOK, Claimable, RunLocks, InTransaction
    <3> QED
      BY <1>3, <3>1, <3>2 DEF CallStep, CompletionStep, Resend, Lose, AbortCall, EvaluateThrows,
                Evaluate, Begin, Insert, InsertNext, LockRequest, rowVars
  <2>3. result' = result \/ deletion.at = "none"
    <3>1. CASE Commit(c)
      BY <3>1 DEF Commit, RequestLocks, Cascade, InTransaction, TypeOK
    <3>2. CASE ~Commit(c)
      BY <1>3, <3>2 DEF CallStep, CompletionStep, Resend, Lose, AbortCall, EvaluateThrows, Claim,
                Fail, Evaluate, Begin, Insert, InsertNext, LockRequest, rowVars
    <3> QED BY <3>1, <3>2
  <2>4. deletion.at = "deleted" => \A d \in Calls : InTransaction(d)' => InTransaction(d)
    <3>1. ASSUME deletion.at = "deleted" PROVE \A d \in Calls : ~InTransaction(d)'
      <4>1. \A d \in Calls : ~InTransaction(d)
        BY <3>1 DEF Cascade
      <4>2. ~Exists(c[1])
        BY <3>1 DEF Exists
      <4>3. \A d \in Calls \ {c} : at'[d] = at[d]
        BY <1>3 DEF CallStep, CompletionStep, Resend, Lose, AbortCall, EvaluateThrows, Claim,
                Fail, Evaluate, Begin, Insert, InsertNext, LockRequest, Commit, Answer, Rollback,
                Goto, callVars, TypeOK
      <4>4. ~InTransaction(c)'
        BY <1>3, <4>1, <4>2 DEF CallStep, CompletionStep, Resend, Lose, AbortCall,
                EvaluateThrows, Claim, Fail, Evaluate, Begin, Insert, InsertNext, LockRequest,
                Commit, Answer, Rollback, Goto, InTransaction, TypeOK
      <4> QED BY <4>1, <4>3, <4>4 DEF InTransaction
    <3> QED BY <3>1
  <2> QED BY <1>1, <2>1, <2>2, <2>3, <2>4
<1>4. CASE UNCHANGED vars \/ SweepStep \/ AbortSweep \/ \E e \in Evaluators : Age(e)
  <2>1. UNCHANGED <<deletion, result, at>>
    BY <1>4 DEF vars, rowVars, callVars, SweepStep, StartSweep, SweepRun, CommitSweep, AbortSweep,
                Age
  <2>2. \A e \in Evaluators : run'[e] # "absent" => run[e] # "absent"
    <3>1. CASE CommitSweep
      BY <3>1 DEF CommitSweep, RunLocks, TimedOut
    <3>2. CASE ~CommitSweep
      BY <1>4, <3>2 DEF vars, rowVars, SweepStep, StartSweep, SweepRun, AbortSweep, Age
    <3> QED BY <3>1, <3>2
  <2> QED BY <1>1, <2>1, <2>2 DEF InTransaction
<1>5. CASE DeleteRequest
  <2>1. PICK step \in Steps(Doomed.runs) :
          deletion' = [at |-> "cascading", next |-> step.next, todo |-> step.todo,
                       held |-> {}, results |-> Doomed.results]
    BY <1>5 DEF DeleteRequest
  <2>2. UNCHANGED <<run, result>>
    BY <1>5 DEF DeleteRequest, rowVars
  <2>3. Doomed.results = Present
    BY DEF Doomed, Present
  <2>4. /\ \A e \in Evaluators : run[e] # "absent" => e \in step.todo \cup {step.next}
        /\ step.next = None => step.todo = {}
    BY TransactionsAssumption DEF Steps, Doomed
  <2> QED BY <2>1, <2>2, <2>3, <2>4 DEF Cascade, Present
<1>6. CASE DeleteRun
  <2>1. PICK step \in Steps(deletion.todo) :
          deletion' = [deletion EXCEPT !.next = step.next, !.todo = step.todo,
                                       !.held = deletion.held \cup {deletion.next}]
    BY <1>6 DEF DeleteRun
  <2>2. UNCHANGED <<run, result>> /\ deletion.at = "cascading"
    BY <1>6 DEF DeleteRun, rowVars
  <2>3. /\ deletion.todo \subseteq step.todo \cup {step.next}
        /\ step.next = None => step.todo = {}
    BY TransactionsAssumption DEF Steps, TypeOK
  <2>4. /\ deletion'.at = "cascading" /\ deletion'.results = deletion.results
        /\ deletion'.next = step.next /\ deletion'.todo = step.todo
        /\ deletion'.held = deletion.held \cup {deletion.next}
    BY <2>1, <2>2 DEF TypeOK
  <2> QED BY <2>2, <2>3, <2>4 DEF Cascade, Present
<1>7. CASE CommitDeletion
  <2>1. deletion'.at = "deleted" /\ deletion'.results = deletion.results
    BY <1>7 DEF CommitDeletion, TypeOK
  <2>2. \A e \in Evaluators : run[e] # "absent" => e \in deletion.held
    BY <1>7, TransactionsAssumption DEF CommitDeletion, Cascade
  <2>3. \A c \in Calls : ~InTransaction(c)
    BY <1>7, <2>2, TransactionsAssumption DEF CommitDeletion, RunLocks
  <2>4. UNCHANGED <<result, at>>
    BY <1>7 DEF CommitDeletion, rowVars, callVars
  <2> QED BY <1>7, <2>1, <2>3, <2>4 DEF CommitDeletion, Cascade, Present, InTransaction
<1>8. CASE AbortDeletion
  BY <1>8 DEF AbortDeletion, NoDeletion, Cascade
<1> QED
  BY <1>2, <1>3, <1>4, <1>5, <1>6, <1>7, <1>8 DEF Next, SweepStep, DeletionStep, Abort

\* However a deletion and the completions interleave, no result outlives it.
THEOREM DeletedForGood == Spec => []NothingSurvivesDeletion
<1>1. Init => Cascade
  BY DEF Init, Cascade, NoDeletion
<1>2. IInv /\ Cascade /\ [Next]_vars => Cascade'
  BY CascadeInductive
<1>3. Cascade => NothingSurvivesDeletion
  BY DEF Cascade, Present, NothingSurvivesDeletion
<1> QED BY <1>1, <1>2, <1>3, InitIInv, NextIInv, PTL DEF Spec
=============================================================================
