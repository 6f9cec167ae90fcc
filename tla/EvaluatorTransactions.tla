------------------------ MODULE EvaluatorTransactions ------------------------
(***************************************************************************)
(* The transactions behind EvaluatorRuns, one step per row that they lock. *)
(* Several evaluators of one Ad Creative complete at a time, the sweep for *)
(* stale runs passes by, and the user deletes the review.                  *)
(*                                                                         *)
(* Postgres runs them at READ COMMITTED: a statement sees what has been    *)
(* committed before it began and what its own transaction has written, and *)
(* one that waited for a row looks at the row again.  The rows they meet   *)
(* on are the evaluator_runs row of each evaluator and the requests row,   *)
(* which an insert into agent_results locks FOR KEY SHARE (its foreign     *)
(* key) and the completion trigger FOR UPDATE.                             *)
(*                                                                         *)
(* Statements that lock one row and commit at once are atomic, as they are *)
(* in EvaluatorRuns, but wait for the row.                                 *)
(***************************************************************************)
EXTENDS Naturals, FiniteSets

CONSTANTS
  Evaluators,   \* the evaluators of a creative
  Metrics,      \* the canonical atomic metrics
  MetricsOf,    \* MetricsOf[e]: the metrics evaluator e must return
  Calls,        \* <<e, i>>: the i-th HTTP call of evaluator e; the trigger sends the first
  MaxDeletions  \* bounds how often the user tries to delete the review

None == "none"  \* no run

ASSUME TransactionsAssumption ==
  /\ IsFiniteSet(Evaluators) /\ Evaluators # {} /\ None \notin Evaluators
  /\ MetricsOf \in [Evaluators -> SUBSET Metrics]
  /\ \A e \in Evaluators : MetricsOf[e] # {}
  /\ \A d, e \in Evaluators : d # e => MetricsOf[d] \cap MetricsOf[e] = {}
  /\ \A m \in Metrics : \E e \in Evaluators : m \in MetricsOf[e]
  /\ Calls \subseteq Evaluators \X (Nat \ {0})
  /\ \A e \in Evaluators : <<e, 1>> \in Calls
  /\ MaxDeletions \in Nat

VARIABLES
  run, stale, result, at, output, completion, lastError, posts,
                \* what is committed, and the calls, as in EvaluatorRuns
  written,      \* written[c]: the metrics that the transaction of call c has inserted
  schedule,     \* schedule[c]: what its trigger has done to requests and pg_net
  sweep,        \* reconcile_stale_evaluator_runs: the run it is at, those it has
                \* yet to look at and those it has locked
  deletion,     \* delete_review_request: where it is, the run it is at, those it has
                \* yet to delete, those deleted, and the results deleted
  deletions     \* deletions begun

callVars == <<at, output>>
rowVars  == <<run, stale, result, completion, lastError, posts>>
txVars   == <<written, schedule>>
vars     == <<rowVars, callVars, txVars, sweep, deletion, deletions>>

Ended     == {"completed", "dispatch_failed", "failed", "timed_out"}
Claimable == {"dispatched", "failed", "timed_out"}

NoSweep == [next |-> None, todo |-> {}, held |-> {}]
NoDeletion ==
  [at |-> "none", next |-> None, todo |-> {}, held |-> {}, results |-> {}]

TypeOK ==
  /\ run \in [Evaluators -> {"absent", "dispatched", "processing"} \cup Ended]
  /\ stale \in [Evaluators -> BOOLEAN]
  /\ result \in [Metrics -> {"absent", "judged"}]
  /\ at \in [Calls -> {"unused", "inflight", "evaluating", "complete", "begun",
                       "referring", "scheduling", "failing", "over"}]
  /\ output \in [Calls -> {"none", "judged", "incomplete"}]
  /\ completion \in {"null", "pending", "failed"}
  /\ lastError \in {"none", "not_scheduled"}
  /\ posts \in Nat
  /\ written \in [Calls -> SUBSET Metrics]
  /\ schedule \in [Calls -> {"none", "pending", "failed"}]
  /\ sweep \in [next : Evaluators \cup {None}, todo : SUBSET Evaluators,
                held : SUBSET Evaluators]
  /\ deletion \in [at : {"none", "cascading", "deleted"},
                   next : Evaluators \cup {None}, todo : SUBSET Evaluators,
                   held : SUBSET Evaluators, results : SUBSET Metrics]
  /\ deletions \in Nat

Init ==
  /\ run = [e \in Evaluators |-> "absent"]
  /\ stale = [e \in Evaluators |-> FALSE]
  /\ result = [m \in Metrics |-> "absent"]
  /\ at = [c \in Calls |-> "unused"]
  /\ output = [c \in Calls |-> "none"]
  /\ completion = "null" /\ lastError = "none" /\ posts = 0
  /\ written = [c \in Calls |-> {}]
  /\ schedule = [c \in Calls |-> "none"]
  /\ sweep = NoSweep
  /\ deletion = NoDeletion
  /\ deletions = 0

-----------------------------------------------------------------------------
(* Locks.  A transaction holds what it has locked until it ends.           *)

Sweep    == <<"sweep", 0>>
Deletion == <<"deletion", 0>>
Transactions == Calls \cup {Sweep, Deletion}

InTransaction(c) == at[c] \in {"begun", "referring", "scheduling"}

\* Who has locked the evaluator_runs row of e.
RunHolders(e) ==
  {c \in Calls : InTransaction(c) /\ c[1] = e}
  \cup {t \in {Sweep} : e \in sweep.held}
  \cup {t \in {Deletion} : deletion.at = "cascading" /\ e \in deletion.held}

\* Who has locked the requests row against every other, and who against
\* deletion and FOR UPDATE alone.
RequestHolders ==
  {c \in Calls : at[c] = "scheduling"}
  \cup {t \in {Deletion} : deletion.at = "cascading"}
RequestSharers == {c \in Calls : at[c] = "referring"}

\* Whom the statement that t is about to make has to wait for.
Awaited(t) ==
  IF t = Sweep THEN IF sweep.next = None THEN {} ELSE RunHolders(sweep.next) \ {t}
  ELSE IF t = Deletion
    THEN IF deletion.next = None THEN {} ELSE RunHolders(deletion.next) \ {t}
  ELSE CASE at[t] = "begun"     -> RequestHolders
         [] at[t] = "referring" -> (RequestHolders \cup RequestSharers) \ {t}
         [] OTHER               -> {}

\* t waits, through others, for itself.
Deadlocked(t) ==
  \E u \in Awaited(t) :
    \A chain \in SUBSET Transactions :
      (u \in chain /\ \A v \in chain : Awaited(v) \subseteq chain) => t \in chain

\* The rows of the creative are there.
Exists(e) == run[e] # "absent" /\ deletion.at # "deleted"

-----------------------------------------------------------------------------
(* Statements that commit at once.                                         *)

\* The trigger that dispatches inserts all runs before it posts to any.
Dispatch(posted) ==
  /\ \A e \in Evaluators : run[e] = "absent"
  /\ deletion.at = "none"
  /\ run' = [e \in Evaluators |->
               IF e \in posted THEN "dispatched" ELSE "dispatch_failed"]
  /\ at' = [c \in Calls |->
               IF c[1] \in posted /\ c[2] = 1 THEN "inflight" ELSE at[c]]
  /\ UNCHANGED <<stale, result, completion, lastError, posts, output, txVars,
                 sweep, deletion, deletions>>

Goto(c, place) == at' = [at EXCEPT ![c] = place]

\* A call that the trigger has not sent.
Resend(c) ==
  /\ at[c] = "unused"
  /\ run[c[1]] # "absent"
  /\ Goto(c, "inflight")
  /\ UNCHANGED <<rowVars, output, txVars, sweep, deletion, deletions>>

\* The function is killed. What it has asked of Postgres goes on.
Lose(c) ==
  /\ at[c] \in {"inflight", "evaluating", "complete", "failing"}
  /\ Goto(c, "over")
  /\ UNCHANGED <<rowVars, output, txVars, sweep, deletion, deletions>>

SetRun(e, status) ==
  /\ run' = [run EXCEPT ![e] = status]
  /\ stale' = [stale EXCEPT ![e] = FALSE]

\* mark_evaluator_run_started.
Claim(c) ==
  /\ at[c] = "inflight"
  /\ RunHolders(c[1]) = {}
  /\ IF Exists(c[1]) /\ run[c[1]] \in Claimable
     THEN SetRun(c[1], "processing") /\ Goto(c, "evaluating")
     ELSE UNCHANGED <<run, stale>> /\ Goto(c, "over")
  /\ UNCHANGED <<result, completion, lastError, posts, output, txVars, sweep,
                 deletion, deletions>>

Evaluate(c, answer) ==
  /\ at[c] = "evaluating"
  /\ output' = [output EXCEPT ![c] = answer]
  /\ Goto(c, "complete")
  /\ UNCHANGED <<rowVars, txVars, sweep, deletion, deletions>>

EvaluateThrows(c) ==
  /\ at[c] = "evaluating"
  /\ Goto(c, "failing")
  /\ UNCHANGED <<rowVars, output, txVars, sweep, deletion, deletions>>

\* mark_evaluator_run_failed.
Fail(c) ==
  /\ at[c] = "failing"
  /\ RunHolders(c[1]) = {}
  /\ IF Exists(c[1]) /\ run[c[1]] = "processing"
     THEN SetRun(c[1], "failed") ELSE UNCHANGED <<run, stale>>
  /\ Goto(c, "over")
  /\ UNCHANGED <<result, completion, lastError, posts, output, txVars, sweep,
                 deletion, deletions>>

Age(e) ==
  /\ run[e] \in {"dispatched", "processing"} /\ ~stale[e]
  /\ deletion.at # "deleted"
  /\ stale' = [stale EXCEPT ![e] = TRUE]
  /\ UNCHANGED <<run, result, completion, lastError, posts, callVars, txVars,
                 sweep, deletion, deletions>>

-----------------------------------------------------------------------------
(* complete_evaluator_run.                                                 *)

\* Mutant: the handler asks again for as long as it gets an error.
Rollback_Retries(c) ==
  /\ Goto(c, "complete")
  /\ written' = [written EXCEPT ![c] = {}]
  /\ schedule' = [schedule EXCEPT ![c] = "none"]

\* The transaction is rolled back; createEvaluatorHandler catches the error.
Rollback(c) ==
  /\ Goto(c, "failing")
  /\ written' = [written EXCEPT ![c] = {}]
  /\ schedule' = [schedule EXCEPT ![c] = "none"]

\* The answer may be lost after the commit.
Answer(c) == \E place \in {"over", "failing"} : Goto(c, place)

\* SELECT status ... FOR UPDATE of its run, and what the function makes of it.
Begin(c) ==
  LET e == c[1] IN
  /\ at[c] = "complete"
  /\ RunHolders(e) = {}
  /\ \/ /\ Exists(e) /\ run[e] = "processing" /\ output[c] # "incomplete"
        /\ Goto(c, "begun") /\ UNCHANGED txVars
     \/ /\ Exists(e) /\ run[e] = "completed"
        /\ Answer(c) /\ UNCHANGED txVars
     \/ /\ ~Exists(e) \/ run[e] # "completed"
        /\ ~Exists(e) \/ run[e] # "processing" \/ output[c] = "incomplete"
        /\ Rollback(c)
  /\ UNCHANGED <<rowVars, output, sweep, deletion, deletions>>

\* The first row is inserted and its foreign key checked, which locks the
\* request FOR KEY SHARE.
Insert(c, m) ==
  /\ at[c] = "begun" /\ m \in MetricsOf[c[1]]
  /\ Awaited(c) = {}
  /\ written' = [written EXCEPT ![c] = {m}]
  /\ Goto(c, "referring")
  /\ UNCHANGED <<rowVars, output, schedule, sweep, deletion, deletions>>

\* What the count in the trigger finds: the committed rows and its own.
Counted(c) == {m \in Metrics : result[m] # "absent"} \cup written'[c]

\* The completion status as the transaction sees it.
Status(c) == IF schedule[c] = "none" THEN completion ELSE schedule[c]

\* trigger_evaluation_completion, once it has locked the request.
Trigger(c) ==
  IF Counted(c) = Metrics /\ Status(c) # "pending"
  THEN \E outcome \in {"pending", "failed"} :
         schedule' = [schedule EXCEPT ![c] = outcome]
  ELSE UNCHANGED schedule

\* Mutant: the trigger reads the request without FOR UPDATE.
LockRequest_NoWait(c) ==
  /\ at[c] = "referring"
  /\ UNCHANGED written
  /\ Trigger(c)
  /\ Goto(c, "scheduling")
  /\ UNCHANGED <<rowVars, output, sweep, deletion, deletions>>

\* The trigger of the first row locks the request FOR UPDATE.
LockRequest(c) ==
  /\ at[c] = "referring"
  /\ Awaited(c) = {}
  /\ UNCHANGED written
  /\ Trigger(c)
  /\ Goto(c, "scheduling")
  /\ UNCHANGED <<rowVars, output, sweep, deletion, deletions>>

\* The rows after it find the request locked by their own transaction.
InsertNext(c, m) ==
  /\ at[c] = "scheduling" /\ m \in MetricsOf[c[1]] \ written[c]
  /\ written' = [written EXCEPT ![c] = @ \cup {m}]
  /\ Trigger(c)
  /\ UNCHANGED <<rowVars, callVars, sweep, deletion, deletions>>

\* The run is set to completed, and everything becomes visible.
Commit(c) ==
  /\ at[c] = "scheduling" /\ written[c] = MetricsOf[c[1]]
  /\ result' = [m \in Metrics |-> IF m \in written[c] THEN output[c] ELSE result[m]]
  /\ SetRun(c[1], "completed")
  /\ CASE schedule[c] = "pending" -> /\ completion' = "pending" /\ lastError' = "none"
                                     /\ posts' = posts + 1
       [] schedule[c] = "failed"  -> /\ completion' = "failed"
                                     /\ lastError' = "not_scheduled"
                                     /\ UNCHANGED posts
       [] OTHER                   -> UNCHANGED <<completion, lastError, posts>>
  /\ Answer(c)
  /\ written' = [written EXCEPT ![c] = {}]
  /\ schedule' = [schedule EXCEPT ![c] = "none"]
  /\ UNCHANGED <<output, sweep, deletion, deletions>>

\* Postgres ends a deadlock by an error in one of those who wait.
AbortCall(c) ==
  /\ InTransaction(c) /\ Deadlocked(c)
  /\ Rollback(c)
  /\ UNCHANGED <<rowVars, output, sweep, deletion, deletions>>

-----------------------------------------------------------------------------
(* reconcile_stale_evaluator_runs.                                         *)

TimedOut(e) == stale[e] /\ run[e] \in {"dispatched", "processing"}

\* Where a statement that goes over rows can be next.
Steps(todo) ==
  IF todo = {} THEN {[next |-> None, todo |-> {}]}
               ELSE {[next |-> e, todo |-> todo \ {e}] : e \in todo}

\* The rows that its snapshot shows as timed out.
StartSweep ==
  /\ sweep = NoSweep
  /\ \E e \in Evaluators : TimedOut(e) /\ Exists(e)
  /\ \E step \in Steps({e \in Evaluators : TimedOut(e)}) :
       sweep' = [next |-> step.next, todo |-> step.todo, held |-> {}]
  /\ UNCHANGED <<rowVars, callVars, txVars, deletion, deletions>>

\* A row that has changed since is looked at again.
SweepRun ==
  LET e == sweep.next IN
  /\ e # None
  /\ Awaited(Sweep) = {}
  /\ \E step \in Steps(sweep.todo) :
       sweep' = [next |-> step.next, todo |-> step.todo,
                 held |-> IF TimedOut(e) /\ Exists(e) THEN sweep.held \cup {e}
                                                   ELSE sweep.held]
  /\ UNCHANGED <<rowVars, callVars, txVars, deletion, deletions>>

CommitSweep ==
  /\ sweep.next = None /\ sweep.held # {}
  /\ run' = [e \in Evaluators |-> IF e \in sweep.held THEN "timed_out" ELSE run[e]]
  /\ stale' = [e \in Evaluators |-> stale[e] /\ e \notin sweep.held]
  /\ sweep' = NoSweep
  /\ UNCHANGED <<result, completion, lastError, posts, callVars, txVars, deletion,
                 deletions>>

AbortSweep ==
  /\ Deadlocked(Sweep)
  /\ sweep' = NoSweep
  /\ UNCHANGED <<rowVars, callVars, txVars, deletion, deletions>>

-----------------------------------------------------------------------------
(* delete_review_request.                                                  *)

\* What the cascade from requests comes to.
Doomed ==
  [results |-> {m \in Metrics : result[m] # "absent"},
   runs    |-> {e \in Evaluators : run[e] # "absent"}]

\* Mutant: the rows that refer to a request are deleted without its lock.
DeleteRequest_Unlocked ==
  /\ deletion.at = "none" /\ deletions < MaxDeletions
  /\ \E step \in Steps(Doomed.runs) :
       deletion' = [at |-> "cascading", next |-> step.next, todo |-> step.todo,
                    held |-> {}, results |-> Doomed.results]
  /\ deletions' = deletions + 1
  /\ UNCHANGED <<rowVars, callVars, txVars, sweep>>

\* The row of requests is locked, and what refers to it is looked up.
DeleteRequest ==
  /\ deletion.at = "none" /\ deletions < MaxDeletions
  /\ RequestHolders \cup RequestSharers = {}
  /\ \E step \in Steps(Doomed.runs) :
       deletion' = [at |-> "cascading", next |-> step.next, todo |-> step.todo,
                    held |-> {}, results |-> Doomed.results]
  /\ deletions' = deletions + 1
  /\ UNCHANGED <<rowVars, callVars, txVars, sweep>>

\* ON DELETE CASCADE, one run after the other.
DeleteRun ==
  /\ deletion.at = "cascading" /\ deletion.next # None
  /\ Awaited(Deletion) = {}
  /\ \E step \in Steps(deletion.todo) :
       deletion' = [deletion EXCEPT !.next = step.next, !.todo = step.todo,
                                    !.held = @ \cup {deletion.next}]
  /\ UNCHANGED <<rowVars, callVars, txVars, sweep, deletions>>

CommitDeletion ==
  /\ deletion.at = "cascading" /\ deletion.next = None
  /\ deletion' = [deletion EXCEPT !.at = "deleted"]
  /\ UNCHANGED <<rowVars, callVars, txVars, sweep, deletions>>

\* The user sees that the deletion failed.
AbortDeletion ==
  /\ deletion.at = "cascading" /\ Deadlocked(Deletion)
  /\ deletion' = NoDeletion
  /\ UNCHANGED <<rowVars, callVars, txVars, sweep, deletions>>

-----------------------------------------------------------------------------
CompletionStep(c) ==
  \/ Begin(c)
  \/ \E m \in Metrics : Insert(c, m) \/ InsertNext(c, m)
  \/ LockRequest(c)
  \/ Commit(c)

CallStep(c) ==
  \/ Claim(c)
  \/ \E answer \in {"judged", "incomplete"} : Evaluate(c, answer)
  \/ EvaluateThrows(c)
  \/ CompletionStep(c)
  \/ Fail(c)

SweepStep    == StartSweep \/ SweepRun \/ CommitSweep
DeletionStep == DeleteRun \/ CommitDeletion

Abort == AbortSweep \/ AbortDeletion \/ \E c \in Calls : AbortCall(c)

Next ==
  \/ \E posted \in SUBSET Evaluators : Dispatch(posted)
  \/ \E c \in Calls : Resend(c) \/ Lose(c) \/ CallStep(c)
  \/ \E e \in Evaluators : Age(e)
  \/ SweepStep
  \/ DeleteRequest \/ DeletionStep
  \/ Abort

Spec == Init /\ [][Next]_vars

\* A transaction that can go on does, and a deadlock is noticed. Fairness is
\* strong where a statement waits, because a row that is released goes to one who
\* waits for it. Nothing is promised of the user, and a call may be killed.
Fairness ==
  /\ \A c \in Calls : SF_vars(CallStep(c))
  /\ SF_vars(SweepRun) /\ WF_vars(SweepStep)
  /\ SF_vars(DeletionStep)
  /\ WF_vars(Abort)

FairSpec == Spec /\ Fairness

-----------------------------------------------------------------------------
(* Properties.                                                             *)

\* EvaluatorRuns, in which a completion is one step, and no rows are deleted: a
\* deletion ends what can happen to them.
Atomic == INSTANCE EvaluatorRuns WITH
  at        <- [c \in Calls |-> IF InTransaction(c) THEN "complete" ELSE at[c]],
  Handlers  <- {},
  phase     <- [h \in {} |-> "idle"],
  scorecard <- FALSE,
  issues    <- FALSE

\* Whoever completes, is swept or deletes at a time, the outcome is one that
\* completions one after another have too: in particular, of several evaluators
\* that complete together one sees the rows of all, and only that one asks for
\* the scorecard (migration 051:65).
CompletionsAreAtomic == Atomic!RunsSpec

\* Deleting a review leaves no result of it behind, not even one that was being
\* written when the deletion began (migration 056:184).
NothingSurvivesDeletion ==
  deletion.at = "deleted" =>
    \A m \in Metrics : result[m] # "absent" => m \in deletion.results

\* Everyone waits for locks of others in an order of his own, and still nobody
\* waits for ever: a call ends, and so does a deletion that has begun.
NobodyWaitsForEver ==
  /\ \A c \in Calls : (at[c] = "inflight") ~> (at[c] = "over")
  /\ (deletion.at = "cascading") ~> (deletion.at # "cascading")
  /\ (sweep.held # {}) ~> (sweep.held = {})
=============================================================================
