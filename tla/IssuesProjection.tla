-------------------------- MODULE IssuesProjection --------------------------
(***************************************************************************)
(* The issues of a batch of Ad Creatives: projectCurrentIssues rebuilds    *)
(* them from the evaluators' rows, called by the evaluation completion of  *)
(* one creative and, by hand, for a creative or for the batch.             *)
(*                                                                         *)
(* The rows of an evaluator are written once (EvaluatorRuns), so a metric's*)
(* verdict is fixed from the start and only becomes visible.  A projection *)
(* is a sequence of requests to the database, each atomic by itself.       *)
(***************************************************************************)
EXTENDS FiniteSets

CONSTANTS
  Creatives,    \* Ad Creatives of one batch
  Metrics,      \* the canonical atomic metrics
  Projections   \* invocations of projectCurrentIssues that may be under way

Rows == Creatives \X Metrics

VARIABLES
  verdict,     \* verdict[r]: what the evaluator's row r says, once written
  written,     \* rows that have been written
  issues,      \* rows of table issues
  completion,  \* completion[c]: the projection of c's evaluation completion
  at,          \* at[p]: where projection p is
  caller,      \* caller[p]: who called it
  scope,       \* scope[p]: its target requests
  unread,      \* unread[p]: the reads of Promise.all that have not answered
  results,     \* results[p]: the agent_results it has read
  subChecks,   \* subChecks[p]: the rows whose failed sub-checks it has read
  left,        \* left[p]: target requests it has yet to synchronize
  resolved,    \* resolved[p]: the issues it is about to delete
  overlapped   \* history: creatives two projections have worked on at once

projectionVars == <<at, caller, scope, unread, results, subChecks,
                    left, resolved>>
vars == <<verdict, written, issues, completion, projectionVars, overlapped>>

\* "false" is a result of false; "sub_check" one that is not, with a failed
\* sub-check. Either makes the metric an issue.
Verdicts == {"fine", "false", "sub_check"}

Reads == {"results", "sub_checks"}

TypeOK ==
  /\ verdict \in [Rows -> Verdicts]
  /\ written \in SUBSET Rows
  /\ issues \in SUBSET Rows
  /\ completion \in [Creatives -> {"none", "running", "completed", "failed"}]
  /\ at \in [Projections -> {"idle", "read", "sync", "delete"}]
  /\ caller \in [Projections -> {"user", "completion"}]
  /\ scope \in [Projections -> SUBSET Creatives]
  /\ unread \in [Projections -> SUBSET Reads]
  /\ results \in [Projections -> SUBSET Rows]
  /\ subChecks \in [Projections -> SUBSET Rows]
  /\ left \in [Projections -> SUBSET Creatives]
  /\ resolved \in [Projections -> SUBSET Rows]
  /\ overlapped \in SUBSET Creatives

Init ==
  /\ verdict \in [Rows -> Verdicts]
  /\ written = {}
  /\ issues = {}
  /\ completion = [c \in Creatives |-> "none"]
  /\ at = [p \in Projections |-> "idle"]
  /\ caller = [p \in Projections |-> "user"]
  /\ scope = [p \in Projections |-> {}]
  /\ unread = [p \in Projections |-> {}]
  /\ results = [p \in Projections |-> {}]
  /\ subChecks = [p \in Projections |-> {}]
  /\ left = [p \in Projections |-> {}]
  /\ resolved = [p \in Projections |-> {}]
  /\ overlapped = {}

Of(c) == {c} \X Metrics
In(creatives) == creatives \X Metrics

-----------------------------------------------------------------------------
\* complete_evaluator_run writes a row with its sub-checks and evidence.
Write(r) ==
  /\ r \notin written
  /\ written' = written \cup {r}
  /\ UNCHANGED <<verdict, issues, completion, projectionVars, overlapped>>

\* The first statement has found the target requests.
Begin(p, who, creatives) ==
  /\ at[p] = "idle"
  /\ at' = [at EXCEPT ![p] = "read"]
  /\ caller' = [caller EXCEPT ![p] = who]
  /\ scope' = [scope EXCEPT ![p] = creatives]
  /\ unread' = [unread EXCEPT ![p] = Reads]
  /\ left' = [left EXCEPT ![p] = creatives]
  /\ overlapped' = overlapped \cup
       {c \in creatives : \E q \in Projections : c \in scope[q]}
  /\ UNCHANGED <<verdict, written, issues, results, subChecks, resolved>>

\* process-issues: one request or the batch, at any time.
CallByUser(p, creatives) ==
  /\ creatives = Creatives \/ \E c \in Creatives : creatives = {c}
  /\ Begin(p, "user", creatives)
  /\ UNCHANGED completion

\* complete-evaluation, once every metric of c has its row.
CallByCompletion(p, c) ==
  /\ Of(c) \subseteq written /\ completion[c] = "none"
  /\ Begin(p, "completion", {c})
  /\ completion' = [completion EXCEPT ![c] = "running"]

\* The reads of Promise.all are requests of their own and see no one snapshot.
ReadResults(p) ==
  /\ "results" \in unread[p]
  /\ unread' = [unread EXCEPT ![p] = @ \ {"results"}]
  /\ results' = [results EXCEPT ![p] = written \cap In(scope[p])]
  /\ UNCHANGED <<verdict, written, issues, completion, at, caller, scope,
                 subChecks, left, resolved, overlapped>>

ReadSubChecks(p) ==
  /\ "sub_checks" \in unread[p]
  /\ unread' = [unread EXCEPT ![p] = @ \ {"sub_checks"}]
  /\ subChecks' = [subChecks EXCEPT ![p] =
       {r \in written \cap In(scope[p]) : verdict[r] = "sub_check"}]
  /\ UNCHANGED <<verdict, written, issues, completion, at, caller, scope,
                 results, left, resolved, overlapped>>

HasRead(p) == at[p] = "read" /\ unread[p] = {}

\* buildIssuesSummary: a sub-check whose result was not read makes no issue.
IssuesToInsert(p) ==
  {r \in results[p] : verdict[r] = "false" \/ r \in subChecks[p]}

\* The projection ends; complete-evaluation learns how, and "failed" is also
\* its status left on 'processing' when it is killed.
End(p, outcome) ==
  /\ at' = [at EXCEPT ![p] = "idle"]
  /\ caller' = [caller EXCEPT ![p] = "user"]
  /\ scope' = [scope EXCEPT ![p] = {}]
  /\ unread' = [unread EXCEPT ![p] = {}]
  /\ results' = [results EXCEPT ![p] = {}]
  /\ subChecks' = [subChecks EXCEPT ![p] = {}]
  /\ left' = [left EXCEPT ![p] = {}]
  /\ resolved' = [resolved EXCEPT ![p] = {}]
  /\ completion' = [c \in Creatives |->
       IF caller[p] = "completion" /\ c \in scope[p] THEN outcome ELSE completion[c]]
  /\ UNCHANGED <<verdict, written, overlapped>>

RemoveAll(p) ==
  /\ HasRead(p) /\ IssuesToInsert(p) = {}
  /\ issues' = issues \ In(scope[p])
  /\ End(p, "completed")

StartSync(p) ==
  /\ HasRead(p) /\ IssuesToInsert(p) # {}
  /\ at' = [at EXCEPT ![p] = "sync"]
  /\ UNCHANGED <<verdict, written, issues, completion, caller, scope, unread,
                 results, subChecks, left, resolved, overlapped>>

\* Mutant: the select does not ask for the creative.
SelectExisting_AllRequests(p, c) ==
  /\ at[p] = "sync" /\ c \in left[p]
  /\ left' = [left EXCEPT ![p] = @ \ {c}]
  /\ resolved' = [resolved EXCEPT ![p] = issues \ IssuesToInsert(p)]
  /\ at' = [at EXCEPT ![p] = IF resolved'[p] = {} THEN "sync" ELSE "delete"]
  /\ UNCHANGED <<verdict, written, issues, completion, caller, scope, unread,
                 results, subChecks, overlapped>>

SelectExisting(p, c) ==
  /\ at[p] = "sync" /\ c \in left[p]
  /\ left' = [left EXCEPT ![p] = @ \ {c}]
  /\ resolved' = [resolved EXCEPT ![p] = (issues \cap Of(c)) \ IssuesToInsert(p)]
  /\ at' = [at EXCEPT ![p] = IF resolved'[p] = {} THEN "sync" ELSE "delete"]
  /\ UNCHANGED <<verdict, written, issues, completion, caller, scope, unread,
                 results, subChecks, overlapped>>

DeleteResolved(p) ==
  /\ at[p] = "delete"
  /\ issues' = issues \ resolved[p]
  /\ at' = [at EXCEPT ![p] = "sync"]
  /\ UNCHANGED <<verdict, written, completion, caller, scope, unread, results,
                 subChecks, left, resolved, overlapped>>

Upsert(p) ==
  /\ at[p] = "sync" /\ left[p] = {}
  /\ issues' = issues \cup IssuesToInsert(p)
  /\ End(p, "completed")

\* A request to the database fails, or the function is killed.
Fails(p) ==
  /\ at[p] # "idle"
  /\ End(p, "failed")
  /\ UNCHANGED issues

-----------------------------------------------------------------------------
ProjectionStep(p) ==
  \/ ReadResults(p) \/ ReadSubChecks(p)
  \/ RemoveAll(p) \/ StartSync(p)
  \/ \E c \in Creatives : SelectExisting(p, c)
  \/ DeleteResolved(p)
  \/ Upsert(p)
  \/ Fails(p)

Next ==
  \/ \E r \in Rows : Write(r)
  \/ \E p \in Projections :
       \/ \E creatives \in SUBSET Creatives : CallByUser(p, creatives)
       \/ \E c \in Creatives : CallByCompletion(p, c)
       \/ ProjectionStep(p)

Spec == Init /\ [][Next]_vars

-----------------------------------------------------------------------------
(* Properties.                                                             *)

Failing(c) == {r \in Of(c) : verdict[r] # "fine"}

\* A creative whose evaluation completed shows all its issues and no others,
\* unless two projections of it have been under way at once: neither other
\* creatives of its batch nor failed or repeated projections disturb it.
CompletedShowsItsIssues ==
  \A c \in Creatives : completion[c] = "completed" /\ c \notin overlapped =>
    issues \cap Of(c) = Failing(c)
=============================================================================
