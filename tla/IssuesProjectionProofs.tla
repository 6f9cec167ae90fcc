----------------------- MODULE IssuesProjectionProofs -----------------------
(***************************************************************************)
(* What holds of the issues for any batch, metrics and number of           *)
(* projections under way.                                                  *)
(***************************************************************************)
EXTENDS IssuesProjection, TLAPS

\* What a projection has read is what was written, and it works within its
\* scope, which is empty when it rests.
ReadsAreGrounded ==
  \A p \in Projections :
    /\ at[p] = "idle" => scope[p] = {}
    /\ at[p] # "read" => unread[p] = {}
    /\ left[p] \subseteq scope[p]
    /\ results[p] \subseteq written
    /\ \A r \in subChecks[p] : r \in written /\ verdict[r] = "sub_check"
    /\ results[p] \subseteq In(scope[p])
    /\ resolved[p] \subseteq In(scope[p])

\* Issues belong to stored metrics that failed.
IssuesAreGrounded ==
  \A r \in issues : r \in written /\ verdict[r] # "fine"

\* Every creative that is not in overlapped has at most one projection.
OneProjection ==
  \A p, q \in Projections : \A c \in scope[p] \cap scope[q] : p = q \/ c \in overlapped

\* Completion waits for every row, and its projection has one creative.
CompletionWaits ==
  /\ \A c \in Creatives : completion[c] # "none" => Of(c) \subseteq written
  /\ \A p \in Projections : \A c \in scope[p] :
       caller[p] = "completion" => completion[c] # "none"

\* A projection that is alone on a creative whose rows are complete sees all of
\* it, so it finds no issue of it resolved.
SeesEverything ==
  \A p \in Projections : \A c \in scope[p] :
    completion[c] # "none" /\ c \notin overlapped =>
      /\ "results" \notin unread[p] => Of(c) \subseteq results[p]
      /\ "sub_checks" \notin unread[p] =>
           \A r \in Of(c) : verdict[r] = "sub_check" => r \in subChecks[p]
      /\ resolved[p] \cap Of(c) = {}

IInv ==
  /\ TypeOK
  /\ ReadsAreGrounded
  /\ IssuesAreGrounded
  /\ OneProjection
  /\ CompletionWaits
  /\ SeesEverything
  /\ CompletedShowsItsIssues

\* Nothing is written and nobody projects.
LEMMA InitIInv == Init => IInv
  BY DEF Init, IInv, TypeOK, ReadsAreGrounded, IssuesAreGrounded, OneProjection,
         CompletionWaits, SeesEverything, CompletedShowsItsIssues, Reads, In, Of

\* What a projection would insert is grounded and, on a creative it sees
\* everything of, complete.
LEMMA InsertsFailing ==
  ASSUME IInv, NEW p \in Projections, unread[p] = {}
  PROVE  /\ \A r \in IssuesToInsert(p) : r \in written /\ verdict[r] # "fine"
         /\ \A c \in scope[p] : completion[c] # "none" /\ c \notin overlapped =>
              Failing(c) \subseteq IssuesToInsert(p)
<1> USE DEF IInv, TypeOK
<1>1. \A r \in IssuesToInsert(p) : r \in written /\ verdict[r] # "fine"
  BY DEF IssuesToInsert, ReadsAreGrounded
<1>2. ASSUME NEW c \in scope[p], completion[c] # "none", c \notin overlapped,
             NEW r \in Failing(c)
      PROVE  r \in IssuesToInsert(p)
  <2>1. r \in Of(c) /\ r \in results[p] /\ r \in Rows
    BY <1>2 DEF SeesEverything, Failing, ReadsAreGrounded
  <2>2. verdict[r] = "false" \/ verdict[r] = "sub_check"
    BY <2>1, <1>2 DEF Failing, Verdicts
  <2> QED  BY <1>2, <2>1, <2>2 DEF SeesEverything, IssuesToInsert
<1> QED  BY <1>1, <1>2

\* A row is written, which no completed creative lacks.
LEMMA WriteStep ==
  ASSUME IInv, NEW r \in Rows, Write(r)
  PROVE  IInv'
<1> USE DEF Write, projectionVars, IInv, TypeOK
<1>1. TypeOK' /\ ReadsAreGrounded' /\ IssuesAreGrounded' /\ OneProjection'
  BY DEF ReadsAreGrounded, IssuesAreGrounded, OneProjection
<1>2. CompletionWaits'
  BY DEF CompletionWaits
<1>3. SeesEverything' /\ CompletedShowsItsIssues'
  BY DEF SeesEverything, CompletedShowsItsIssues, Failing
<1> QED  BY <1>1, <1>2, <1>3

\* A projection begins.
LEMMA BeginStep ==
  ASSUME IInv, NEW p \in Projections, NEW who \in {"user", "completion"},
         NEW creatives \in SUBSET Creatives, Begin(p, who, creatives),
         completion' \in [Creatives -> {"none", "running", "completed", "failed"}],
         \A c \in Creatives : completion[c] # "none" => completion'[c] = completion[c],
         \A c \in Creatives : completion'[c] # "completed" \/ completion'[c] = completion[c],
         \A c \in Creatives : completion'[c] # completion[c] =>
           c \in creatives /\ Of(c) \subseteq written,
         who = "completion" => \A c \in creatives : completion'[c] # "none"
  PROVE  IInv'
<1> USE DEF Begin, IInv, TypeOK
<1>1. TypeOK'  BY DEF Reads
<1>2. ReadsAreGrounded'
  <2>1. resolved[p] = {} /\ results[p] = {}
    BY DEF ReadsAreGrounded, In
  <2> QED  BY <2>1 DEF ReadsAreGrounded, In
<1>3. IssuesAreGrounded'  BY DEF IssuesAreGrounded
<1>4. OneProjection'  BY DEF OneProjection
<1>5. CompletionWaits'  BY DEF CompletionWaits
<1>6. SeesEverything'
  <2> SUFFICES ASSUME NEW q \in Projections, NEW c \in scope'[q],
                      completion'[c] # "none", c \notin overlapped'
               PROVE  /\ "results" \notin unread'[q] => Of(c) \subseteq results'[q]
                      /\ "sub_checks" \notin unread'[q] =>
                           \A r \in Of(c) : verdict'[r] = "sub_check" => r \in subChecks'[q]
                      /\ resolved'[q] \cap Of(c) = {}
    BY DEF SeesEverything
  <2>1. CASE q = p
    BY <2>1 DEF Reads, ReadsAreGrounded, In
  <2>2. CASE q # p
    <3>1. c \in scope[q] /\ c \notin creatives  BY <2>2
    <3>2. completion[c] # "none" /\ c \notin overlapped  BY <3>1
    <3> QED  BY <2>2, <3>1, <3>2 DEF SeesEverything
  <2> QED  BY <2>1, <2>2
<1>7. CompletedShowsItsIssues'  BY DEF CompletedShowsItsIssues, Failing
<1> QED  BY <1>1, <1>2, <1>3, <1>4, <1>5, <1>6, <1>7

\* It reads results or sub-checks.
LEMMA ReadStep ==
  ASSUME IInv, NEW p \in Projections, ReadResults(p) \/ ReadSubChecks(p)
  PROVE  IInv'
<1> USE DEF ReadResults, ReadSubChecks, IInv, TypeOK
<1>1. TypeOK'  OBVIOUS
<1>2. ReadsAreGrounded'
  <2>1. at[p] = "read"  BY DEF ReadsAreGrounded
  <2> QED  BY <2>1 DEF ReadsAreGrounded
<1>3. IssuesAreGrounded' /\ OneProjection' /\ CompletionWaits'
  BY DEF IssuesAreGrounded, OneProjection, CompletionWaits
<1>4. SeesEverything'
  <2> SUFFICES ASSUME NEW q \in Projections, NEW c \in scope[q],
                      completion[c] # "none", c \notin overlapped
               PROVE  /\ "results" \notin unread'[q] => Of(c) \subseteq results'[q]
                      /\ "sub_checks" \notin unread'[q] =>
                           \A r \in Of(c) : verdict[r] = "sub_check" => r \in subChecks'[q]
                      /\ resolved[q] \cap Of(c) = {}
    BY DEF SeesEverything
  <2>1. c \in Creatives /\ Of(c) \subseteq written  BY DEF CompletionWaits
  <2>2. Of(c) \subseteq In(scope[q])  BY DEF Of, In
  <2>3. CASE q # p  BY <2>3 DEF SeesEverything
  <2>4. CASE q = p /\ ReadResults(p)  BY <2>1, <2>2, <2>4 DEF SeesEverything
  <2>5. CASE q = p /\ ReadSubChecks(p)  BY <2>1, <2>2, <2>5 DEF SeesEverything
  <2> QED  BY <2>3, <2>4, <2>5
<1>5. CompletedShowsItsIssues'  BY DEF CompletedShowsItsIssues, Failing
<1> QED  BY <1>1, <1>2, <1>3, <1>4, <1>5

\* It has read both, and what it will write is settled.
LEMMA StartSyncStep ==
  ASSUME IInv, NEW p \in Projections, StartSync(p)
  PROVE  IInv'
  BY DEF StartSync, HasRead, IInv, TypeOK, ReadsAreGrounded, IssuesAreGrounded,
         OneProjection, CompletionWaits, SeesEverything, CompletedShowsItsIssues,
         Failing

\* It looks up the issues that are there.
LEMMA SelectExistingStep ==
  ASSUME IInv, NEW p \in Projections, NEW c \in Creatives, SelectExisting(p, c)
  PROVE  IInv'
<1> USE DEF SelectExisting, IInv, TypeOK
<1>1. unread[p] = {} /\ c \in scope[p]  BY DEF ReadsAreGrounded
<1>2. TypeOK'  BY DEF Of, Rows
<1>3. ReadsAreGrounded'  BY <1>1 DEF ReadsAreGrounded, Of, In
<1>4. IssuesAreGrounded' /\ OneProjection' /\ CompletionWaits'
  BY DEF IssuesAreGrounded, OneProjection, CompletionWaits
<1>5. ASSUME NEW d \in scope[p], completion[d] # "none", d \notin overlapped
      PROVE  resolved'[p] \cap Of(d) = {}
  <2>1. Failing(d) \subseteq IssuesToInsert(p)  BY <1>1, <1>5, InsertsFailing
  <2>2. issues \cap Of(d) \subseteq Failing(d)
    BY DEF IssuesAreGrounded, Failing
  <2> QED  BY <2>1, <2>2
<1>6. SeesEverything'
  BY <1>5 DEF SeesEverything
<1>7. CompletedShowsItsIssues'  BY DEF CompletedShowsItsIssues, Failing
<1> QED  BY <1>2, <1>3, <1>4, <1>6, <1>7

\* It deletes those that are obsolete.
LEMMA DeleteStep ==
  ASSUME IInv, NEW p \in Projections, DeleteResolved(p)
  PROVE  IInv'
<1> USE DEF DeleteResolved, IInv, TypeOK
<1>1. TypeOK' /\ ReadsAreGrounded' /\ IssuesAreGrounded' /\ OneProjection'
      /\ CompletionWaits' /\ SeesEverything'
  BY DEF ReadsAreGrounded, IssuesAreGrounded, OneProjection, CompletionWaits,
         SeesEverything
<1>2. ASSUME NEW c \in Creatives, completion[c] = "completed", c \notin overlapped
      PROVE  issues' \cap Of(c) = issues \cap Of(c)
  <2>1. CASE c \in scope[p]  BY <1>2, <2>1 DEF SeesEverything
  <2>2. CASE c \notin scope[p]  BY <2>2 DEF ReadsAreGrounded, Of, In
  <2> QED  BY <2>1, <2>2
<1>3. CompletedShowsItsIssues'
  BY <1>2 DEF CompletedShowsItsIssues, Failing
<1> QED  BY <1>1, <1>3

\* The end of a projection, with whatever it did to the issues in its last step.
LEMMA EndStep ==
  ASSUME IInv, NEW p \in Projections, NEW outcome \in {"completed", "failed"},
         End(p, outcome), issues' \in SUBSET Rows, IssuesAreGrounded',
         \A c \in Creatives : completion[c] = "completed" /\ c \notin overlapped =>
           issues' \cap Of(c) = issues \cap Of(c),
         outcome = "completed" =>
           \A c \in scope[p] : completion[c] # "none" /\ c \notin overlapped =>
             issues' \cap Of(c) = Failing(c)
  PROVE  IInv'
<1> USE DEF End, IInv, TypeOK
<1>1. TypeOK'  OBVIOUS
<1>2. ReadsAreGrounded' /\ OneProjection'
  BY DEF ReadsAreGrounded, OneProjection
<1>3. CompletionWaits' /\ SeesEverything'
  <2>1. \A c \in Creatives : completion'[c] # "none" => completion[c] # "none"
    BY DEF CompletionWaits
  <2>2. CompletionWaits'  BY <2>1 DEF CompletionWaits
  <2>3. SeesEverything'  BY <2>1 DEF SeesEverything
  <2> QED  BY <2>2, <2>3
<1>4. CompletedShowsItsIssues'
  <2> SUFFICES ASSUME NEW c \in Creatives, completion'[c] = "completed",
                      c \notin overlapped
               PROVE  issues' \cap Of(c) = Failing(c)
    BY DEF CompletedShowsItsIssues, Failing
  <2>1. CASE completion[c] = "completed"
    BY <2>1 DEF CompletedShowsItsIssues
  <2>2. CASE completion[c] # "completed"
    BY <2>2 DEF CompletionWaits
  <2> QED  BY <2>1, <2>2
<1> QED  BY <1>1, <1>2, <1>3, <1>4

\* It deletes all, having found none to write.
LEMMA RemoveAllStep ==
  ASSUME IInv, NEW p \in Projections, RemoveAll(p)
  PROVE  IInv'
<1> USE DEF RemoveAll, HasRead
<1>1. IssuesAreGrounded'
  BY DEF End, IInv, IssuesAreGrounded
<1>2. ASSUME NEW c \in scope[p], completion[c] # "none", c \notin overlapped
      PROVE  Failing(c) = {} /\ issues' \cap Of(c) = {} /\ c \in Creatives
  <2>1. Failing(c) = {}  BY <1>2, InsertsFailing
  <2>2. Of(c) \subseteq In(scope[p])  BY DEF Of, In
  <2> QED  BY <2>1, <2>2, <1>2 DEF IInv, TypeOK
<1>3. ASSUME NEW c \in Creatives, completion[c] = "completed", c \notin overlapped
      PROVE  issues' \cap Of(c) = issues \cap Of(c)
  <2>1. CASE c \in scope[p]
    BY <1>2, <1>3, <2>1 DEF IInv, CompletedShowsItsIssues
  <2>2. CASE c \notin scope[p]
    BY <2>2 DEF Of, In
  <2> QED  BY <2>1, <2>2
<1>4. issues' \in SUBSET Rows  BY DEF IInv, TypeOK
<1> QED  BY <1>1, <1>2, <1>3, <1>4, EndStep

\* It writes the rest.
LEMMA UpsertStep ==
  ASSUME IInv, NEW p \in Projections, Upsert(p)
  PROVE  IInv'
<1> USE DEF Upsert
<1>1. unread[p] = {}  BY DEF IInv, ReadsAreGrounded
<1>2. \A r \in IssuesToInsert(p) : r \in written /\ verdict[r] # "fine"
  BY <1>1, InsertsFailing
<1>3. IssuesAreGrounded'
  BY <1>2 DEF End, IInv, IssuesAreGrounded
<1>4. issues' \in SUBSET Rows
  BY DEF IInv, TypeOK, IssuesToInsert
<1>5. \A c \in Creatives : issues' \cap Of(c) \subseteq Failing(c)
  BY <1>3 DEF IssuesAreGrounded, Failing, End
<1>6. ASSUME NEW c \in Creatives, completion[c] = "completed", c \notin overlapped
      PROVE  issues' \cap Of(c) = issues \cap Of(c)
  BY <1>5, <1>6 DEF IInv, CompletedShowsItsIssues
<1>7. ASSUME NEW c \in scope[p], completion[c] # "none", c \notin overlapped
      PROVE  issues' \cap Of(c) = Failing(c)
  <2>1. Failing(c) \subseteq IssuesToInsert(p)  BY <1>1, <1>7, InsertsFailing
  <2>2. Failing(c) \subseteq Of(c) /\ c \in Creatives  BY DEF Failing, IInv, TypeOK
  <2> QED  BY <1>5, <2>1, <2>2
<1> QED  BY <1>3, <1>4, <1>6, <1>7, EndStep

\* Every step, whoever makes it, keeps the invariant.
LEMMA NextIInv == IInv /\ [Next]_vars => IInv'
<1> SUFFICES ASSUME IInv, [Next]_vars PROVE IInv'
  OBVIOUS
<1>1. ASSUME NEW r \in Rows, Write(r) PROVE IInv'
  BY <1>1, WriteStep
<1>2. ASSUME NEW p \in Projections, NEW creatives \in SUBSET Creatives,
             CallByUser(p, creatives)
      PROVE  IInv'
  <2>1. completion' = completion  BY <1>2 DEF CallByUser
  <2> QED  BY <1>2, <2>1, BeginStep DEF CallByUser, IInv, TypeOK
<1>3. ASSUME NEW p \in Projections, NEW c \in Creatives, CallByCompletion(p, c)
      PROVE  IInv'
  <2>1. completion' = [completion EXCEPT ![c] = "running"]
        /\ completion[c] = "none" /\ Of(c) \subseteq written
    BY <1>3 DEF CallByCompletion
  <2>2. completion' \in [Creatives -> {"none", "running", "completed", "failed"}]
    BY <2>1 DEF IInv, TypeOK
  <2>3. /\ \A d \in Creatives : completion[d] # "none" => completion'[d] = completion[d]
        /\ \A d \in Creatives : completion'[d] # "completed" \/ completion'[d] = completion[d]
        /\ \A d \in Creatives : completion'[d] # completion[d] =>
             d \in {c} /\ Of(d) \subseteq written
        /\ \A d \in {c} : completion'[d] # "none"
    BY <2>1 DEF IInv, TypeOK
  <2>4. Begin(p, "completion", {c})  BY <1>3 DEF CallByCompletion
  <2> QED  BY <2>2, <2>3, <2>4, BeginStep
<1>4. ASSUME NEW p \in Projections, ProjectionStep(p) PROVE IInv'
  <2>1. CASE ReadResults(p) \/ ReadSubChecks(p)  BY <2>1, ReadStep
  <2>2. CASE RemoveAll(p)  BY <2>2, RemoveAllStep
  <2>3. CASE StartSync(p)  BY <2>3, StartSyncStep
  <2>4. CASE \E c \in Creatives : SelectExisting(p, c)  BY <2>4, SelectExistingStep
  <2>5. CASE DeleteResolved(p)  BY <2>5, DeleteStep
  <2>6. CASE Upsert(p)  BY <2>6, UpsertStep
  <2>7. CASE Fails(p)
    <3>1. IssuesAreGrounded' /\ issues' \in SUBSET Rows
      BY <2>7 DEF Fails, End, IInv, TypeOK, IssuesAreGrounded
    <3> QED  BY <2>7, <3>1, EndStep DEF Fails
  <2> QED  BY <1>4, <2>1, <2>2, <2>3, <2>4, <2>5, <2>6, <2>7 DEF ProjectionStep
<1>5. CASE UNCHANGED vars
  BY <1>5 DEF vars, projectionVars, IInv, TypeOK, ReadsAreGrounded, IssuesAreGrounded,
         OneProjection, CompletionWaits, SeesEverything, CompletedShowsItsIssues, Failing
<1> QED  BY <1>1, <1>2, <1>3, <1>4, <1>5 DEF Next

\* A completed creative shows exactly its issues unless two projections of it
\* overlapped, for any batch, metrics and number of projections.
THEOREM IssuesShown == Spec => [](TypeOK /\ CompletedShowsItsIssues)
<1>1. IInv => TypeOK /\ CompletedShowsItsIssues  BY DEF IInv
<1> QED  BY <1>1, InitIInv, NextIInv, PTL DEF Spec
=============================================================================
