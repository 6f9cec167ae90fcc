-------------------------- MODULE SubmissionProofs --------------------------
(* Proofs about Submission, for any videos, fields, campaigns and number   *)
(* of steps of the user.                                                   *)
EXTENDS Submission, FiniteSetTheorems, TLAPS

\* No call under way is a call.
LEMMA NoParseType ==
  NoParse \in [at : {"idle", "asked"}, text : Texts \cup {Blank},
               edited : SUBSET Fields, aiFilled : SUBSET Fields]
BY DEF NoParse

\* No submission under way is a submission.
LEMMA NoSubmitType ==
  NoSubmit \in [at : {"idle", "requests", "brief", "navigated"}, videos : SUBSET Videos,
                text : Texts \cup {Blank}, advanced : [Fields -> Values]]
BY DEF NoSubmit, Values

\* The state has the types of the columns and of the React state.
THEOREM SubmissionTypes == Spec => []TypeOK
<1> USE SubmissionAssumption
<1>1. Init => TypeOK
  <2> SUFFICES ASSUME Init PROVE TypeOK
    OBVIOUS
  <2>1. /\ detailLoaded \in BOOLEAN /\ campaignLoading \in BOOLEAN
        /\ withdrawn \in BOOLEAN /\ touched \in BOOLEAN
    BY DEF Init
  <2>2. parse = NoParse /\ submit = NoSubmit
    BY DEF Init
  <2>3. /\ videos \in [Videos -> {"absent", "uploading", "error", "done", "removing", "removed"}]
        /\ ids \in [Videos -> Nat] /\ advanced \in [Fields -> Values]
        /\ started \in [Videos -> Nat]
    BY DEF Init, Values
  <2>4. /\ mode = "create" /\ text = Blank /\ lastParsed = Blank /\ selected = None
        /\ selection = 0 /\ acts = 0 /\ brief = None
        /\ edited = {} /\ aiFilled = {} /\ fetches = {} /\ requests = {}
    BY DEF Init
  <2> QED BY <2>1, <2>2, <2>3, <2>4, NoParseType, NoSubmitType DEF TypeOK
<1>2. TypeOK /\ [Next]_vars => TypeOK'
  <2> SUFFICES ASSUME TypeOK, [Next]_vars PROVE TypeOK'
    OBVIOUS
  <2> USE DEF UserAct
  <2>1. ASSUME NEW v \in Videos, SelectFile(v) \/ UploadEnds(v) \/ RemoveVideo(v) \/ RemoveEnds(v)
        PROVE  TypeOK'
    BY <2>1 DEF TypeOK, SelectFile, UploadEnds, RemoveVideo, RemoveEnds, formVars, storedVars
  <2>2. CASE SetMode
    BY <2>2 DEF TypeOK, SetMode, uploadVars, storedVars
  <2>3. ASSUME NEW t \in Texts \cup {Blank}, EditText(t) PROVE TypeOK'
    BY <2>3 DEF TypeOK, EditText, uploadVars, storedVars
  <2>4. ASSUME NEW f \in Fields, NEW value \in {Blank, Typed}, handleAdvancedChange(f, value)
        PROVE  TypeOK'
    BY <2>4 DEF TypeOK, handleAdvancedChange, uploadVars, storedVars, Values
  <2>5. ASSUME NEW f \in Fields, handleAdvancedUndo(f) PROVE TypeOK'
    BY <2>5 DEF TypeOK, handleAdvancedUndo, uploadVars, storedVars, Values
  <2>6. CASE handleParseBrief
    <3>1. parse' \in [at : {"idle", "asked"}, text : Texts \cup {Blank},
                      edited : SUBSET Fields, aiFilled : SUBSET Fields]
      BY <2>6 DEF TypeOK, handleParseBrief
    <3> QED BY <2>6, <3>1 DEF TypeOK, handleParseBrief, uploadVars, storedVars
  <2>16. CASE ParseFails
    BY <2>16, NoParseType DEF TypeOK, ParseFails, uploadVars, storedVars
  <2>7. ASSUME NEW found \in SUBSET Fields, ParseAnswers(found) PROVE TypeOK'
    <3>1. advanced' \in [Fields -> Values] /\ aiFilled' \subseteq Fields
      BY <2>7 DEF TypeOK, ParseAnswers, Values
    <3> QED BY <2>7, <3>1, NoParseType DEF TypeOK, ParseAnswers, uploadVars, storedVars
  <2>8. ASSUME NEW k \in Campaigns, handleSelectCampaign(k) PROVE TypeOK'
    <3>1. campaignLoading' \in BOOLEAN /\ detailLoaded' \in BOOLEAN
      BY <2>8 DEF handleSelectCampaign
    <3>2. fetches' \subseteq [selection : Nat, campaign : Campaigns]
      BY <2>8 DEF TypeOK, handleSelectCampaign
    <3> QED BY <2>8, <3>1, <3>2 DEF TypeOK, handleSelectCampaign, uploadVars, storedVars
  <2>9. ASSUME NEW x \in fetches, DetailAnswers(x) PROVE TypeOK'
    <3>1. campaignLoading' \in BOOLEAN /\ detailLoaded' \in BOOLEAN /\ touched' \in BOOLEAN
      BY <2>9 DEF TypeOK, DetailAnswers
    <3>2. /\ text' \in Texts \cup {Blank} /\ lastParsed' \in Texts \cup {Blank}
          /\ advanced' \in [Fields -> Values]
      BY <2>9 DEF TypeOK, DetailAnswers, Contents
    <3>3. edited' \subseteq Fields /\ aiFilled' \subseteq Fields
      BY <2>9 DEF TypeOK, DetailAnswers
    <3> QED BY <2>9, <3>1, <3>2, <3>3 DEF TypeOK, DetailAnswers, uploadVars, storedVars
  <2>17. ASSUME NEW x \in fetches, DetailFails(x) PROVE TypeOK'
    <3>1. campaignLoading' \in BOOLEAN
      BY <2>17 DEF DetailFails
    <3> QED BY <2>17, <3>1 DEF TypeOK, DetailFails, uploadVars, storedVars
  <2>10. CASE handleSubmit
    BY <2>10 DEF TypeOK, handleSubmit, Mint, doneVideos, uploadVars, formVars, storedVars
  <2>11. CASE InsertRequests
    <3>1. requests' \subseteq [video : Videos, id : Nat, text : Texts \cup {Blank}]
      BY <2>11 DEF TypeOK, InsertRequests, Fresh, RowsOf
    <3>2. started' \in [Videos -> Nat]
      <4>1. \A v \in Videos : Cardinality({r \in Fresh : r.video = v}) \in Nat
        <5> TAKE v \in Videos
        <5> DEFINE row == [video |-> v, id |-> ids[v], text |-> submit.text]
        <5>1. {r \in Fresh : r.video = v} \subseteq {row}
          BY DEF Fresh, RowsOf
        <5>2. IsFiniteSet({row}) 
          BY FS_Singleton
        <5> QED BY <5>1, <5>2, FS_Subset, FS_CardinalityType
      <4> QED BY <4>1, <2>11 DEF TypeOK, InsertRequests
    <3>3. submit' \in [at : {"idle", "requests", "brief", "navigated"}, videos : SUBSET Videos,
                       text : Texts \cup {Blank}, advanced : [Fields -> Values]]
      BY <2>11, NoSubmitType DEF TypeOK, InsertRequests, Fails
    <3> QED BY <2>11, <3>1, <3>2, <3>3 DEF TypeOK, InsertRequests, uploadVars, formVars
  <2>12. CASE UpsertBrief
    BY <2>12, NoSubmitType DEF TypeOK, UpsertBrief, Fails, Contents, uploadVars, formVars
  <2>13. CASE RequestFails
    BY <2>13, NoSubmitType DEF TypeOK, RequestFails, Fails, uploadVars, formVars, storedVars
  <2>14. CASE DeleteReview
    BY <2>14 DEF TypeOK, DeleteReview, uploadVars, formVars
  <2>15. CASE UNCHANGED vars
    BY <2>15 DEF TypeOK, vars, uploadVars, formVars, storedVars
  <2> QED
    BY <2>1, <2>2, <2>3, <2>4, <2>5, <2>6, <2>7, <2>8, <2>9, <2>10, <2>11, <2>12,
       <2>13, <2>14, <2>15, <2>16, <2>17 DEF Next
<1> QED BY <1>1, <1>2, PTL DEF Spec

-----------------------------------------------------------------------------
(* What was minted and what is stored.                                     *)

\* A video that is being submitted has its request_id, all rows bear the one of their
\* video, a video has one row, and only a video with a row was ever started, unless
\* the review was deleted.  Behind the first request of a submission the rows are there.
Stored ==
  /\ \A v \in submit.videos : ids[v] = 1
  /\ \A v \in Videos : ids[v] \in {0, 1}
  /\ \A r \in requests : r.id = 1 /\ ids[r.video] = 1
  /\ \A r, s \in requests : r.video = s.video => r = s
  /\ ~withdrawn => \A v \in Videos :
       started[v] = 0 \/ (started[v] = 1 /\ \E r \in requests : r.video = v)
  /\ submit.at = "brief" /\ ~withdrawn =>
       \A v \in submit.videos : \E r \in requests : r.video = v

\* The row that an insert adds for a video, if any.
LEMMA OneRowAdded ==
  ASSUME NEW v \in Videos, TypeOK, Stored, submit.at = "requests"
  PROVE  LET added == {r \in Fresh : r.video = v} IN
         \/ added = {} /\ Cardinality(added) = 0
         \/ /\ Cardinality(added) = 1 /\ added \subseteq Fresh /\ added # {}
            /\ \A r \in requests : r.video # v
<1> DEFINE row   == [video |-> v, id |-> ids[v], text |-> submit.text]
           added == {r \in Fresh : r.video = v}
<1>1. added \subseteq {row}
  BY DEF Fresh, RowsOf
<1>2. CASE added = {}
  BY <1>2, FS_EmptySet
<1>3. CASE added # {}
  <2>1. added = {row} /\ row \in Fresh
    BY <1>1, <1>3
  <2>2. Cardinality(added) = 1
    BY <2>1, FS_Singleton
  <2>3. v \in submit.videos
    BY <2>1 DEF Fresh, RowsOf
  <2>4. ids[v] = 1
    BY <2>3 DEF Stored
  <2>5. ~\E s \in requests : s.video = v /\ s.id = 1
    BY <2>1, <2>4 DEF Fresh, Known
  <2>6. \A r \in requests : r.video # v
    BY <2>5 DEF Stored
  <2> QED BY <2>1, <2>2, <2>6
<1> QED BY <1>2, <1>3

\* The insert keeps one row per video and starts each video once.
LEMMA InsertKeepsStored ==
  ASSUME TypeOK, Stored, InsertRequests
  PROVE  Stored'
<1>0. submit.at = "requests" /\ requests' = requests \cup Fresh /\ ids' = ids
      /\ withdrawn' = withdrawn /\ submit.videos \subseteq Videos
  BY DEF InsertRequests, TypeOK
<1>1. submit'.videos = {} \/ submit'.videos = submit.videos
  BY DEF InsertRequests, Fails, NoSubmit, TypeOK
<1>2. \A r \in Fresh : /\ r.video \in submit.videos /\ r.id = ids[r.video]
                      /\ r = [video |-> r.video, id |-> ids[r.video], text |-> submit.text]
  BY DEF Fresh, RowsOf
<1>3. \A r \in requests' : r.id = 1 /\ ids'[r.video] = 1
  BY <1>0, <1>2 DEF Stored
<1>4. \A r, s \in requests' : r.video = s.video => r = s
  <2> SUFFICES ASSUME NEW r \in requests', NEW s \in requests', r.video = s.video
               PROVE  r = s
    OBVIOUS
  <2>1. CASE r \in requests /\ s \in requests
    BY <2>1 DEF Stored
  <2>2. CASE r \in Fresh /\ s \in Fresh
    BY <2>2, <1>2
  <2>3. ASSUME NEW a \in requests, NEW b \in Fresh, a.video = b.video PROVE FALSE
    <3>1. a.id = b.id
      BY <2>3, <1>2 DEF Stored
    <3> QED BY <3>1, <2>3 DEF Fresh, Known
  <2> QED BY <2>1, <2>2, <2>3, <1>0
<1>5. ASSUME ~withdrawn', NEW v \in Videos
      PROVE  started'[v] = 0 \/ (started'[v] = 1 /\ \E r \in requests' : r.video = v)
  <2> DEFINE added == {r \in Fresh : r.video = v}
  <2>1. started'[v] = started[v] + Cardinality(added)
    BY DEF InsertRequests
  <2>2. started[v] = 0 \/ (started[v] = 1 /\ \E r \in requests : r.video = v)
    BY <1>5, <1>0 DEF Stored
  <2>3. CASE added = {} /\ Cardinality(added) = 0
    BY <2>1, <2>2, <2>3, <1>0
  <2>4. CASE /\ Cardinality(added) = 1 /\ added \subseteq Fresh /\ added # {}
             /\ \A r \in requests : r.video # v
    <3>1. started[v] = 0
      BY <2>2, <2>4
    <3>2. \E r \in requests' : r.video = v
      BY <2>4, <1>0
    <3> QED BY <3>1, <3>2, <2>1, <2>4
  <2> QED BY <2>3, <2>4, <1>0, OneRowAdded
<1>6. ASSUME NEW v \in submit.videos PROVE \E r \in requests' : r.video = v
  <2> DEFINE row == [video |-> v, id |-> ids[v], text |-> submit.text]
  <2>1. row \in RowsOf
    BY DEF RowsOf
  <2>2. CASE Known(row)
    BY <2>2, <1>0 DEF Known
  <2>3. CASE ~Known(row)
    BY <2>1, <2>3, <1>0 DEF Fresh
  <2> QED BY <2>2, <2>3
<1> QED BY <1>0, <1>1, <1>3, <1>4, <1>5, <1>6 DEF Stored

\* Every other step keeps it too.
LEMMA StoredInductive ==
  ASSUME TypeOK, Stored, [Next]_vars
  PROVE  Stored'
<1> USE DEF UserAct
<1>1. ASSUME UNCHANGED <<ids, submit, requests, started, withdrawn>> PROVE Stored'
  BY <1>1 DEF Stored
<1>2. ASSUME NEW v \in Videos, SelectFile(v) \/ UploadEnds(v) \/ RemoveVideo(v) \/ RemoveEnds(v)
      PROVE  Stored'
  BY <1>1, <1>2 DEF SelectFile, UploadEnds, RemoveVideo, RemoveEnds, storedVars
<1>3. ASSUME \/ SetMode \/ handleParseBrief \/ ParseFails
             \/ \E t \in Texts \cup {Blank} : EditText(t)
             \/ \E f \in Fields : \/ \E value \in {Blank, Typed} : handleAdvancedChange(f, value)
                                \/ handleAdvancedUndo(f)
             \/ \E found \in SUBSET Fields : ParseAnswers(found)
             \/ \E k \in Campaigns : handleSelectCampaign(k)
             \/ \E x \in fetches : DetailAnswers(x) \/ DetailFails(x)
             \/ UNCHANGED vars
      PROVE  Stored'
  BY <1>1, <1>3 DEF SetMode, EditText, handleAdvancedChange, handleAdvancedUndo,
     handleParseBrief, ParseAnswers, ParseFails, handleSelectCampaign, DetailAnswers,
     DetailFails, storedVars, vars
<1>4. CASE handleSubmit
  <2>1. /\ ids' = [v \in Videos |-> IF v \in doneVideos THEN Mint(v) ELSE ids[v]]
        /\ submit'.videos = doneVideos /\ submit'.at = "requests"
        /\ UNCHANGED <<requests, started, withdrawn>> /\ doneVideos \subseteq Videos
    BY <1>4 DEF handleSubmit, storedVars, doneVideos
  <2>2. \A v \in Videos : ids'[v] \in {0, 1} /\ (ids[v] = 1 => ids'[v] = 1)
    BY <2>1 DEF Mint, Stored
  <2>3. \A v \in submit'.videos : ids'[v] = 1
    BY <2>1 DEF Mint, Stored
  <2>4. \A r \in requests : r.video \in Videos
    BY DEF TypeOK
  <2> QED BY <2>1, <2>2, <2>3, <2>4 DEF Stored
<1>5. CASE InsertRequests
  BY <1>5, InsertKeepsStored
<1>6. CASE UpsertBrief \/ RequestFails
  <2>1. /\ UNCHANGED <<ids, requests, started, withdrawn>>
        /\ \/ submit'.at = "navigated" /\ submit'.videos = submit.videos
           \/ submit' = NoSubmit
    BY <1>6 DEF UpsertBrief, RequestFails, Fails, storedVars, TypeOK
  <2> QED BY <2>1 DEF Stored, NoSubmit
<1>7. CASE DeleteReview
  BY <1>7 DEF DeleteReview, Stored
<1> QED BY <1>2, <1>3, <1>4, <1>5, <1>6, <1>7 DEF Next

\* Types and Stored together are inductive.
LEMMA StoredAlways == Spec => [](TypeOK /\ Stored)
<1>1. Init => Stored
  BY DEF Init, Stored, NoSubmit
<1>2. TypeOK /\ Stored /\ [Next]_vars => Stored'
  BY StoredInductive
<1> QED BY <1>1, <1>2, SubmissionTypes, PTL DEF Spec

\* However often it is retried, a submission starts one pipeline per video.
THEOREM OnePipeline == Spec => []OnePipelinePerVideo
<1>1. TypeOK /\ Stored => OnePipelinePerVideo
  BY DEF Stored, TypeOK, OnePipelinePerVideo
<1> QED BY <1>1, StoredAlways, PTL

\* Who comes to the results has submitted all his videos and the brief he saw.
THEOREM NavigatesWhenStored == Spec => SubmittedIsStored
<1>1. TypeOK /\ Stored /\ [Next]_vars =>
        (submit.at # "navigated" /\ submit'.at = "navigated" =>
           /\ ~withdrawn => \A v \in submit.videos : \E r \in requests' : r.video = v
           /\ brief' = [text |-> submit'.text, advanced |-> submit'.advanced])
  <2> SUFFICES ASSUME TypeOK, Stored, [Next]_vars, submit.at # "navigated",
                      submit'.at = "navigated"
               PROVE  /\ ~withdrawn => \A v \in submit.videos : \E r \in requests' : r.video = v
                      /\ brief' = [text |-> submit'.text, advanced |-> submit'.advanced]
    OBVIOUS
  <2>1. submit' # submit
    OBVIOUS
  <2>2. UpsertBrief
    <3>1. ~handleSubmit
      BY DEF handleSubmit
    <3>2. ~InsertRequests
      BY DEF InsertRequests, Fails, NoSubmit, TypeOK
    <3>3. ~RequestFails
      BY DEF RequestFails, Fails, NoSubmit
    <3> QED BY <2>1, <3>1, <3>2, <3>3 DEF Next, SelectFile, UploadEnds, RemoveVideo, RemoveEnds,
         SetMode, EditText, handleAdvancedChange, handleAdvancedUndo, handleParseBrief,
         ParseAnswers, ParseFails, handleSelectCampaign, DetailAnswers, DetailFails,
         DeleteReview, vars
  <2>3. submit.at = "brief" /\ requests' = requests
        /\ brief' = [text |-> submit.text, advanced |-> submit.advanced]
        /\ submit'.text = submit.text /\ submit'.advanced = submit.advanced
    BY <2>2 DEF UpsertBrief, Fails, NoSubmit, TypeOK
  <2> QED BY <2>3 DEF Stored
<1> QED BY <1>1, StoredAlways, PTL DEF SubmittedIsStored, Spec

-----------------------------------------------------------------------------
(* What the form shows.                                                    *)

\* The requests for details are told apart by their selection, the last of which is
\* about the campaign selected; the form of the last answer is the form shown.
Selections ==
  /\ \A x \in fetches : x.selection <= selection
  /\ \A x, y \in fetches : x.selection = y.selection => x = y
  /\ \A x \in fetches : x.selection = selection => x.campaign = selected
  /\ campaignLoading <=> \E x \in fetches : x.selection = selection
  /\ detailLoaded => ~campaignLoading
  /\ detailLoaded /\ ~touched =>
       text = Saved[selected].text /\ advanced = Saved[selected].advanced

\* The initial state and every step keep the agreement of the form and its selection.
LEMMA SelectionsInductive ==
  ASSUME TypeOK, Selections, [Next]_vars
  PROVE  Selections'
<1> USE DEF UserAct
<1>1. ASSUME UNCHANGED <<text, advanced, selected, selection, fetches, detailLoaded,
                         campaignLoading, touched>>
      PROVE  Selections'
  BY <1>1 DEF Selections
<1>2. ASSUME \/ \E v \in Videos : \/ SelectFile(v) \/ UploadEnds(v)
                                 \/ RemoveVideo(v) \/ RemoveEnds(v)
             \/ SetMode \/ handleParseBrief \/ ParseFails
             \/ handleSubmit \/ InsertRequests \/ UpsertBrief \/ RequestFails
             \/ DeleteReview \/ UNCHANGED vars
      PROVE  Selections'
  BY <1>1, <1>2 DEF SelectFile, UploadEnds, RemoveVideo, RemoveEnds, SetMode,
     handleParseBrief, ParseFails, handleSubmit, InsertRequests, UpsertBrief,
     RequestFails, DeleteReview, formVars, vars
<1>3. ASSUME UNCHANGED <<selected, selection, fetches, detailLoaded, campaignLoading>>,
             touched' = TRUE
      PROVE  Selections'
  BY <1>3 DEF Selections
<1>4. ASSUME \/ \E t \in Texts \cup {Blank} : EditText(t)
             \/ \E f \in Fields : \/ \E value \in {Blank, Typed} : handleAdvancedChange(f, value)
                                \/ handleAdvancedUndo(f)
             \/ \E found \in SUBSET Fields : ParseAnswers(found)
      PROVE  Selections'
  BY <1>3, <1>4 DEF EditText, handleAdvancedChange, handleAdvancedUndo, ParseAnswers
<1>5. ASSUME NEW k \in Campaigns, handleSelectCampaign(k) PROVE Selections'
  <2> DEFINE new == [selection |-> selection + 1, campaign |-> k]
  <2>1. /\ selection' = selection + 1 /\ selected' = k /\ fetches' = fetches \cup {new}
        /\ campaignLoading' = TRUE /\ detailLoaded' = FALSE
    BY <1>5 DEF handleSelectCampaign
  <2>2. \A x \in fetches : x.selection \in Nat /\ x.selection < selection + 1
    BY DEF TypeOK, Selections
  <2>3. selection \in Nat
    BY DEF TypeOK
  <2>4. \A x \in fetches' : x.selection <= selection'
    BY <2>1, <2>2, <2>3
  <2>5. \A x, y \in fetches' : x.selection = y.selection => x = y
    BY <2>1, <2>2, <2>3 DEF Selections
  <2>6. \A x \in fetches' : x.selection = selection' => x.campaign = selected'
    BY <2>1, <2>2, <2>3
  <2>7. new \in fetches' /\ new.selection = selection'
    BY <2>1
  <2>8. campaignLoading' <=> \E x \in fetches' : x.selection = selection'
    BY <2>1, <2>7
  <2>9. ~detailLoaded'
    BY <2>1
  <2> QED BY <2>4, <2>5, <2>6, <2>8, <2>9 DEF Selections
<1>6. ASSUME NEW x \in fetches, DetailAnswers(x) PROVE Selections'
  <2>1. fetches' = fetches \ {x} /\ selection' = selection /\ selected' = selected
    BY <1>6 DEF DetailAnswers
  <2>2. CASE x.selection = selection
    <3>1. /\ text' = Saved[x.campaign].text /\ advanced' = Saved[x.campaign].advanced
          /\ detailLoaded' = TRUE /\ campaignLoading' = FALSE
      BY <1>6, <2>2 DEF DetailAnswers
    <3>2. x.campaign = selected
      BY <2>2 DEF Selections
    <3>3. ~\E y \in fetches' : y.selection = selection'
      BY <2>1, <2>2 DEF Selections
    <3> QED BY <2>1, <3>1, <3>2, <3>3 DEF Selections
  <2>3. CASE x.selection # selection
    <3>1. UNCHANGED <<text, advanced, touched, detailLoaded, campaignLoading>>
      BY <1>6, <2>3 DEF DetailAnswers
    <3>2. (\E y \in fetches' : y.selection = selection')
            <=> \E y \in fetches : y.selection = selection
      BY <2>1, <2>3
    <3> QED BY <2>1, <3>1, <3>2 DEF Selections
  <2> QED BY <2>2, <2>3
<1>7. ASSUME NEW x \in fetches, DetailFails(x) PROVE Selections'
  <2>1. /\ fetches' = fetches \ {x}
        /\ UNCHANGED <<selection, selected, text, advanced, touched, detailLoaded>>
        /\ campaignLoading' <=> campaignLoading /\ x.selection # selection
    BY <1>7 DEF DetailFails
  <2>2. campaignLoading' <=> \E y \in fetches' : y.selection = selection'
    BY <2>1 DEF Selections
  <2> QED BY <2>1, <2>2 DEF Selections
<1> QED BY <1>2, <1>4, <1>5, <1>6, <1>7 DEF Next

\* No answer about a campaign selected earlier reaches the form.
THEOREM FormShowsSelection == Spec => []SelectionIsShown
<1>1. Init => Selections
  BY DEF Init, Selections
<1>2. TypeOK /\ Selections /\ [Next]_vars => Selections'
  BY SelectionsInductive
<1>3. Selections => SelectionIsShown
  BY DEF Selections, SelectionIsShown
<1> QED BY <1>1, <1>2, <1>3, SubmissionTypes, PTL DEF Spec

-----------------------------------------------------------------------------
(* What the requests carry.                                                *)

\* A submission under way carries what the form held when it was valid.
Complete ==
  /\ submit.at \in {"requests", "brief"} =>
       submit.text # Blank /\ \A f \in Required : submit.advanced[f] # Blank
  /\ NothingBlankIsStored

\* The initial state and every step keep a submission complete.
LEMMA CompleteInductive ==
  ASSUME TypeOK, Complete, [Next]_vars
  PROVE  Complete'
<1> USE DEF Complete, NothingBlankIsStored
<1>1. ASSUME UNCHANGED <<submit, requests, brief>> PROVE Complete'
  BY <1>1
<1>2. ASSUME \/ \E v \in Videos : \/ SelectFile(v) \/ UploadEnds(v)
                                 \/ RemoveVideo(v) \/ RemoveEnds(v)
             \/ SetMode \/ handleParseBrief \/ ParseFails
             \/ \E t \in Texts \cup {Blank} : EditText(t)
             \/ \E f \in Fields : \/ \E value \in {Blank, Typed} : handleAdvancedChange(f, value)
                                \/ handleAdvancedUndo(f)
             \/ \E found \in SUBSET Fields : ParseAnswers(found)
             \/ \E k \in Campaigns : handleSelectCampaign(k)
             \/ \E x \in fetches : DetailAnswers(x) \/ DetailFails(x)
             \/ UNCHANGED vars
      PROVE  Complete'
  BY <1>1, <1>2 DEF SelectFile, UploadEnds, RemoveVideo, RemoveEnds, SetMode, EditText,
     handleAdvancedChange, handleAdvancedUndo, handleParseBrief, ParseAnswers, ParseFails,
     handleSelectCampaign, DetailAnswers, DetailFails, storedVars, vars
<1>3. CASE handleSubmit
  <2>1. /\ text # Blank /\ \A f \in Required : advanced[f] # Blank
        /\ submit'.text = text /\ submit'.advanced = advanced
        /\ UNCHANGED <<requests, brief>>
    BY <1>3 DEF handleSubmit, isFormValid, storedVars
  <2> QED BY <2>1
<1>4. CASE InsertRequests
  <2>1. submit.text # Blank /\ \A f \in Required : submit.advanced[f] # Blank
    BY <1>4 DEF InsertRequests
  <2>2. requests' = requests \cup Fresh /\ brief' = brief
    BY <1>4 DEF InsertRequests
  <2>3. \A r \in Fresh : r.text = submit.text
    BY DEF Fresh, RowsOf
  <2>4. \/ submit' = NoSubmit
        \/ submit'.text = submit.text /\ submit'.advanced = submit.advanced
    BY <1>4 DEF InsertRequests, Fails, TypeOK
  <2> QED BY <2>1, <2>2, <2>3, <2>4 DEF NoSubmit
<1>5. CASE UpsertBrief
  <2>1. submit.text # Blank /\ \A f \in Required : submit.advanced[f] # Blank
    BY <1>5 DEF UpsertBrief
  <2>2. requests' = requests /\ brief' = [text |-> submit.text, advanced |-> submit.advanced]
    BY <1>5 DEF UpsertBrief
  <2>3. submit'.at \notin {"requests", "brief"}
    BY <1>5 DEF UpsertBrief, Fails, NoSubmit, TypeOK
  <2> QED BY <2>1, <2>2, <2>3
<1>6. CASE RequestFails
  BY <1>6 DEF RequestFails, Fails, NoSubmit, storedVars
<1>7. CASE DeleteReview
  BY <1>7 DEF DeleteReview
<1> QED BY <1>2, <1>3, <1>4, <1>5, <1>6, <1>7 DEF Next

\* Whatever happens to the form between the click and the second request, no blank that
\* the form forbids is stored.
THEOREM StoredIsComplete == Spec => []NothingBlankIsStored
<1>1. Init => Complete
  BY DEF Init, Complete, NothingBlankIsStored, NoSubmit
<1>2. TypeOK /\ Complete /\ [Next]_vars => Complete'
  BY CompleteInductive
<1>3. Complete => NothingBlankIsStored
  BY DEF Complete
<1> QED BY <1>1, <1>2, <1>3, SubmissionTypes, PTL DEF Spec
=============================================================================
