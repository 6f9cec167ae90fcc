----------------------------- MODULE Submission -----------------------------
(***************************************************************************)
(* The page /upload of one browser tab: the videos of a new Review Request *)
(* are uploaded while its campaign form is filled, by hand, from an earlier*)
(* campaign or by the parser of briefs, and submitted in two requests: the *)
(* rows of requests, each of which starts a pipeline, then the brief of    *)
(* the batch.  Any request may fail, or succeed and have its answer lost,  *)
(* and the user goes on working while one is under way.                    *)
(*                                                                         *)
(* Brief, product URL, goal and platform are one content, the text; blank  *)
(* stands for a form in which one of them is.                              *)
(***************************************************************************)
EXTENDS Naturals, FiniteSets

CONSTANTS
  Videos,       \* files the user may select
  Texts,        \* contents of the plain fields
  Fields,       \* the advanced fields
  Required,     \* the ones without which sub-checks are skipped
  Campaigns,    \* earlier batches of the user
  Saved,        \* Saved[k]: text and advanced fields stored for campaign k
  Blank, Typed, \* an empty content; what the user types into an advanced field
  None,         \* no campaign, no brief
  MaxActs       \* bound: steps of the user

Values    == Texts \cup {Blank, Typed}
Contents  == [text : Texts \cup {Blank}, advanced : [Fields -> Values]]

ASSUME SubmissionAssumption ==
  /\ Required \subseteq Fields
  /\ Blank \notin Texts /\ Typed \notin Texts /\ Blank # Typed
  /\ None \notin Campaigns /\ None \notin Contents
  /\ Saved \in [Campaigns -> Contents]
  /\ MaxActs \in Nat

VARIABLES
  videos,     \* videos[v]: its card on the page
  ids,        \* ids[v]: how many request_ids were minted for v; its own is the last
  mode,       \* tab of the form: "create" or "existing"
  text, advanced,   \* what the form holds
  edited,     \* advanced fields changed by hand
  aiFilled,   \* advanced fields filled by the parser
  lastParsed, \* the text parsed last
  parse,      \* the call of parse-creative-brief, with what its closure holds
  selected, selection, \* the campaign selected, and the count of selections
  fetches,    \* requests for campaign details, with their selection
  detailLoaded, campaignLoading, \* states of those names
  submit,     \* handleSubmit: where it is and what it submits
  requests,   \* rows of the batch
  brief,      \* row of parsed_creative_briefs
  started,    \* started[v]: jobs enqueued for video v
  withdrawn,  \* history: the review was deleted in another tab
  touched,    \* history: the form was changed after the campaign filled it
  acts        \* steps of the user

uploadVars == videos
formVars   == <<mode, text, advanced, edited, aiFilled, lastParsed, parse, selected,
                selection, fetches, detailLoaded, campaignLoading, touched>>
storedVars == <<requests, brief, started, withdrawn>>
vars == <<uploadVars, ids, formVars, submit, storedVars, acts>>

NoParse  == [at |-> "idle", text |-> Blank, edited |-> {}, aiFilled |-> {}]
NoSubmit == [at |-> "idle", videos |-> {}, text |-> Blank, advanced |-> [f \in Fields |-> Blank]]

\* The page is there until the submission navigates; what the user does is counted.
OnPage  == submit.at # "navigated"
UserAct == OnPage /\ acts < MaxActs /\ acts' = acts + 1

-----------------------------------------------------------------------------
(* UploadPage: the videos.                                                 *)

\* handleFilesSelected: a file that is too large is not uploaded.
SelectFile(v) ==
  /\ UserAct /\ videos[v] = "absent"
  /\ \E s \in {"uploading", "error"} : videos' = [videos EXCEPT ![v] = s]
  /\ UNCHANGED <<ids, formVars, submit, storedVars>>

UploadEnds(v) ==
  /\ OnPage /\ videos[v] = "uploading"
  /\ \E s \in {"done", "error"} : videos' = [videos EXCEPT ![v] = s]
  /\ UNCHANGED <<ids, formVars, submit, storedVars, acts>>

\* removeVideo: the card of a stored video stays until its object has been removed.
RemoveVideo(v) ==
  /\ UserAct /\ videos[v] \in {"uploading", "done", "error"}
  /\ videos' = [videos EXCEPT ![v] = IF @ = "done" THEN "removing" ELSE "removed"]
  /\ UNCHANGED <<ids, formVars, submit, storedVars>>

RemoveEnds(v) ==
  /\ OnPage /\ videos[v] = "removing"
  /\ videos' = [videos EXCEPT ![v] = "removed"]
  /\ UNCHANGED <<ids, formVars, submit, storedVars, acts>>

doneVideos == {v \in Videos : videos[v] \in {"done", "removing"}}

-----------------------------------------------------------------------------
(* The form by hand.                                                       *)

SetMode ==
  /\ UserAct
  /\ mode' = IF mode = "create" THEN "existing" ELSE "create"
  /\ UNCHANGED <<uploadVars, ids, text, advanced, edited, aiFilled, lastParsed, parse,
                 selected, selection, fetches, detailLoaded, campaignLoading, touched,
                 submit, storedVars>>

EditText(t) ==
  /\ UserAct /\ t # text
  /\ text' = t /\ touched' = TRUE
  /\ UNCHANGED <<uploadVars, ids, mode, advanced, edited, aiFilled, lastParsed, parse,
                 selected, selection, fetches, detailLoaded, campaignLoading, submit,
                 storedVars>>

\* The advanced fields can be changed at any time, also while a brief is parsed or a
\* submission is under way.
handleAdvancedChange(f, value) ==
  /\ UserAct /\ advanced[f] # value
  /\ advanced' = [advanced EXCEPT ![f] = value]
  /\ edited' = edited \cup {f}
  /\ touched' = TRUE
  /\ UNCHANGED <<uploadVars, ids, mode, text, aiFilled, lastParsed, parse, selected,
                 selection, fetches, detailLoaded, campaignLoading, submit, storedVars>>

handleAdvancedUndo(f) ==
  /\ UserAct /\ f \in aiFilled
  /\ advanced' = [advanced EXCEPT ![f] = Blank]
  /\ aiFilled' = aiFilled \ {f}
  /\ touched' = TRUE
  /\ UNCHANGED <<uploadVars, ids, mode, text, edited, lastParsed, parse, selected,
                 selection, fetches, detailLoaded, campaignLoading, submit, storedVars>>

-----------------------------------------------------------------------------
(* The form by the parser.                                                 *)

handleParseBrief ==
  /\ UserAct /\ parse.at = "idle" /\ text \notin {Blank, lastParsed}
  /\ parse' = [at |-> "asked", text |-> text, edited |-> edited, aiFilled |-> aiFilled]
  /\ UNCHANGED <<uploadVars, ids, mode, text, advanced, edited, aiFilled, lastParsed,
                 selected, selection, fetches, detailLoaded, campaignLoading, touched,
                 submit, storedVars>>

\* The answer, with a value for the fields in found: they are filled, except those that
\* had been edited when the call was made; and the fields that are marked as filled are
\* those of that moment and the new ones.
ParseAnswers(found) ==
  /\ OnPage /\ parse.at = "asked"
  /\ parse' = NoParse
  /\ lastParsed' = parse.text
  /\ LET filled == found \ parse.edited IN
     /\ advanced' = [f \in Fields |-> IF f \in filled THEN parse.text ELSE advanced[f]]
     /\ aiFilled' = parse.aiFilled \cup filled
  /\ touched' = TRUE
  /\ UNCHANGED <<uploadVars, ids, mode, text, edited, selected, selection, fetches,
                 detailLoaded, campaignLoading, submit, storedVars, acts>>

ParseFails ==
  /\ OnPage /\ parse.at = "asked"
  /\ parse' = NoParse
  /\ UNCHANGED <<uploadVars, ids, mode, text, advanced, edited, aiFilled, lastParsed,
                 selected, selection, fetches, detailLoaded, campaignLoading, touched,
                 submit, storedVars, acts>>

-----------------------------------------------------------------------------
(* The form by an earlier campaign.                                        *)

handleSelectCampaign(k) ==
  /\ UserAct /\ mode = "existing" /\ k # selected
  /\ selection' = selection + 1
  /\ selected' = k
  /\ fetches' = fetches \cup {[selection |-> selection + 1, campaign |-> k]}
  /\ campaignLoading' = TRUE
  /\ detailLoaded' = FALSE
  /\ UNCHANGED <<uploadVars, ids, mode, text, advanced, edited, aiFilled, lastParsed,
                 parse, touched, submit, storedVars>>

\* Mutant: an answer that is not about the last selection is used too.
DetailAnswers_AnySelection(x) ==
  /\ OnPage /\ x \in fetches
  /\ fetches' = fetches \ {x}
  /\ text' = Saved[x.campaign].text /\ lastParsed' = Saved[x.campaign].text
  /\ advanced' = Saved[x.campaign].advanced
  /\ edited' = {} /\ aiFilled' = {} /\ touched' = FALSE
  /\ detailLoaded' = TRUE /\ campaignLoading' = FALSE
  /\ UNCHANGED <<uploadVars, ids, mode, parse, selected, selection, submit, storedVars, acts>>

\* fetchCampaignDetail has answered; an answer to an earlier selection is dropped.
DetailAnswers(x) ==
  /\ OnPage /\ x \in fetches
  /\ fetches' = fetches \ {x}
  /\ IF x.selection = selection
     THEN /\ text' = Saved[x.campaign].text /\ lastParsed' = Saved[x.campaign].text
          /\ advanced' = Saved[x.campaign].advanced
          /\ edited' = {} /\ aiFilled' = {} /\ touched' = FALSE
          /\ detailLoaded' = TRUE /\ campaignLoading' = FALSE
     ELSE UNCHANGED <<text, lastParsed, advanced, edited, aiFilled, touched,
                      detailLoaded, campaignLoading>>
  /\ UNCHANGED <<uploadVars, ids, mode, parse, selected, selection, submit, storedVars, acts>>

DetailFails(x) ==
  /\ OnPage /\ x \in fetches
  /\ fetches' = fetches \ {x}
  /\ campaignLoading' = (campaignLoading /\ x.selection # selection)
  /\ UNCHANGED <<uploadVars, ids, mode, text, advanced, edited, aiFilled, lastParsed,
                 parse, selected, selection, detailLoaded, touched, submit, storedVars, acts>>

-----------------------------------------------------------------------------
(* The submission.                                                         *)

\* missingRequiredAdvanced and the rest of the conditions.
isFormValid ==
  /\ text # Blank
  /\ \A f \in Required : advanced[f] # Blank
  /\ mode = "existing" => selected # None /\ detailLoaded /\ ~campaignLoading
  /\ doneVideos # {}
  /\ \A v \in Videos : videos[v] # "uploading"

\* Mutant: every attempt mints.
Mint_EveryTime(v) == ids[v] + 1

\* A video keeps the request_id minted for it first.
Mint(v) == IF ids[v] = 0 THEN 1 ELSE ids[v]

handleSubmit ==
  /\ UserAct /\ isFormValid /\ submit.at = "idle" /\ parse.at = "idle"
  /\ ids' = [v \in Videos |-> IF v \in doneVideos THEN Mint(v) ELSE ids[v]]
  /\ submit' = [at |-> "requests", videos |-> doneVideos, text |-> text,
                advanced |-> advanced]
  /\ UNCHANGED <<uploadVars, formVars, storedVars>>

\* A request that the browser takes for failed, whether or not it was.
Fails == submit' = NoSubmit

RowsOf == {[video |-> v, id |-> ids[v], text |-> submit.text] : v \in submit.videos}

Known(r) == \E s \in requests : s.video = r.video /\ s.id = r.id

\* Mutant: one duplicate key and the insert skips all rows.
Fresh_AllOrNothing == IF \E r \in RowsOf : Known(r) THEN {} ELSE RowsOf

\* ON CONFLICT (request_id) DO NOTHING.
Fresh == {r \in RowsOf : ~Known(r)}

\* The insert is one transaction with its triggers: the review is made, and one job
\* is enqueued for each row that is new.
InsertRequests ==
  /\ submit.at = "requests"
  /\ requests' = requests \cup Fresh
  /\ started' = [v \in Videos |-> started[v] + Cardinality({r \in Fresh : r.video = v})]
  /\ (submit' = [submit EXCEPT !.at = "brief"]) \/ Fails
  /\ UNCHANGED <<uploadVars, ids, formVars, brief, withdrawn, acts>>

\* Mutant: the second request sends what the form holds by then.
UpsertBrief_LiveForm ==
  /\ submit.at = "brief" /\ requests # {}
  /\ brief' = [text |-> text, advanced |-> advanced]
  /\ (submit' = [submit EXCEPT !.at = "navigated"]) \/ Fails
  /\ UNCHANGED <<uploadVars, ids, formVars, requests, started, withdrawn, acts>>

\* ON CONFLICT (batch_id) DO UPDATE; the policy wants a row of requests first.
UpsertBrief ==
  /\ submit.at = "brief" /\ requests # {}
  /\ brief' = [text |-> submit.text, advanced |-> submit.advanced]
  /\ (submit' = [submit EXCEPT !.at = "navigated"]) \/ Fails
  /\ UNCHANGED <<uploadVars, ids, formVars, requests, started, withdrawn, acts>>

\* Nothing was stored.
RequestFails ==
  /\ submit.at \in {"requests", "brief"}
  /\ Fails
  /\ UNCHANGED <<uploadVars, ids, formVars, storedVars, acts>>

\* delete_review_request, from the page of reviews in another tab.
DeleteReview ==
  /\ UserAct /\ requests # {}
  /\ requests' = {} /\ brief' = None /\ withdrawn' = TRUE
  /\ UNCHANGED <<uploadVars, ids, formVars, submit, started>>

-----------------------------------------------------------------------------
Init ==
  /\ videos = [v \in Videos |-> "absent"]
  /\ ids = [v \in Videos |-> 0]
  /\ mode = "create"
  /\ text = Blank /\ advanced = [f \in Fields |-> Blank]
  /\ edited = {} /\ aiFilled = {} /\ lastParsed = Blank
  /\ parse = NoParse
  /\ selected = None /\ selection = 0 /\ fetches = {}
  /\ detailLoaded = FALSE /\ campaignLoading = FALSE
  /\ submit = NoSubmit
  /\ requests = {} /\ brief = None
  /\ started = [v \in Videos |-> 0]
  /\ withdrawn = FALSE /\ touched = FALSE
  /\ acts = 0

Next ==
  \/ \E v \in Videos : SelectFile(v) \/ UploadEnds(v) \/ RemoveVideo(v) \/ RemoveEnds(v)
  \/ SetMode
  \/ \E t \in Texts \cup {Blank} : EditText(t)
  \/ \E f \in Fields :
       \/ \E value \in {Blank, Typed} : handleAdvancedChange(f, value)
       \/ handleAdvancedUndo(f)
  \/ handleParseBrief \/ ParseFails
  \/ \E found \in SUBSET Fields : ParseAnswers(found)
  \/ \E k \in Campaigns : handleSelectCampaign(k)
  \/ \E x \in fetches : DetailAnswers(x) \/ DetailFails(x)
  \/ handleSubmit \/ InsertRequests \/ UpsertBrief \/ RequestFails \/ DeleteReview

Spec == Init /\ [][Next]_vars

-----------------------------------------------------------------------------
(* Properties.                                                             *)

TypeOK ==
  /\ videos \in [Videos -> {"absent", "uploading", "error", "done", "removing", "removed"}]
  /\ ids \in [Videos -> Nat]
  /\ mode \in {"create", "existing"}
  /\ text \in Texts \cup {Blank} /\ lastParsed \in Texts \cup {Blank}
  /\ advanced \in [Fields -> Values]
  /\ edited \subseteq Fields /\ aiFilled \subseteq Fields
  /\ parse \in [at : {"idle", "asked"}, text : Texts \cup {Blank},
                edited : SUBSET Fields, aiFilled : SUBSET Fields]
  /\ selected \in Campaigns \cup {None}
  /\ selection \in Nat
  /\ fetches \subseteq [selection : Nat, campaign : Campaigns]
  /\ detailLoaded \in BOOLEAN /\ campaignLoading \in BOOLEAN
  /\ submit \in [at : {"idle", "requests", "brief", "navigated"}, videos : SUBSET Videos,
                 text : Texts \cup {Blank}, advanced : [Fields -> Values]]
  /\ requests \subseteq [video : Videos, id : Nat, text : Texts \cup {Blank}]
  /\ brief \in Contents \cup {None}
  /\ started \in [Videos -> Nat]
  /\ withdrawn \in BOOLEAN /\ touched \in BOOLEAN
  /\ acts \in 0..MaxActs

\* However often a submission is retried, after failures before or behind the commit
\* and with more videos, each video has one row and starts one pipeline
\* (CampaignForm.tsx:345-357, 036_require_client_minted_request_id.sql:1-5).
OnePipelinePerVideo ==
  /\ \A r, s \in requests : r.video = s.video => r = s
  /\ ~withdrawn => \A v \in Videos : started[v] <= 1

\* Whoever comes to the results has every video of his last attempt under review and
\* the brief as he submitted it then (CampaignForm.tsx:353-357, 421-430).
SubmittedIsStored ==
  [][submit.at # "navigated" /\ submit'.at = "navigated" =>
       /\ ~withdrawn => \A v \in submit.videos : \E r \in requests' : r.video = v
       /\ brief' = [text |-> submit'.text, advanced |-> submit'.advanced]]_vars

\* The form shows the campaign that is selected and no earlier one, until somebody
\* changes it; and it can be submitted under a selection only when that is so
\* (CampaignForm.tsx:137-140, 209-211).
SelectionIsShown ==
  /\ detailLoaded /\ ~touched =>
       text = Saved[selected].text /\ advanced = Saved[selected].advanced
  /\ campaignLoading <=> \E x \in fetches : x.selection = selection

\* Nothing blank is ever stored that the form requires, whatever the user, the parser and
\* a campaign do to the form between the click and the second request, and however often
\* it is retried: a blank would not weaken a review, it would end all reviews of the batch
\* (CampaignForm.tsx:240-245), or leave sub-checks without an answer (:217-223).
NothingBlankIsStored ==
  /\ \A r \in requests : r.text # Blank
  /\ brief # None => brief.text # Blank /\ \A f \in Required : brief.advanced[f] # Blank
=============================================================================
