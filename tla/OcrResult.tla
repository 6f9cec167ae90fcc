----------------------------- MODULE OcrResult -----------------------------
(***************************************************************************)
(* What an OCR Run promises its readers: one result, stored once and never *)
(* replaced, and a task status that says 'success' only over such a result.*)
(***************************************************************************)
CONSTANTS Results, NoResult
VARIABLES result, announced

Init == result = NoResult /\ announced = FALSE

Store ==
  /\ result = NoResult
  /\ result' \in Results
  /\ UNCHANGED announced

Announce ==
  /\ result # NoResult
  /\ announced' = TRUE
  /\ UNCHANGED result

\* Another delivery marks the task 'processing' or 'error' again.
Withdraw ==
  /\ announced' = FALSE
  /\ UNCHANGED result

Next == Store \/ Announce \/ Withdraw

Spec == Init /\ [][Next]_<<result, announced>>
=============================================================================
