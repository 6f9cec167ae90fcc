---------------------------- MODULE MC_MediaQueue ----------------------------
(* Small instances of MediaQueue for TLC.                                   *)
EXTENDS MediaQueue, TLC

CONSTANTS w1, w2, transcription, ocr, context

AllSkippable == {transcription, ocr}
OcrSkippable == {ocr}
WorkerSymmetry == Permutations({w1, w2})

\* Every step that is one statement away from a read or from the end of the
\* heartbeat; at least 40 seconds of the lease are left then.
PromptAll == {"start", "exhausted", "archive", "delete", "fail", "retry"}
PromptStart == {"start"}
==============================================================================
