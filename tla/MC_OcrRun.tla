----------------------------- MODULE MC_OcrRun ------------------------------
(* Small instances of OcrRun for TLC.                                       *)
EXTENDS OcrRun

CONSTANTS w1, w2, f1, f2, a, b
=============================================================================
