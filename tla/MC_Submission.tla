---------------------------- MODULE MC_Submission ---------------------------
(* Small instances of Submission for TLC.                                  *)
EXTENDS Submission, TLC

CONSTANTS v1, v2, f1, k1, k2, t1, t2

\* One earlier campaign was saved with its brief, the other without.
MC_Saved ==
  (k1 :> [text |-> t1, advanced |-> [f \in Fields |-> t1]]) @@
  (k2 :> [text |-> t2, advanced |-> [f \in Fields |-> Blank]])

VideoSymmetry == Permutations(Videos)
=============================================================================
