------------------------ MODULE MC_IssuesProjection -------------------------
(* Small instances of IssuesProjection for TLC.                            *)
EXTENDS IssuesProjection, TLC

CONSTANTS p1, p2

ProjectionSymmetry == Permutations({p1, p2})
=============================================================================
