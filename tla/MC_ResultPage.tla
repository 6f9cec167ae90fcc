--------------------------- MODULE MC_ResultPage ----------------------------
(* Small instances of ResultPage for TLC, and the judgments over which the *)
(* functions of the scorecard are compared.                                *)
EXTENDS ResultPage

Passed    == [result |-> "true", severity |-> "none"]
Abstained == [result |-> "cannot_assess", severity |-> "none"]
Refused   == [result |-> "cannot_assess", severity |-> "cannot_assess"]
Failed(s) == [result |-> "false", severity |-> s]

Verdicts == {Passed, Abstained, Refused} \cup {Failed(s) : s \in FailureSeverities}

\* All metrics but two agree.
MC_Judgments ==
  {[m \in AtomicMetrics |-> IF m = a THEN v ELSE IF m = b THEN w ELSE f] :
     a, b \in AtomicMetrics, v, w \in Verdicts,
     f \in {Passed, Abstained, Failed("medium"), Failed("critical")}}

JudgedAlike(v) == [m \in AtomicMetrics |-> v]

\* The user comes from the review "a" and from a link to one that is not his.
MC_Batches   == {"a", "b"}
MC_Creatives == {"a1", "a2"}
MC_BatchOf   == [c \in MC_Creatives |-> "a"]
MC_JudgmentOf == [c \in MC_Creatives |-> JudgedAlike(Failed("critical"))]
=============================================================================
