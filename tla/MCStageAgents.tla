----------------------------- MODULE MCStageAgents -----------------------------
(* Instances of StageAgents for TLC. *)
EXTENDS StageAgents

\* One slot is used again after its first turn, so that a result may wait while
\* the next turn runs.
OneAgain == [s \in Slots |-> IF s = "one" THEN 2 ELSE 1]
=============================================================================
