--------------------------- MODULE MC_AssistantLoop ---------------------------
(* Instances of AssistantLoop for TLC. *)
EXTENDS AssistantLoop

OneStep == {1}
TwoSteps == {1, 2}

\* Two attempts for a step on its own; of two steps, only the last is retried.
TwoAttempts == [s \in Steps |-> 2]
LastStepRetries == [s \in Steps |-> IF s = 1 THEN 1 ELSE 2]

MediumRisk == [s \in Steps |-> "MEDIUM"]
NoHumanNeeded == [s \in Steps |-> FALSE]
LastNeedsHuman == [s \in Steps |-> s = 2]

Says(status, open) == [status |-> status, open |-> open]

\* One answer per outcome of decide_review, and a file that does not parse.
WellFormed == {Says("DONE", FALSE), Says("REVISE", FALSE), Says("BLOCKED", FALSE)}
AnyFile == {Says("DONE", FALSE), Says("FAILED", FALSE), Says("DONE", TRUE),
            Says(Malformed, FALSE)}

=============================================================================
