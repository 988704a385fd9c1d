------------------------------ MODULE LoopPolicy ------------------------------
(***************************************************************************)
(* The two pure decisions of application/loop_policy.py: whether a step    *)
(* waits for a human before it is dispatched, and which review event a     *)
(* worker report maps to.                                                  *)
(***************************************************************************)
EXTENDS Naturals

Mode == {"MANUAL", "SUPERVISED", "AUTO"}
RiskLevel == {"LOW", "MEDIUM", "HIGH"}
ReportStatus == {"DONE", "REVISE", "BLOCKED", "FAILED"}

requires_approval(mode, risk, requires_human) ==
    \/ requires_human
    \/ mode = "MANUAL"
    \/ mode = "SUPERVISED" /\ risk # "LOW"
    \/ mode = "AUTO" /\ risk = "HIGH"

Mutant_decide_review(answer, attempt, max_attempts) ==
    CASE answer.open \/ answer.status = "BLOCKED"   -> "BLOCK"
      [] ~answer.open /\ answer.status = "DONE"     -> "VERIFY"
      [] ~answer.open /\ answer.status \in {"REVISE", "FAILED"} -> "REQUEST_REVISE"

\* answer.open abstracts "the report lists architecture questions or issues".
decide_review(answer, attempt, max_attempts) ==
    CASE answer.open \/ answer.status = "BLOCKED"   -> "BLOCK"
      [] ~answer.open /\ answer.status = "DONE"     -> "VERIFY"
      [] ~answer.open /\ answer.status \in {"REVISE", "FAILED"} ->
            IF attempt < max_attempts THEN "REQUEST_REVISE" ELSE "BLOCK"

=============================================================================
