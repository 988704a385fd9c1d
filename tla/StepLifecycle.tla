---------------------------- MODULE StepLifecycle ----------------------------
(***************************************************************************)
(* What the assistant promises about its plan, whatever the file channel,  *)
(* the worker, crashes and the operator do: the steps are worked strictly  *)
(* in number order, every move is an arc of the Step FSM, and the attempt  *)
(* number only grows, by a retry, within the step's budget.                *)
(* AssistantLoop is shown to implement this specification.                 *)
(***************************************************************************)
EXTENDS Naturals, Plan, StepFSM

VARIABLES
    state,    \* Step.state
    attempt   \* Step.attempt

vars == <<state, attempt>>

\* The events the loop emits, and those only a human emits.  ABORT is both:
\* the loop aborts a FAILED step out of attempts, a human aborts a halted one.
LoopEvent ==
    {"REQUEST_APPROVAL", "DISPATCH", "CLINE_START", "RECEIVE_REPORT", "FAIL",
     "START_REVIEW", "VERIFY", "REQUEST_REVISE", "BLOCK", "ABORT"}
HumanEvent == {"APPROVE", "REJECT", "UNBLOCK", "RESOLVE", "ABORT"}

\* The step is the lowest-numbered one that is not VERIFIED.
Current(s) ==
    /\ state[s] # "VERIFIED"
    /\ \A t \in Steps : t < s => state[t] = "VERIFIED"

Move(s, event) ==
    \E to \in StepState :
        /\ <<state[s], event, to>> \in STEP_TRANSITIONS
        /\ state' = [state EXCEPT ![s] = to]

Prepare(s) ==
    /\ Current(s)
    /\ Move(s, "PREPARE")
    /\ attempt' = [attempt EXCEPT ![s] = 1]

LoopMoves(s) ==
    /\ Current(s)
    /\ \E event \in LoopEvent :
          /\ event = "REQUEST_REVISE" => attempt[s] < MaxAttempts[s]
          /\ Move(s, event)
    /\ UNCHANGED attempt

Retry(s) ==
    /\ Current(s)
    /\ attempt[s] < MaxAttempts[s]
    /\ Move(s, "RETRY")
    /\ attempt' = [attempt EXCEPT ![s] = @ + 1]

HumanMoves(s) ==
    /\ \E event \in HumanEvent : Move(s, event)
    /\ UNCHANGED attempt

Init ==
    /\ state = [s \in Steps |-> "PENDING"]
    /\ attempt = [s \in Steps |-> 0]

Next == \E s \in Steps : Prepare(s) \/ LoopMoves(s) \/ Retry(s) \/ HumanMoves(s)

Spec == Init /\ [][Next]_vars

-----------------------------------------------------------------------------
\* Type correctness; an attempt number never exceeds the step's budget.
TypeOK ==
    /\ state \in [Steps -> StepState]
    /\ attempt \in [Steps -> Nat]
    /\ \A s \in Steps : attempt[s] <= MaxAttempts[s]

\* No step leaves PENDING before every lower-numbered step is VERIFIED
\* (Orchestrator._current: no later step can become current).
PlanOrder ==
    \A s, t \in Steps : t < s /\ state[s] # "PENDING" => state[t] = "VERIFIED"

\* A step in REVISE still has an attempt left, so the loop never waits in the
\* one state that neither it nor the human override can leave (RISK-007).
NoReviseDeadEnd ==
    \A s \in Steps : state[s] = "REVISE" => attempt[s] < MaxAttempts[s]

=============================================================================
