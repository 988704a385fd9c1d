------------------------ MODULE StepLifecycle_proofs ------------------------
(* Proofs about StepLifecycle, for every plan and every attempt budget. *)
EXTENDS StepLifecycle, TLAPS

-----------------------------------------------------------------------------
(* What an arc of the Step FSM can be.                                     *)

\* The terminal states are left by no event (STEP_TERMINAL_STATES).
LEMMA TerminalIsFinal ==
    ASSUME NEW from, NEW event, NEW to,
           <<from, event, to>> \in STEP_TRANSITIONS
    PROVE  from \notin STEP_TERMINAL_STATES
BY DEF STEP_TRANSITIONS, STEP_TERMINAL_STATES

\* PENDING is left only by PREPARE, towards READY, and never entered again.
LEMMA OnlyPrepareStarts ==
    ASSUME NEW from, NEW event, NEW to,
           <<from, event, to>> \in STEP_TRANSITIONS
    PROVE  /\ from = "PENDING" <=> event = "PREPARE"
           /\ to # "PENDING"
BY DEF STEP_TRANSITIONS

\* REVISE is entered only by REQUEST_REVISE and left only by RETRY.
LEMMA OnlyReviewRevises ==
    ASSUME NEW from, NEW event, NEW to,
           <<from, event, to>> \in STEP_TRANSITIONS
    PROVE  /\ to = "REVISE" <=> event = "REQUEST_REVISE"
           /\ from = "REVISE" => event = "RETRY"
BY DEF STEP_TRANSITIONS

-----------------------------------------------------------------------------
(* One move, on its own.                                                   *)

\* A move changes one step's state, along an arc.
LEMMA MoveIsAnArc ==
    ASSUME TypeOK, NEW s \in Steps, NEW event, Move(s, event)
    PROVE  /\ state' \in [Steps -> StepState]
           /\ <<state[s], event, state'[s]>> \in STEP_TRANSITIONS
           /\ \A t \in Steps : t # s => state'[t] = state[t]
BY DEF TypeOK, Move

\* Whoever moves a step, no later step gets ahead of an unverified one, as
\* long as only the current step is prepared.
LEMMA MoveKeepsPlanOrder ==
    ASSUME TypeOK, PlanOrder, NEW s \in Steps, NEW event, Move(s, event),
           event = "PREPARE" => Current(s)
    PROVE  PlanOrder'
<1>1. /\ <<state[s], event, state'[s]>> \in STEP_TRANSITIONS
      /\ \A t \in Steps : t # s => state'[t] = state[t]
  BY MoveIsAnArc
<1>2. state[s] # "VERIFIED"
  BY <1>1, TerminalIsFinal DEF STEP_TERMINAL_STATES
<1>3. \A t \in Steps : t < s => state[t] = "VERIFIED"
  <2>1. CASE state[s] = "PENDING"
    BY <2>1, <1>1, OnlyPrepareStarts DEF Current
  <2>2. CASE state[s] # "PENDING"
    BY <2>2 DEF PlanOrder
  <2>3. QED BY <2>1, <2>2
<1>4. SUFFICES ASSUME NEW u \in Steps, NEW t \in Steps, t < u, state'[u] # "PENDING"
               PROVE  state'[t] = "VERIFIED"
  BY DEF PlanOrder
<1>5. t < u => t # u
  BY StepsAreNumbered
<1>6. CASE u = s
  BY <1>1, <1>3, <1>4, <1>5, <1>6
<1>7. CASE u # s
  <2>1. state[t] = "VERIFIED"
    BY <1>1, <1>4, <1>7 DEF PlanOrder
  <2>2. QED BY <2>1, <1>1, <1>2
<1>8. QED BY <1>6, <1>7

-----------------------------------------------------------------------------
\* The inductive invariant: each part needs only itself and the types.
IInv == TypeOK /\ PlanOrder /\ NoReviseDeadEnd

LEMMA InitEstablishes == Init => IInv
BY StepsAreNumbered, BudgetsArePositive
   DEF Init, IInv, TypeOK, PlanOrder, NoReviseDeadEnd, StepState

LEMMA PrepareKeeps ==
    ASSUME IInv, NEW s \in Steps, Prepare(s)
    PROVE  IInv'
<1>1. /\ state' \in [Steps -> StepState]
      /\ <<state[s], "PREPARE", state'[s]>> \in STEP_TRANSITIONS
      /\ \A t \in Steps : t # s => state'[t] = state[t]
  BY MoveIsAnArc DEF IInv, Prepare
<1>2. TypeOK'
  <2>1. /\ attempt' \in [Steps -> Nat]
        /\ attempt'[s] = 1
        /\ \A t \in Steps : t # s => attempt'[t] = attempt[t]
    BY DEF IInv, TypeOK, Prepare
  <2>2. 1 <= MaxAttempts[s]
    BY BudgetsArePositive
  <2>3. QED BY <1>1, <2>1, <2>2 DEF IInv, TypeOK
<1>3. PlanOrder'
  BY MoveKeepsPlanOrder DEF IInv, Prepare
<1>4. NoReviseDeadEnd'
  BY <1>1, OnlyReviewRevises DEF IInv, TypeOK, NoReviseDeadEnd, Prepare
<1>5. QED BY <1>2, <1>3, <1>4 DEF IInv

LEMMA LoopMovesKeeps ==
    ASSUME IInv, NEW s \in Steps, LoopMoves(s)
    PROVE  IInv'
<1>1. PICK event \in LoopEvent :
          /\ event = "REQUEST_REVISE" => attempt[s] < MaxAttempts[s]
          /\ Move(s, event)
  BY DEF LoopMoves
<1>2. /\ state' \in [Steps -> StepState]
      /\ <<state[s], event, state'[s]>> \in STEP_TRANSITIONS
      /\ \A t \in Steps : t # s => state'[t] = state[t]
  BY <1>1, MoveIsAnArc DEF IInv
<1>3. TypeOK'
  BY <1>2 DEF IInv, TypeOK, LoopMoves
<1>4. PlanOrder'
  BY <1>1, MoveKeepsPlanOrder DEF IInv, LoopMoves
<1>5. NoReviseDeadEnd'
  BY <1>1, <1>2, OnlyReviewRevises DEF IInv, NoReviseDeadEnd, LoopMoves
<1>6. QED BY <1>3, <1>4, <1>5 DEF IInv

LEMMA RetryKeeps ==
    ASSUME IInv, NEW s \in Steps, Retry(s)
    PROVE  IInv'
<1>1. /\ state' \in [Steps -> StepState]
      /\ <<state[s], "RETRY", state'[s]>> \in STEP_TRANSITIONS
      /\ \A t \in Steps : t # s => state'[t] = state[t]
  BY MoveIsAnArc DEF IInv, Retry
<1>2. TypeOK'
  <2>1. /\ attempt' \in [Steps -> Nat]
        /\ attempt'[s] = attempt[s] + 1
        /\ \A t \in Steps : t # s => attempt'[t] = attempt[t]
    BY DEF IInv, TypeOK, Retry
  <2>2. attempt[s] + 1 <= MaxAttempts[s]
    <3>1. attempt[s] \in Nat /\ MaxAttempts[s] \in Nat
      BY BudgetsArePositive DEF IInv, TypeOK
    <3>2. attempt[s] < MaxAttempts[s]
      BY DEF Retry
    <3>3. QED BY <3>1, <3>2
  <2>3. QED BY <1>1, <2>1, <2>2 DEF IInv, TypeOK
<1>3. PlanOrder'
  BY MoveKeepsPlanOrder DEF IInv, Retry
<1>4. NoReviseDeadEnd'
  BY <1>1, OnlyReviewRevises DEF IInv, TypeOK, NoReviseDeadEnd, Retry
<1>5. QED BY <1>2, <1>3, <1>4 DEF IInv

LEMMA HumanMovesKeeps ==
    ASSUME IInv, NEW s \in Steps, HumanMoves(s)
    PROVE  IInv'
<1>1. PICK event \in HumanEvent : Move(s, event)
  BY DEF HumanMoves
<1>2. /\ state' \in [Steps -> StepState]
      /\ <<state[s], event, state'[s]>> \in STEP_TRANSITIONS
      /\ \A t \in Steps : t # s => state'[t] = state[t]
  BY <1>1, MoveIsAnArc DEF IInv
<1>3. event \notin {"PREPARE", "REQUEST_REVISE"}
  BY DEF HumanEvent
<1>4. TypeOK'
  BY <1>2 DEF IInv, TypeOK, HumanMoves
<1>5. PlanOrder'
  BY <1>1, <1>3, MoveKeepsPlanOrder DEF IInv
<1>6. NoReviseDeadEnd'
  BY <1>2, <1>3, OnlyReviewRevises DEF IInv, NoReviseDeadEnd, HumanMoves
<1>7. QED BY <1>4, <1>5, <1>6 DEF IInv

LEMMA IInvHolds == Spec => []IInv
<1>1. Init => IInv
  BY InitEstablishes
<1>2. IInv /\ [Next]_vars => IInv'
  <2>1. SUFFICES ASSUME IInv, [Next]_vars PROVE IInv'
    OBVIOUS
  <2>2. CASE Next
    BY <2>1, <2>2, PrepareKeeps, LoopMovesKeeps, RetryKeeps, HumanMovesKeeps DEF Next
  <2>3. CASE UNCHANGED vars
    BY <2>1, <2>3 DEF IInv, TypeOK, PlanOrder, NoReviseDeadEnd, vars
  <2>4. QED BY <2>1, <2>2, <2>3
<1>3. QED BY <1>1, <1>2, PTL DEF Spec

\* Type correctness: the attempt of a step stays within its budget.
THEOREM TypeCorrect == Spec => []TypeOK
BY IInvHolds, PTL DEF IInv

\* No step starts before every lower-numbered step is VERIFIED.
THEOREM PlanOrderHolds == Spec => []PlanOrder
BY IInvHolds, PTL DEF IInv

\* A step in REVISE can still be retried: the dead end is out of reach.
THEOREM NoDeadEnd == Spec => []NoReviseDeadEnd
BY IInvHolds, PTL DEF IInv

=============================================================================
