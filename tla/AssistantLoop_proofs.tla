------------------------ MODULE AssistantLoop_proofs ------------------------
(* Proofs about AssistantLoop, for every plan, every attempt budget, every  *)
(* set of worker answers and every choice of faults.                        *)
EXTENDS AssistantLoop, TLAPS

-----------------------------------------------------------------------------
(* The Step FSM, the Task FSM and the two policies.                        *)

\* Where each event leads from, and where to.
LEMMA Arcs ==
    ASSUME NEW from, NEW event, NEW to,
           <<from, event, to>> \in STEP_TRANSITIONS
    PROVE  /\ from \notin STEP_TERMINAL_STATES
           /\ event = "PREPARE" <=> from = "PENDING"
           /\ event = "PREPARE" => to = "READY"
           /\ event = "REQUEST_APPROVAL" => from = "READY" /\ to = "WAITING_APPROVAL"
           /\ event = "DISPATCH" => from = "READY" /\ to = "DISPATCHED"
           /\ event = "APPROVE" => from = "WAITING_APPROVAL" /\ to = "DISPATCHED"
           /\ event = "REJECT" => from = "WAITING_APPROVAL" /\ to = "READY"
           /\ event = "CLINE_START" => from = "DISPATCHED" /\ to = "CLINE_WORKING"
           /\ event = "RECEIVE_REPORT" => from \in WithWorker /\ to = "REPORT_RECEIVED"
           /\ event = "FAIL" => from \in WithWorker /\ to = "FAILED"
           /\ event = "START_REVIEW" => from = "REPORT_RECEIVED" /\ to = "REVIEWING"
           /\ event = "VERIFY" => from = "REVIEWING" /\ to = "VERIFIED"
           /\ event = "REQUEST_REVISE" => from = "REVIEWING" /\ to = "REVISE"
           /\ event = "BLOCK" => to = "BLOCKED"
           /\ event = "RETRY" => from \in {"REVISE", "FAILED"} /\ to = "READY"
           /\ event = "UNBLOCK" => from = "BLOCKED" /\ to = "READY"
           /\ event = "RESOLVE" => from = "CONFLICT" /\ to = "READY"
           /\ event = "ABORT" => to = "ABORTED"
BY DEF STEP_TRANSITIONS, STEP_TERMINAL_STATES, WithWorker

\* A dispatched Task row records the report or the failure; no event leads
\* out of the Task states.
LEMMA TaskAdvances ==
    /\ AdvanceTask("CREATED", "DISPATCH") = "DISPATCHED"
    /\ AdvanceTask("DISPATCHED", "RECEIVE_REPORT") = "REPORTED"
    /\ AdvanceTask("DISPATCHED", "FAIL") = "FAILED"
<1>1. <<"CREATED", "DISPATCH", "DISPATCHED">> \in TASK_TRANSITIONS
      /\ \A to \in TaskState : <<"CREATED", "DISPATCH", to>> \in TASK_TRANSITIONS => to = "DISPATCHED"
  BY DEF TASK_TRANSITIONS
<1>2. <<"DISPATCHED", "RECEIVE_REPORT", "REPORTED">> \in TASK_TRANSITIONS
      /\ \A to \in TaskState : <<"DISPATCHED", "RECEIVE_REPORT", to>> \in TASK_TRANSITIONS => to = "REPORTED"
  BY DEF TASK_TRANSITIONS
<1>3. <<"DISPATCHED", "FAIL", "FAILED">> \in TASK_TRANSITIONS
      /\ \A to \in TaskState : <<"DISPATCHED", "FAIL", to>> \in TASK_TRANSITIONS => to = "FAILED"
  BY DEF TASK_TRANSITIONS
<1>4. {"DISPATCHED", "REPORTED", "FAILED"} \subseteq TaskState
  BY DEF TaskState
<1>5. QED BY <1>1, <1>2, <1>3, <1>4 DEF AdvanceTask

\* Every review event is one _review may commit, and a revision is requested
\* only while an attempt is left.
LEMMA ReviewEvents ==
    ASSUME NEW answer, answer.status \in ReportStatus, answer.open \in BOOLEAN,
           NEW n \in Nat, NEW max \in Nat
    PROVE  /\ decide_review(answer, n, max) \in {"VERIFY", "BLOCK", "REQUEST_REVISE"}
           /\ decide_review(answer, n, max) = "REQUEST_REVISE" => n < max
BY DEF decide_review, ReportStatus

\* The keys of a plan: one per step and per attempt of its budget.
LEMMA Keys ==
    ASSUME NEW s \in Steps, NEW n \in Nat, 1 <= n, n <= MaxAttempts[s]
    PROVE  <<s, n>> \in TaskKey
BY BudgetsArePositive DEF TaskKey

LEMMA KeyParts ==
    ASSUME NEW k \in TaskKey
    PROVE  /\ k = <<k[1], k[2]>>
           /\ k[1] \in Steps
           /\ k[2] \in Nat
           /\ 1 <= k[2]
           /\ k[2] <= MaxAttempts[k[1]]
BY BudgetsArePositive DEF TaskKey

\* One persisted step row: its state moves along an arc, no other row changes.
LEMMA WriteStepIsAnArc ==
    ASSUME state \in [Steps -> StepState], overdue \in [Steps -> BOOLEAN],
           NEW s \in Steps, NEW event, WriteStep(s, event)
    PROVE  /\ state' \in [Steps -> StepState]
           /\ overdue' \in [Steps -> BOOLEAN]
           /\ <<state[s], event, state'[s]>> \in STEP_TRANSITIONS
           /\ \A t \in Steps : t # s => state'[t] = state[t]
BY DEF WriteStep

-----------------------------------------------------------------------------
(* The inductive invariant, by step and by key.                            *)

StepOK(s) ==
    /\ attempt[s] = 0 <=> state[s] = "PENDING"
    /\ state[s] \in WithWorker =>
          Key(s) \in taskFiles /\ Key(s) \in contexts /\ tasks[Key(s)] = "DISPATCHED"
    /\ state[s] \in {"REPORT_RECEIVED", "REVIEWING"} => reports[Key(s)] # Absent
    /\ state[s] \in {"REPORT_RECEIVED", "REVIEWING", "REVISE", "BLOCKED", "VERIFIED"}
          => tasks[Key(s)] = "REPORTED"
    /\ state[s] = "FAILED" => tasks[Key(s)] = "FAILED"
    /\ state[s] = "VERIFIED" => verdict[Key(s)] = "ACCEPTED"
    /\ state[s] = "REVISE" => attempt[s] < MaxAttempts[s]

KeyOK(k) ==
    /\ k \in taskFiles => k \in contexts
    /\ k[2] < attempt[k[1]] => tasks[k] \in {"REPORTED", "FAILED"}
    /\ k[2] > attempt[k[1]] =>
          /\ tasks[k] = "NONE"
          /\ verdict[k] = "NONE"
          /\ k \notin taskFiles
          /\ worker[k] = "none"
          /\ reports[k] = Absent

IInv ==
    /\ TypeOK
    /\ PlanOrder
    /\ NothingReadIsStale
    /\ \A s \in Steps : StepOK(s)
    /\ \A k \in TaskKey : KeyOK(k)

\* The half of VerifiedExactlyByGate that follows from the invariant alone.
VerifiedHasVerdict ==
    \A s \in Steps : state[s] = "VERIFIED" => verdict[Key(s)] = "ACCEPTED"

\* The invariant is the conjunction of the properties the runs check.
LEMMA IInvImplies ==
    ASSUME IInv
    PROVE  /\ DispatchIsPublished
           /\ TaskHasContext
           /\ ReportKept
           /\ RowFollowsStep
           /\ VerifiedHasVerdict
           /\ AttemptHistory
           /\ NoReviseDeadEnd
<1>1. DispatchIsPublished /\ ReportKept /\ VerifiedHasVerdict
  BY DEF IInv, StepOK, DispatchIsPublished, ReportKept, VerifiedHasVerdict
<1>2. RowFollowsStep
  BY DEF IInv, StepOK, RowFollowsStep, WithWorker
<1>3. NoReviseDeadEnd
  BY DEF IInv, StepOK, NoReviseDeadEnd, CanRetry
<1>4. TaskHasContext
  BY DEF IInv, KeyOK, TypeOK, TaskHasContext
<1>5. AttemptHistory
  BY DEF IInv, StepOK, KeyOK, AttemptHistory
<1>6. QED BY <1>1, <1>2, <1>3, <1>4, <1>5

\* From its preparation on, a step names a key of the plan.
LEMMA KeyOfStarted ==
    ASSUME IInv, NEW s \in Steps, state[s] # "PENDING"
    PROVE  /\ attempt[s] \in Nat
           /\ attempt[s] # 0
           /\ MaxAttempts[s] \in Nat
           /\ attempt[s] <= MaxAttempts[s]
           /\ Key(s) \in TaskKey
           /\ DispatchKey(s) = Key(s)
<1>1. /\ attempt[s] \in Nat
      /\ MaxAttempts[s] \in Nat
      /\ attempt[s] <= MaxAttempts[s]
  BY BudgetsArePositive DEF IInv, TypeOK
<1>2. attempt[s] # 0
  BY DEF IInv, StepOK
<1>3. Key(s) \in TaskKey
  BY <1>1, <1>2, Keys DEF Key
<1>4. DispatchKey(s) = Key(s)
  BY <1>2 DEF DispatchKey, Key, AtLeastOne
<1>5. QED BY <1>1, <1>2, <1>3, <1>4

\* Only the rows, files and duties of step s may differ.
TouchesOnly(s) ==
    /\ \A t \in Steps : t # s => state'[t] = state[t] /\ attempt'[t] = attempt[t]
    /\ \A k \in TaskKey : k[1] # s =>
          /\ tasks'[k] = tasks[k]
          /\ verdict'[k] = verdict[k]
          /\ reports'[k] = reports[k]
          /\ worker'[k] = worker[k]
          /\ k \in taskFiles' <=> k \in taskFiles
          /\ k \in contexts' <=> k \in contexts

LEMMA OthersKeep ==
    ASSUME IInv, NEW s \in Steps, TouchesOnly(s)
    PROVE  /\ \A t \in Steps : t # s => StepOK(t)'
           /\ \A k \in TaskKey : k[1] # s => KeyOK(k)'
<1>1. ASSUME NEW t \in Steps, t # s
      PROVE  StepOK(t)'
  <2>1. state'[t] = state[t] /\ attempt'[t] = attempt[t] /\ Key(t)' = Key(t)
    BY <1>1 DEF TouchesOnly, Key
  <2>2. StepOK(t)
    BY DEF IInv
  <2>3. CASE state[t] = "PENDING"
    BY <2>1, <2>2, <2>3 DEF StepOK, WithWorker
  <2>4. CASE state[t] # "PENDING"
    <3>1. Key(t) \in TaskKey /\ Key(t)[1] = t
      BY <2>4, KeyOfStarted DEF Key
    <3>2. /\ tasks'[Key(t)] = tasks[Key(t)]
          /\ verdict'[Key(t)] = verdict[Key(t)]
          /\ reports'[Key(t)] = reports[Key(t)]
          /\ Key(t) \in taskFiles' <=> Key(t) \in taskFiles
          /\ Key(t) \in contexts' <=> Key(t) \in contexts
      BY <1>1, <3>1 DEF TouchesOnly
    <3>3. QED BY <2>1, <2>2, <3>2 DEF StepOK
  <2>5. QED BY <2>3, <2>4
<1>2. ASSUME NEW k \in TaskKey, k[1] # s
      PROVE  KeyOK(k)'
  <2>1. k[1] \in Steps
    BY KeyParts
  <2>2. KeyOK(k)
    BY DEF IInv
  <2>3. QED BY <1>2, <2>1, <2>2 DEF TouchesOnly, KeyOK
<1>3. QED BY <1>1, <1>2

\* Whoever moves a step, no later step gets ahead of an unverified one, as
\* long as only the current step is prepared.
LEMMA WriteStepKeepsPlanOrder ==
    ASSUME TypeOK, PlanOrder, NEW s \in Steps, NEW event, WriteStep(s, event),
           event = "PREPARE" => Current(s)
    PROVE  PlanOrder'
<1>1. /\ <<state[s], event, state'[s]>> \in STEP_TRANSITIONS
      /\ \A t \in Steps : t # s => state'[t] = state[t]
  BY WriteStepIsAnArc DEF TypeOK
<1>2. state[s] # "VERIFIED" /\ (state[s] = "PENDING" => event = "PREPARE")
  BY <1>1, Arcs DEF STEP_TERMINAL_STATES
<1>3. \A t \in Steps : t < s => state[t] = "VERIFIED"
  <2>1. CASE state[s] = "PENDING"
    BY <2>1, <1>2 DEF Current
  <2>2. CASE state[s] # "PENDING"
    BY <2>2 DEF PlanOrder
  <2>3. QED BY <2>1, <2>2
<1>4. SUFFICES ASSUME NEW u \in Steps, NEW t \in Steps, t < u, state'[u] # "PENDING"
               PROVE  state'[t] = "VERIFIED"
  BY DEF PlanOrder
<1>5. t < u => t # u
  BY StepsAreNumbered
<1>6. CASE u = s
  BY <1>1, <1>3, <1>4, <1>5, <1>6
<1>7. CASE u # s
  <2>1. state[t] = "VERIFIED"
    BY <1>1, <1>4, <1>7 DEF PlanOrder
  <2>2. QED BY <2>1, <1>1, <1>2
<1>8. QED BY <1>6, <1>7

-----------------------------------------------------------------------------
(* Operations that write one step row and nothing else.                    *)

\* Which moves keep the invariant: the arc must lead to a state that asks for
\* no more than the one it leaves.
LEMMA RowOnlyKeeps ==
    ASSUME IInv, NEW s \in Steps, NEW event, WriteStep(s, event),
           op = Idle,
           event \in {"REQUEST_APPROVAL", "REJECT", "UNBLOCK", "RESOLVE", "ABORT",
                      "START_REVIEW"},
           UNCHANGED <<mode, paused, attempt, tasks, verdict, findings, channel, op>>
    PROVE  IInv'
<1>1. /\ state' \in [Steps -> StepState]
      /\ overdue' \in [Steps -> BOOLEAN]
      /\ <<state[s], event, state'[s]>> \in STEP_TRANSITIONS
      /\ \A t \in Steps : t # s => state'[t] = state[t]
  BY WriteStepIsAnArc DEF IInv, TypeOK
<1>2. /\ state[s] # "PENDING"
      /\ state'[s] \in {"READY", "WAITING_APPROVAL", "ABORTED", "REVIEWING"}
      /\ state'[s] = "REVIEWING" => state[s] = "REPORT_RECEIVED"
  BY <1>1, Arcs
<1>3. TypeOK'
  BY <1>1 DEF IInv, TypeOK, channel
<1>4. PlanOrder'
  BY WriteStepKeepsPlanOrder DEF IInv
<1>5. NothingReadIsStale'
  BY DEF IInv, NothingReadIsStale, Idle
<1>6. TouchesOnly(s)
  BY <1>1 DEF TouchesOnly, channel
<1>7. StepOK(s)'
  <2>1. StepOK(s)
    BY DEF IInv
  <2>2. Key(s)' = Key(s)
    BY DEF Key
  <2>3. QED BY <1>2, <2>1, <2>2 DEF StepOK, WithWorker, channel
<1>8. ASSUME NEW k \in TaskKey, k[1] = s
      PROVE  KeyOK(k)'
  <2>1. KeyOK(k)
    BY DEF IInv
  <2>2. QED BY <2>1 DEF KeyOK, channel
<1>9. QED BY <1>3, <1>4, <1>5, <1>6, <1>7, <1>8, OthersKeep DEF IInv

LEMMA RequestApprovalKeeps ==
    ASSUME IInv, NEW s \in Steps, RequestApproval(s)
    PROVE  IInv'
BY RowOnlyKeeps DEF RequestApproval, Tick

LEMMA StartReviewKeeps ==
    ASSUME IInv, NEW s \in Steps, StartReview(s)
    PROVE  IInv'
BY RowOnlyKeeps DEF StartReview, Tick

LEMMA AbortExhaustedKeeps ==
    ASSUME IInv, NEW s \in Steps, AbortExhausted(s)
    PROVE  IInv'
BY RowOnlyKeeps DEF AbortExhausted, Tick

LEMMA RejectKeeps ==
    ASSUME IInv, NEW s \in Steps, Reject(s)
    PROVE  IInv'
BY RowOnlyKeeps DEF Reject

LEMMA StepCommandKeeps ==
    ASSUME IInv, NEW s \in Steps, StepCommand(s)
    PROVE  IInv'
<1>1. PICK event \in {"UNBLOCK", "RESOLVE", "ABORT"} : WriteStep(s, event)
  BY DEF StepCommand
<1>2. QED BY <1>1, RowOnlyKeeps DEF StepCommand

LEMMA PrepareKeeps ==
    ASSUME IInv, NEW s \in Steps, Prepare(s)
    PROVE  IInv'
<1>1. /\ state' \in [Steps -> StepState]
      /\ overdue' \in [Steps -> BOOLEAN]
      /\ <<state[s], "PREPARE", state'[s]>> \in STEP_TRANSITIONS
      /\ \A t \in Steps : t # s => state'[t] = state[t]
  BY WriteStepIsAnArc DEF IInv, TypeOK, Prepare
<1>2. state[s] = "PENDING" /\ state'[s] = "READY"
  BY <1>1, Arcs
<1>3. attempt[s] = 0
  BY <1>2 DEF IInv, StepOK
<1>4. /\ attempt' \in [Steps -> Nat]
      /\ attempt'[s] = 1
      /\ \A t \in Steps : t # s => attempt'[t] = attempt[t]
  BY <1>3 DEF IInv, TypeOK, Prepare, AtLeastOne
<1>5. TypeOK'
  <2>1. 1 <= MaxAttempts[s]
    BY BudgetsArePositive
  <2>2. \A t \in Steps : attempt'[t] <= MaxAttempts[t]
    BY <1>4, <2>1 DEF IInv, TypeOK
  <2>3. QED BY <1>1, <1>4, <2>2 DEF IInv, TypeOK, Prepare, channel
<1>6. PlanOrder'
  BY WriteStepKeepsPlanOrder DEF IInv, Prepare, Tick
<1>7. NothingReadIsStale'
  BY DEF IInv, NothingReadIsStale, Idle, Prepare, Tick
<1>8. TouchesOnly(s)
  BY <1>1, <1>4 DEF TouchesOnly, Prepare, channel
<1>9. StepOK(s)'
  BY <1>2, <1>4 DEF StepOK, WithWorker
<1>10. ASSUME NEW k \in TaskKey, k[1] = s
       PROVE  KeyOK(k)'
  <2>1. KeyOK(k) /\ k[2] > attempt[s]
    BY <1>3, <1>10, KeyParts DEF IInv
  <2>2. ~(k[2] < attempt'[s])
    BY <1>4, KeyParts
  <2>3. QED BY <1>10, <2>1, <2>2 DEF KeyOK, Prepare, channel
<1>11. QED BY <1>5, <1>6, <1>7, <1>8, <1>9, <1>10, OthersKeep DEF IInv

-----------------------------------------------------------------------------
(* Publication.                                                            *)

LEMMA PublishContextKeeps ==
    ASSUME IInv, NEW s \in Steps, NEW event, PublishContext(s, event),
           \/ state[s] = "READY" /\ event = "DISPATCH"
           \/ state[s] = "WAITING_APPROVAL" /\ event = "APPROVE"
    PROVE  IInv'
<1>1. Key(s) \in TaskKey /\ DispatchKey(s) = Key(s) /\ Key(s) = <<s, attempt[s]>>
  BY KeyOfStarted DEF Key
<1>2. /\ contexts' = contexts \cup {Key(s)}
      /\ op' = [phase |-> "context", step |-> s, event |-> event]
  BY <1>1 DEF PublishContext, InFlight
<1>3. op' \in Operation
  BY <1>2, StepsAreNumbered DEF Operation, StepEvent
<1>4. TypeOK'
  BY <1>1, <1>2, <1>3 DEF IInv, TypeOK, PublishContext, database
<1>5. PlanOrder'
  BY DEF IInv, PlanOrder, PublishContext, database
<1>6. NothingReadIsStale'
  BY <1>1, <1>2 DEF NothingReadIsStale, PublishContext, database, Idle, Key
<1>7. TouchesOnly(s)
  BY <1>1, <1>2 DEF TouchesOnly, PublishContext, database
<1>8. StepOK(s)'
  <2>1. StepOK(s)
    BY DEF IInv
  <2>2. QED BY <2>1, <1>2 DEF StepOK, PublishContext, database, Key
<1>9. ASSUME NEW k \in TaskKey, k[1] = s
      PROVE  KeyOK(k)'
  <2>1. KeyOK(k)
    BY DEF IInv
  <2>2. QED BY <2>1, <1>2 DEF KeyOK, PublishContext, database
<1>10. QED BY <1>4, <1>5, <1>6, <1>7, <1>8, <1>9, OthersKeep DEF IInv

LEMMA BeginDispatchKeeps ==
    ASSUME IInv, NEW s \in Steps, BeginDispatch(s)
    PROVE  IInv'
BY PublishContextKeeps DEF BeginDispatch

LEMMA ApproveKeeps ==
    ASSUME IInv, NEW s \in Steps, Approve(s)
    PROVE  IInv'
BY PublishContextKeeps DEF Approve

LEMMA PublishTaskKeeps ==
    ASSUME IInv, NEW s \in Steps, PublishTask(s)
    PROVE  IInv'
<1>1. /\ \/ state[s] = "READY" /\ op.event = "DISPATCH"
         \/ state[s] = "WAITING_APPROVAL" /\ op.event = "APPROVE"
      /\ Key(s) \in contexts
  BY DEF IInv, NothingReadIsStale, PublishTask
<1>2. Key(s) \in TaskKey /\ DispatchKey(s) = Key(s) /\ Key(s) = <<s, attempt[s]>>
  BY <1>1, KeyOfStarted DEF Key
<1>3. /\ taskFiles' = taskFiles \cup {Key(s)}
      /\ worker' = [worker EXCEPT ![Key(s)] = "owes"]
      /\ op' = [phase |-> "task", step |-> s, event |-> op.event]
  BY <1>2 DEF PublishTask, InFlight
<1>4. op' \in Operation
  BY <1>1, <1>3, StepsAreNumbered DEF Operation, StepEvent
<1>5. worker' \in [TaskKey -> WorkerDuty]
  BY <1>3 DEF IInv, TypeOK, WorkerDuty
<1>6. TypeOK'
  BY <1>2, <1>3, <1>4, <1>5 DEF IInv, TypeOK, PublishTask, database
<1>7. PlanOrder'
  BY DEF IInv, PlanOrder, PublishTask, database
<1>8. NothingReadIsStale'
  BY <1>1, <1>2, <1>3 DEF NothingReadIsStale, PublishTask, database, Idle, Key
<1>9. TouchesOnly(s)
  BY <1>2, <1>3 DEF IInv, TypeOK, TouchesOnly, PublishTask, database
<1>10. StepOK(s)'
  <2>1. StepOK(s)
    BY DEF IInv
  <2>2. QED BY <2>1, <1>3 DEF StepOK, PublishTask, database, Key
<1>11. ASSUME NEW k \in TaskKey, k[1] = s
       PROVE  KeyOK(k)'
  <2>1. KeyOK(k)
    BY DEF IInv
  <2>2. CASE k = Key(s)
    <3>1. ~(k[2] > attempt[s])
      BY <1>1, <1>2, <2>2, KeyOfStarted
    <3>2. QED BY <2>1, <2>2, <3>1, <1>1, <1>2, <1>3 DEF KeyOK, PublishTask, database
  <2>3. CASE k # Key(s)
    BY <2>1, <2>3, <1>3 DEF KeyOK, PublishTask, database, IInv, TypeOK
  <2>4. QED BY <2>2, <2>3
<1>12. QED BY <1>6, <1>7, <1>8, <1>9, <1>10, <1>11, OthersKeep DEF IInv

LEMMA CommitPublicationKeeps ==
    ASSUME IInv, NEW s \in Steps, CommitPublication(s)
    PROVE  IInv'
<1>1. /\ \/ state[s] = "READY" /\ op.event = "DISPATCH"
         \/ state[s] = "WAITING_APPROVAL" /\ op.event = "APPROVE"
      /\ Key(s) \in contexts
      /\ Key(s) \in taskFiles
  BY DEF IInv, NothingReadIsStale, CommitPublication
<1>2. Key(s) \in TaskKey /\ DispatchKey(s) = Key(s) /\ Key(s) = <<s, attempt[s]>>
      /\ attempt[s] # 0
  BY <1>1, KeyOfStarted DEF Key
<1>3. /\ state' \in [Steps -> StepState]
      /\ overdue' \in [Steps -> BOOLEAN]
      /\ <<state[s], op.event, state'[s]>> \in STEP_TRANSITIONS
      /\ \A t \in Steps : t # s => state'[t] = state[t]
  BY WriteStepIsAnArc DEF IInv, TypeOK, CommitPublication
<1>4. state'[s] = "DISPATCHED"
  BY <1>1, <1>3, Arcs
<1>5. attempt' = attempt
  BY <1>2 DEF CommitPublication, AtLeastOne, IInv, TypeOK
<1>6. tasks' = [tasks EXCEPT ![Key(s)] = "DISPATCHED"]
  BY <1>2, TaskAdvances DEF CommitPublication
<1>7. TypeOK'
  <2>1. tasks' \in [TaskKey -> TaskState \cup {"NONE"}]
    BY <1>6 DEF IInv, TypeOK, TaskState
  <2>2. op' \in Operation
    BY DEF CommitPublication, Idle, Operation
  <2>3. QED BY <1>3, <1>5, <2>1, <2>2 DEF IInv, TypeOK, CommitPublication, channel
<1>8. PlanOrder'
  BY <1>1, WriteStepKeepsPlanOrder DEF IInv, CommitPublication
<1>9. NothingReadIsStale'
  BY DEF NothingReadIsStale, CommitPublication, Idle
<1>10. TouchesOnly(s)
  BY <1>2, <1>3, <1>5, <1>6 DEF IInv, TypeOK, TouchesOnly, CommitPublication, channel
<1>11. StepOK(s)'
  <2>1. tasks'[Key(s)] = "DISPATCHED" /\ Key(s)' = Key(s)
    BY <1>2, <1>5, <1>6 DEF IInv, TypeOK, Key
  <2>2. QED BY <1>1, <1>2, <1>4, <1>5, <2>1 DEF StepOK, CommitPublication, channel
<1>12. ASSUME NEW k \in TaskKey, k[1] = s
       PROVE  KeyOK(k)'
  <2>1. KeyOK(k)
    BY DEF IInv
  <2>2. CASE k = Key(s)
    <3>1. ~(k[2] > attempt[s]) /\ ~(k[2] < attempt[s])
      BY <1>1, <1>2, <2>2, KeyOfStarted
    <3>2. QED BY <2>1, <2>2, <3>1, <1>1, <1>2, <1>5, <1>12 DEF KeyOK, CommitPublication, channel
  <2>3. CASE k # Key(s)
    BY <2>1, <2>3, <1>5, <1>6 DEF KeyOK, CommitPublication, channel, IInv, TypeOK
  <2>4. QED BY <2>2, <2>3
<1>13. QED BY <1>7, <1>8, <1>9, <1>10, <1>11, <1>12, OthersKeep DEF IInv

-----------------------------------------------------------------------------
(* Collection.                                                             *)

\* Receiving a report, failing on the deadline: the step leaves the worker
\* and the Task row of its attempt is closed in the same transaction.
LEMMA CloseTaskKeeps ==
    ASSUME IInv, NEW s \in Steps, state[s] \in WithWorker,
           NEW event \in {"RECEIVE_REPORT", "FAIL"}, WriteStep(s, event),
           WriteTask(Key(s), event),
           op' = Idle,
           reports' \in [TaskKey -> Report],
           worker' \in [TaskKey -> WorkerDuty],
           \A k \in TaskKey : k # Key(s) => reports'[k] = reports[k] /\ worker'[k] = worker[k],
           event = "RECEIVE_REPORT" => reports'[Key(s)] # Absent,
           UNCHANGED <<mode, paused, attempt, verdict, findings, contexts, taskFiles>>
    PROVE  IInv'
<1>1. /\ Key(s) \in TaskKey
      /\ Key(s) = <<s, attempt[s]>>
      /\ attempt[s] # 0
      /\ attempt[s] \in Nat
      /\ Key(s)' = Key(s)
  BY KeyOfStarted DEF Key, WithWorker
<1>2. /\ state' \in [Steps -> StepState]
      /\ overdue' \in [Steps -> BOOLEAN]
      /\ <<state[s], event, state'[s]>> \in STEP_TRANSITIONS
      /\ \A t \in Steps : t # s => state'[t] = state[t]
  BY WriteStepIsAnArc DEF IInv, TypeOK
<1>3. state'[s] = IF event = "FAIL" THEN "FAILED" ELSE "REPORT_RECEIVED"
  BY <1>2, Arcs
<1>4. tasks' = [tasks EXCEPT ![Key(s)] = IF event = "FAIL" THEN "FAILED" ELSE "REPORTED"]
  <2>1. tasks[Key(s)] = "DISPATCHED"
    BY DEF IInv, StepOK
  <2>2. QED BY <2>1, TaskAdvances DEF WriteTask
<1>5. TypeOK'
  <2>1. tasks' \in [TaskKey -> TaskState \cup {"NONE"}]
    BY <1>4 DEF IInv, TypeOK, TaskState
  <2>2. op' \in Operation
    BY DEF Idle, Operation
  <2>3. QED BY <1>2, <2>1, <2>2 DEF IInv, TypeOK
<1>6. PlanOrder'
  BY WriteStepKeepsPlanOrder DEF IInv
<1>7. NothingReadIsStale'
  BY DEF NothingReadIsStale, Idle
<1>8. TouchesOnly(s)
  BY <1>1, <1>2, <1>4 DEF IInv, TypeOK, TouchesOnly
<1>9. StepOK(s)'
  <2>1. tasks'[Key(s)] = IF event = "FAIL" THEN "FAILED" ELSE "REPORTED"
    BY <1>1, <1>4 DEF IInv, TypeOK
  <2>2. QED BY <1>1, <1>3, <2>1 DEF StepOK, WithWorker
<1>10. ASSUME NEW k \in TaskKey, k[1] = s
       PROVE  KeyOK(k)'
  <2>1. KeyOK(k)
    BY DEF IInv
  <2>2. CASE k = Key(s)
    <3>1. ~(k[2] > attempt[s]) /\ ~(k[2] < attempt[s])
      BY <1>1, <2>2
    <3>2. QED BY <1>10, <2>1, <3>1 DEF KeyOK
  <2>3. CASE k # Key(s)
    BY <2>1, <2>3, <1>4 DEF KeyOK, IInv, TypeOK
  <2>4. QED BY <2>2, <2>3
<1>11. QED BY <1>5, <1>6, <1>7, <1>8, <1>9, <1>10, OthersKeep DEF IInv

\* Deciding the outcome of a key changes only its marks.
LEMMA DecidedMarks ==
    ASSUME TypeOK, NEW k \in TaskKey, Decided(k)
    PROVE  /\ reports' \in [TaskKey -> Report]
           /\ worker' \in [TaskKey -> WorkerDuty]
           /\ \A j \in TaskKey : j # k => reports'[j] = reports[j] /\ worker'[j] = worker[j]
<1>1. CASE reports[k] = Absent
  BY <1>1 DEF TypeOK, Decided, WorkerDuty
<1>2. CASE reports[k] # Absent
  <2>1. [reports[k] EXCEPT !.mark = "stale"] \in Report
    BY DEF TypeOK, Report
  <2>2. reports' = [reports EXCEPT ![k] = [reports[k] EXCEPT !.mark = "stale"]]
    BY <1>2 DEF Decided
  <2>3. QED BY <2>1, <2>2 DEF TypeOK, Decided, WorkerDuty
<1>3. QED BY <1>1, <1>2

LEMMA CollectReportKeeps ==
    ASSUME IInv, NEW s \in Steps, CollectReport(s)
    PROVE  IInv'
<1>1. reports[Key(s)] # Absent
  BY DEF CollectReport, Readable, Absent, NoReport, ReportStatus
<1>2. QED BY <1>1, CloseTaskKeeps DEF IInv, TypeOK, CollectReport, Tick, channel

LEMMA PollAbsentKeeps ==
    ASSUME IInv, NEW s \in Steps, PollAbsent(s)
    PROVE  IInv'
<1>1. op' = [phase |-> "absent", step |-> s, event |-> "NONE"]
  BY DEF PollAbsent, InFlight
<1>2. op' \in Operation
  BY <1>1, StepsAreNumbered DEF Operation
<1>3. TypeOK'
  BY <1>2 DEF IInv, TypeOK, PollAbsent, database, channel
<1>4. NothingReadIsStale'
  BY <1>1 DEF NothingReadIsStale, PollAbsent, database, Idle
<1>5. PlanOrder'
  BY DEF IInv, PlanOrder, PollAbsent, database
<1>6. (\A t \in Steps : StepOK(t)') /\ (\A k \in TaskKey : KeyOK(k)')
  BY DEF IInv, StepOK, KeyOK, Key, PollAbsent, database, channel
<1>7. QED BY <1>3, <1>4, <1>5, <1>6 DEF IInv

LEMMA FailOnDeadlineKeeps ==
    ASSUME IInv, NEW s \in Steps, FailOnDeadline(s)
    PROVE  IInv'
<1>1. state[s] \in WithWorker
  BY DEF IInv, NothingReadIsStale, FailOnDeadline
<1>2. Key(s) \in TaskKey
  BY <1>1, KeyOfStarted DEF WithWorker
<1>3. /\ reports' \in [TaskKey -> Report]
      /\ worker' \in [TaskKey -> WorkerDuty]
      /\ \A k \in TaskKey : k # Key(s) => reports'[k] = reports[k] /\ worker'[k] = worker[k]
  BY <1>2, DecidedMarks DEF IInv, FailOnDeadline
<1>4. QED BY <1>1, <1>3, CloseTaskKeeps DEF FailOnDeadline

LEMMA StartWorkingKeeps ==
    ASSUME IInv, NEW s \in Steps, StartWorking(s)
    PROVE  IInv'
<1>1. /\ state' \in [Steps -> StepState]
      /\ overdue' \in [Steps -> BOOLEAN]
      /\ <<state[s], "CLINE_START", state'[s]>> \in STEP_TRANSITIONS
      /\ \A t \in Steps : t # s => state'[t] = state[t]
  BY WriteStepIsAnArc DEF IInv, TypeOK, StartWorking
<1>2. state[s] = "DISPATCHED" /\ state'[s] = "CLINE_WORKING"
  BY <1>1, Arcs
<1>3. TypeOK'
  <2>1. op' \in Operation
    BY DEF StartWorking, Idle, Operation
  <2>2. QED BY <1>1, <2>1 DEF IInv, TypeOK, StartWorking, channel
<1>4. PlanOrder'
  BY WriteStepKeepsPlanOrder DEF IInv, StartWorking
<1>5. NothingReadIsStale'
  BY DEF NothingReadIsStale, StartWorking, Idle
<1>6. TouchesOnly(s)
  BY <1>1 DEF TouchesOnly, StartWorking, channel
<1>7. StepOK(s)'
  BY <1>2 DEF IInv, StepOK, WithWorker, StartWorking, channel, Key
<1>8. ASSUME NEW k \in TaskKey PROVE KeyOK(k)'
  BY DEF IInv, KeyOK, StartWorking, channel
<1>9. QED BY <1>3, <1>4, <1>5, <1>6, <1>7, <1>8, OthersKeep DEF IInv

\* An operation that ends without a durable effect.
LEMMA AbandonKeeps ==
    ASSUME IInv, op' = Idle, UNCHANGED <<database, channel>>
    PROVE  IInv'
<1>1. op' \in Operation
  BY DEF Idle, Operation
<1>2. TypeOK'
  BY <1>1 DEF IInv, TypeOK, database, channel
<1>3. NothingReadIsStale'
  BY DEF NothingReadIsStale, Idle
<1>4. PlanOrder'
  BY DEF IInv, PlanOrder, database
<1>5. (\A t \in Steps : StepOK(t)') /\ (\A k \in TaskKey : KeyOK(k)')
  BY DEF IInv, StepOK, KeyOK, Key, database, channel
<1>6. QED BY <1>2, <1>3, <1>4, <1>5 DEF IInv

-----------------------------------------------------------------------------
(* Review, acknowledgement, retry.                                         *)

LEMMA ReadForReviewKeeps ==
    ASSUME IInv, NEW s \in Steps, ReadForReview(s)
    PROVE  IInv'
<1> DEFINE event == decide_review(reports[Key(s)], attempt[s], MaxAttempts[s])
<1>1. /\ Key(s) \in TaskKey
      /\ attempt[s] \in Nat
      /\ MaxAttempts[s] \in Nat
  BY KeyOfStarted DEF ReadForReview
<1>2. /\ event \in {"VERIFY", "BLOCK", "REQUEST_REVISE"}
      /\ event = "REQUEST_REVISE" => attempt[s] < MaxAttempts[s]
  <2>1. reports[Key(s)].status \in ReportStatus /\ reports[Key(s)].open \in BOOLEAN
    BY <1>1 DEF IInv, TypeOK, Report, ReadForReview, Readable
  <2>2. QED BY <1>1, <2>1, ReviewEvents
<1>3. op' = [phase |-> "review", step |-> s, event |-> event]
  BY DEF ReadForReview, InFlight
<1>. HIDE DEF event
<1>4. op' \in Operation
  BY <1>2, <1>3, StepsAreNumbered DEF Operation, StepEvent
<1>5. TypeOK'
  BY <1>4 DEF IInv, TypeOK, ReadForReview, database, channel
<1>6. NothingReadIsStale'
  BY <1>2, <1>3 DEF NothingReadIsStale, ReadForReview, database, Idle, CanRetry
<1>7. PlanOrder'
  BY DEF IInv, PlanOrder, ReadForReview, database
<1>8. (\A t \in Steps : StepOK(t)') /\ (\A k \in TaskKey : KeyOK(k)')
  BY DEF IInv, StepOK, KeyOK, Key, ReadForReview, database, channel
<1>9. QED BY <1>5, <1>6, <1>7, <1>8 DEF IInv

LEMMA CommitReviewKeeps ==
    ASSUME IInv, NEW s \in Steps, CommitReview(s)
    PROVE  IInv'
<1>1. /\ state[s] = "REVIEWING"
      /\ op.event \in {"VERIFY", "BLOCK", "REQUEST_REVISE"}
      /\ op.event = "REQUEST_REVISE" => attempt[s] < MaxAttempts[s]
  BY DEF IInv, NothingReadIsStale, CommitReview, CanRetry
<1>2. /\ Key(s) \in TaskKey
      /\ Key(s) = <<s, attempt[s]>>
      /\ attempt[s] # 0
      /\ attempt[s] \in Nat
      /\ Key(s)' = Key(s)
  BY <1>1, KeyOfStarted DEF Key, CommitReview
<1>3. PICK event \in {"VERIFY", "BLOCK", "REQUEST_REVISE"} :
         /\ WriteStep(s, event)
         /\ event = "REQUEST_REVISE" => attempt[s] < MaxAttempts[s]
         /\ \/ /\ event = "VERIFY"
               /\ findings' = findings
               /\ verdict' = [verdict EXCEPT ![Key(s)] = "ACCEPTED"]
            \/ /\ event = "BLOCK"
               /\ findings' = findings \cup {Key(s)}
               /\ verdict' = [verdict EXCEPT ![Key(s)] = "REJECTED"]
            \/ /\ event # "VERIFY"
               /\ UNCHANGED <<verdict, findings>>
  <2>1. CASE op.event = "VERIFY"
    <3>1. PICK compliant \in BOOLEAN :
             /\ gate(Key(s), compliant)
             /\ WriteStep(s, IF compliant THEN "VERIFY" ELSE "BLOCK")
      BY <2>1 DEF CommitReview
    <3>2. CASE compliant
      BY <3>1, <3>2 DEF gate
    <3>3. CASE ~compliant
      BY <3>1, <3>3 DEF gate
    <3>4. QED BY <3>2, <3>3
  <2>2. CASE op.event # "VERIFY"
    BY <1>1, <2>2 DEF CommitReview
  <2>3. QED BY <2>1, <2>2
<1>4. /\ state' \in [Steps -> StepState]
      /\ overdue' \in [Steps -> BOOLEAN]
      /\ <<state[s], event, state'[s]>> \in STEP_TRANSITIONS
      /\ \A t \in Steps : t # s => state'[t] = state[t]
  BY <1>3, WriteStepIsAnArc DEF IInv, TypeOK
<1>5. /\ event = "VERIFY" => state'[s] = "VERIFIED"
      /\ event = "BLOCK" => state'[s] = "BLOCKED"
      /\ event = "REQUEST_REVISE" => state'[s] = "REVISE"
  BY <1>4, Arcs
<1>6. /\ reports' \in [TaskKey -> Report]
      /\ worker' \in [TaskKey -> WorkerDuty]
      /\ \A k \in TaskKey : k # Key(s) => reports'[k] = reports[k] /\ worker'[k] = worker[k]
  BY <1>2, DecidedMarks DEF IInv, CommitReview
<1>7. op' = [phase |-> "ack", step |-> s, event |-> op.event]
  BY DEF CommitReview, InFlight
<1>8. TypeOK'
  <2>1. verdict' \in [TaskKey -> {"NONE", "ACCEPTED", "REJECTED"}] /\ findings' \subseteq TaskKey
    BY <1>2, <1>3 DEF IInv, TypeOK
  <2>2. op' \in Operation
    BY <1>1, <1>7, StepsAreNumbered DEF Operation, StepEvent
  <2>3. QED BY <1>4, <1>6, <2>1, <2>2 DEF IInv, TypeOK, CommitReview
<1>9. PlanOrder'
  BY <1>3, WriteStepKeepsPlanOrder DEF IInv
<1>10. NothingReadIsStale'
  BY <1>3, <1>5, <1>7 DEF NothingReadIsStale, Idle
<1>11. TouchesOnly(s)
  BY <1>2, <1>3, <1>4, <1>6 DEF IInv, TypeOK, TouchesOnly, CommitReview
<1>12. StepOK(s)'
  <2>1. tasks'[Key(s)'] = "REPORTED"
    BY <1>1, <1>2 DEF IInv, StepOK, CommitReview
  <2>2. event = "VERIFY" => verdict'[Key(s)'] = "ACCEPTED"
    BY <1>2, <1>3 DEF IInv, TypeOK
  <2>3. attempt' = attempt
    BY DEF CommitReview
  <2>4. QED BY <1>2, <1>3, <1>5, <2>1, <2>2, <2>3 DEF StepOK, WithWorker
<1>13. ASSUME NEW k \in TaskKey, k[1] = s
       PROVE  KeyOK(k)'
  <2>1. KeyOK(k)
    BY DEF IInv
  <2>2. CASE k = Key(s)
    <3>1. ~(k[2] > attempt[s]) /\ ~(k[2] < attempt[s])
      BY <1>2, <2>2
    <3>2. QED BY <1>13, <2>1, <3>1 DEF KeyOK, CommitReview
  <2>3. CASE k # Key(s)
    BY <2>1, <2>3, <1>3, <1>6 DEF KeyOK, IInv, TypeOK, CommitReview
  <2>4. QED BY <2>2, <2>3
<1>14. QED BY <1>8, <1>9, <1>10, <1>11, <1>12, <1>13, OthersKeep DEF IInv

\* Archiving a report is safe because the step has left the review states.
LEMMA AcknowledgeKeeps ==
    ASSUME IInv, NEW s \in Steps, Acknowledge(s)
    PROVE  IInv'
<1>1. state[s] \in {"VERIFIED", "REVISE", "BLOCKED"}
  BY DEF IInv, NothingReadIsStale, Acknowledge
<1>2. Key(s) \in TaskKey /\ Key(s) = <<s, attempt[s]>>
  BY <1>1, KeyOfStarted DEF Key
<1>3. reports' = [reports EXCEPT ![Key(s)] = Absent]
  BY DEF Acknowledge
<1>4. TypeOK'
  <2>1. Absent \in Report
    BY DEF Absent, Report, NoReport
  <2>2. op' \in Operation
    BY DEF Acknowledge, Idle, Operation
  <2>3. QED BY <1>3, <2>1, <2>2 DEF IInv, TypeOK, Acknowledge, database
<1>5. NothingReadIsStale'
  BY DEF NothingReadIsStale, Acknowledge, Idle
<1>6. PlanOrder'
  BY DEF IInv, PlanOrder, Acknowledge, database
<1>7. TouchesOnly(s)
  BY <1>2, <1>3 DEF IInv, TypeOK, TouchesOnly, Acknowledge, database
<1>8. StepOK(s)'
  <2>1. StepOK(s) /\ Key(s)' = Key(s)
    BY DEF IInv, Acknowledge, database, Key
  <2>2. QED BY <1>1, <2>1 DEF StepOK, Acknowledge, database
<1>9. ASSUME NEW k \in TaskKey PROVE KeyOK(k)'
  <2>1. KeyOK(k)
    BY DEF IInv
  <2>2. reports[k] = Absent => reports'[k] = Absent
    BY <1>3 DEF IInv, TypeOK
  <2>3. QED BY <2>1, <2>2 DEF KeyOK, Acknowledge, database
<1>10. QED BY <1>4, <1>5, <1>6, <1>7, <1>8, <1>9, OthersKeep DEF IInv

LEMMA RetryKeeps ==
    ASSUME IInv, NEW s \in Steps, Retry(s)
    PROVE  IInv'
<1>1. /\ state' \in [Steps -> StepState]
      /\ overdue' \in [Steps -> BOOLEAN]
      /\ <<state[s], "RETRY", state'[s]>> \in STEP_TRANSITIONS
      /\ \A t \in Steps : t # s => state'[t] = state[t]
  BY WriteStepIsAnArc DEF IInv, TypeOK, Retry
<1>2. state[s] \in {"REVISE", "FAILED"} /\ state'[s] = "READY"
  BY <1>1, Arcs
<1>3. /\ attempt[s] \in Nat
      /\ attempt[s] # 0
      /\ MaxAttempts[s] \in Nat
      /\ Key(s) = <<s, attempt[s]>>
  BY <1>2, KeyOfStarted DEF Key
<1>4. /\ attempt' \in [Steps -> Nat]
      /\ attempt'[s] = attempt[s] + 1
      /\ \A t \in Steps : t # s => attempt'[t] = attempt[t]
  BY <1>3 DEF IInv, TypeOK, Retry
<1>5. TypeOK'
  <2>1. attempt[s] < MaxAttempts[s]
    BY DEF Retry, CanRetry
  <2>2. attempt[s] + 1 <= MaxAttempts[s]
    BY <1>3, <2>1
  <2>3. \A t \in Steps : attempt'[t] <= MaxAttempts[t]
    BY <1>4, <2>2 DEF IInv, TypeOK
  <2>4. QED BY <1>1, <1>4, <2>3 DEF IInv, TypeOK, Retry, channel
<1>6. PlanOrder'
  BY WriteStepKeepsPlanOrder DEF IInv, Retry
<1>7. NothingReadIsStale'
  BY DEF IInv, NothingReadIsStale, Retry, Tick, Idle
<1>8. TouchesOnly(s)
  BY <1>1, <1>4 DEF TouchesOnly, Retry, channel
<1>9. StepOK(s)'
  BY <1>2, <1>3, <1>4 DEF StepOK, WithWorker
<1>10. ASSUME NEW k \in TaskKey, k[1] = s
       PROVE  KeyOK(k)'
  <2>1. KeyOK(k) /\ k = <<k[1], k[2]>> /\ k[2] \in Nat
    BY KeyParts DEF IInv
  <2>2. CASE k[2] = attempt[s]
    <3>1. tasks[k] \in {"REPORTED", "FAILED"}
      BY <1>2, <1>3, <1>10, <2>1, <2>2 DEF IInv, StepOK
    <3>2. ~(k[2] > attempt'[s])
      BY <1>3, <1>4, <2>2
    <3>3. QED BY <1>10, <2>1, <3>1, <3>2 DEF KeyOK, Retry, channel
  <2>3. CASE k[2] # attempt[s]
    <3>1. /\ k[2] < attempt'[s] => k[2] < attempt[s]
          /\ k[2] > attempt'[s] => k[2] > attempt[s]
      BY <1>3, <1>4, <2>1, <2>3
    <3>2. QED BY <1>10, <2>1, <3>1 DEF KeyOK, Retry, channel
  <2>4. QED BY <2>2, <2>3
<1>11. QED BY <1>5, <1>6, <1>7, <1>8, <1>9, <1>10, OthersKeep DEF IInv

-----------------------------------------------------------------------------
(* The project flags and the environment.                                  *)

LEMMA FlagsKeep ==
    ASSUME IInv, PauseOrResume \/ SetMode
    PROVE  IInv'
<1>1. UNCHANGED <<state, attempt, overdue, tasks, verdict, findings, channel, op>>
  BY DEF PauseOrResume, SetMode
<1>2. TypeOK'
  BY <1>1 DEF IInv, TypeOK, PauseOrResume, SetMode, channel
<1>3. NothingReadIsStale'
  BY <1>1 DEF IInv, NothingReadIsStale, Key, CanRetry, channel
<1>4. PlanOrder'
  BY <1>1 DEF IInv, PlanOrder
<1>5. (\A t \in Steps : StepOK(t)') /\ (\A k \in TaskKey : KeyOK(k)')
  BY <1>1 DEF IInv, StepOK, KeyOK, Key, channel
<1>6. QED BY <1>2, <1>3, <1>4, <1>5 DEF IInv

LEMMA DeadlinePassesKeeps ==
    ASSUME IInv, NEW s \in Steps, DeadlinePasses(s)
    PROVE  IInv'
<1>1. TypeOK'
  BY DEF IInv, TypeOK, DeadlinePasses, channel
<1>2. NothingReadIsStale'
  BY DEF IInv, NothingReadIsStale, Key, CanRetry, DeadlinePasses, channel
<1>3. PlanOrder'
  BY DEF IInv, PlanOrder, DeadlinePasses
<1>4. (\A t \in Steps : StepOK(t)') /\ (\A k \in TaskKey : KeyOK(k)')
  BY DEF IInv, StepOK, KeyOK, Key, DeadlinePasses, channel
<1>5. QED BY <1>1, <1>2, <1>3, <1>4 DEF IInv

\* A report only ever appears where one is owed, never for a future attempt.
LEMMA WorkerReportsKeeps ==
    ASSUME IInv, NEW k \in TaskKey, WorkerReports(k)
    PROVE  IInv'
<1>1. PICK r \in Report : r.status # NoReport /\ reports' = [reports EXCEPT ![k] = r]
  <2>1. PICK answer \in Answers, mark \in {"fresh", "late", "stale"} :
           reports' = [reports EXCEPT ![k] =
               [status |-> answer.status, open |-> answer.open, mark |-> mark]]
    <3>1. overdue[k[1]] \in BOOLEAN
      BY KeyParts DEF IInv, TypeOK
    <3>2. CASE worker[k] = "late"
      BY <3>2 DEF WorkerReports
    <3>3. CASE worker[k] # "late" /\ overdue[k[1]]
      BY <3>3 DEF WorkerReports
    <3>4. CASE worker[k] # "late" /\ ~overdue[k[1]]
      BY <3>4 DEF WorkerReports
    <3>5. QED BY <3>1, <3>2, <3>3, <3>4
  <2>2. answer.status \in ReportStatus \cup {Malformed} /\ answer.open \in BOOLEAN
    BY EnvironmentInputs DEF Answer
  <2>3. answer.status # NoReport
    BY <2>2 DEF ReportStatus, Malformed, NoReport
  <2>4. QED BY <2>1, <2>2, <2>3 DEF Report
<1>2. \A j \in TaskKey : reports'[j] = Absent => reports[j] = Absent
  BY <1>1 DEF IInv, TypeOK, Absent
<1>3. TypeOK'
  <2>1. worker' \in [TaskKey -> WorkerDuty]
    BY DEF IInv, TypeOK, WorkerReports, WorkerDuty
  <2>2. QED BY <1>1, <2>1 DEF IInv, TypeOK, WorkerReports, database
<1>4. NothingReadIsStale'
  BY DEF IInv, NothingReadIsStale, Key, CanRetry, WorkerReports, database
<1>5. PlanOrder'
  BY DEF IInv, PlanOrder, WorkerReports, database
<1>6. ASSUME NEW t \in Steps PROVE StepOK(t)'
  <2>1. StepOK(t) /\ Key(t)' = Key(t)
    BY DEF IInv, WorkerReports, database, Key
  <2>2. CASE state[t] = "PENDING"
    BY <2>1, <2>2 DEF StepOK, WorkerReports, database, WithWorker
  <2>3. CASE state[t] # "PENDING"
    <3>1. reports'[Key(t)] = Absent => reports[Key(t)] = Absent
      BY <1>2, <2>3, KeyOfStarted
    <3>2. QED BY <2>1, <3>1 DEF StepOK, WorkerReports, database
  <2>4. QED BY <2>2, <2>3
<1>7. ASSUME NEW j \in TaskKey PROVE KeyOK(j)'
  <2>1. KeyOK(j)
    BY DEF IInv
  <2>2. CASE j = k
    <3>1. ~(j[2] > attempt[j[1]])
      BY <2>1, <2>2 DEF KeyOK, WorkerReports
    <3>2. QED BY <2>1, <3>1 DEF KeyOK, WorkerReports, database
  <2>3. CASE j # k
    BY <2>1, <2>3 DEF IInv, TypeOK, KeyOK, WorkerReports, database
  <2>4. QED BY <2>2, <2>3
<1>8. QED BY <1>3, <1>4, <1>5, <1>6, <1>7 DEF IInv

-----------------------------------------------------------------------------
(* The theorems.                                                           *)

LEMMA InitEstablishes == Init => IInv
<1>1. SUFFICES ASSUME Init PROVE IInv
  OBVIOUS
<1>2. TypeOK
  <2>1. Absent \in Report /\ Idle \in Operation
    BY DEF Absent, Report, NoReport, Idle, Operation
  <2>2. ASSUME NEW s \in Steps PROVE attempt[s] <= MaxAttempts[s]
    <3>1. attempt[s] = 0
      BY <1>1 DEF Init
    <3>2. MaxAttempts[s] \in Nat
      BY BudgetsArePositive
    <3>3. QED BY <3>1, <3>2
  <2>3. QED BY <1>1, <2>1, <2>2 DEF Init, TypeOK, StepState, WorkerDuty
<1>3. PlanOrder /\ NothingReadIsStale
  BY <1>1 DEF Init, PlanOrder, NothingReadIsStale, Idle
<1>4. \A s \in Steps : StepOK(s)
  BY <1>1 DEF Init, StepOK, WithWorker
<1>5. \A k \in TaskKey : KeyOK(k)
  BY <1>1, KeyParts DEF Init, KeyOK
<1>6. QED BY <1>2, <1>3, <1>4, <1>5 DEF IInv

LEMMA NextKeeps == IInv /\ [Next]_vars => IInv'
<1>1. SUFFICES ASSUME IInv, [Next]_vars PROVE IInv'
  OBVIOUS
<1>2. CASE UNCHANGED vars
  <2>1. UNCHANGED <<mode, paused, state, attempt, overdue, tasks, verdict, findings,
                    contexts, taskFiles, reports, worker, op>>
    BY <1>2 DEF vars, database, channel
  <2>2. TypeOK' /\ NothingReadIsStale' /\ PlanOrder'
    BY <1>1, <2>1 DEF IInv, TypeOK, NothingReadIsStale, PlanOrder, Key, CanRetry
  <2>3. (\A t \in Steps : StepOK(t)') /\ (\A k \in TaskKey : KeyOK(k)')
    BY <1>1, <2>1 DEF IInv, StepOK, KeyOK, Key
  <2>4. QED BY <2>2, <2>3 DEF IInv
<1>3. ASSUME NEW s \in Steps, LoopBegins(s) PROVE IInv'
  BY <1>1, <1>3, PrepareKeeps, RequestApprovalKeeps, BeginDispatchKeeps,
     CollectReportKeeps, PollAbsentKeeps, StartReviewKeeps, ReadForReviewKeeps,
     RetryKeeps, AbortExhaustedKeeps DEF LoopBegins
<1>4. ASSUME NEW s \in Steps, OperationContinues(s) PROVE IInv'
  <2>1. CASE KeepWaiting(s) \/ AcknowledgeFails(s)
    BY <1>1, <2>1, AbandonKeeps DEF KeepWaiting, AcknowledgeFails
  <2>2. QED
    BY <1>1, <1>4, <2>1, PublishTaskKeeps, CommitPublicationKeeps,
       FailOnDeadlineKeeps, StartWorkingKeeps, CommitReviewKeeps,
       AcknowledgeKeeps DEF OperationContinues
<1>5. CASE Human
  BY <1>1, <1>5, FlagsKeep, ApproveKeeps, RejectKeeps, StepCommandKeeps DEF Human
<1>6. CASE Environment
  <2>1. CASE Crash
    BY <1>1, <2>1, AbandonKeeps DEF Crash
  <2>2. QED
    BY <1>1, <1>6, <2>1, WorkerReportsKeeps, DeadlinePassesKeeps DEF Environment
<1>7. QED BY <1>1, <1>2, <1>3, <1>4, <1>5, <1>6 DEF Next

LEMMA IInvHolds == Spec => []IInv
BY InitEstablishes, NextKeeps, PTL DEF Spec

\* Type correctness: every row, file and operation is one the code can have.
THEOREM TypeCorrect == Spec => []TypeOK
BY IInvHolds, PTL DEF IInv

\* What the loop, the approval gate and the human override rely on: rows,
\* files and verdicts agree at every instant, whatever crashes and faults do.
THEOREM RowsFilesAndVerdictsAgree ==
    Spec => [](/\ DispatchIsPublished
               /\ TaskHasContext
               /\ ReportKept
               /\ RowFollowsStep
               /\ VerifiedHasVerdict
               /\ AttemptHistory
               /\ NoReviseDeadEnd)
<1>1. IInv => /\ DispatchIsPublished
              /\ TaskHasContext
              /\ ReportKept
              /\ RowFollowsStep
              /\ VerifiedHasVerdict
              /\ AttemptHistory
              /\ NoReviseDeadEnd
  BY IInvImplies
<1>2. QED BY <1>1, IInvHolds, PTL

\* No later step starts before every earlier one is VERIFIED.
THEOREM PlanOrderHolds == Spec => []PlanOrder
BY IInvHolds, PTL DEF IInv

\* No operation ever commits on a step that moved since the operation read it.
THEOREM NoStaleRead == Spec => []NothingReadIsStale
BY IInvHolds, PTL DEF IInv

\* The worker is never shown a task whose context is not there yet.
THEOREM ContextComesFirst == Spec => []TaskHasContext
BY RowsFilesAndVerdictsAgree, PTL

\* A report survives in the channel until the outcome it led to is committed.
THEOREM ReportsSurvive == Spec => []ReportKept
BY RowsFilesAndVerdictsAgree, PTL

\* The Task row of the current attempt tells the same story as its step.
THEOREM RowsFollowSteps == Spec => []RowFollowsStep
BY RowsFilesAndVerdictsAgree, PTL

\* Earlier attempts are closed and later ones have left no trace.
THEOREM AttemptsAreOrdered == Spec => []AttemptHistory
BY RowsFilesAndVerdictsAgree, PTL

\* No override, retry or crash leaves a step in REVISE without an attempt.
THEOREM ReviseLeadsOn == Spec => []NoReviseDeadEnd
BY RowsFilesAndVerdictsAgree, PTL

-----------------------------------------------------------------------------
(* Publication.                                                            *)

\* Nothing in the loop raises a conflict, and a publication that has reached
\* the context was approved or needs no approval.
NoConflict == \A s \in Steps : state[s] # "CONFLICT"
Sanctioned == op.phase = "context" => op.event = "APPROVE" \/ ~NeedsApproval(op.step)

LEMMA WriteStepNoConflict ==
    ASSUME state \in [Steps -> StepState], NoConflict, NEW s \in Steps, NEW event,
           event # "RAISE_CONFLICT", WriteStep(s, event)
    PROVE  NoConflict'
<1>1. \A from, to : <<from, event, to>> \in STEP_TRANSITIONS => to # "CONFLICT"
  BY DEF STEP_TRANSITIONS
<1>2. QED BY <1>1 DEF WriteStep, NoConflict

LEMMA StepHasNoConflict ==
    ASSUME IInv, NoConflict, [Next]_vars
    PROVE  NoConflict'
<1>1. state \in [Steps -> StepState] /\ NothingReadIsStale
  BY DEF IInv, TypeOK
<1>2. CASE UNCHANGED state
  BY <1>2 DEF NoConflict
<1>3. ASSUME NEW s \in Steps, LoopBegins(s) PROVE NoConflict'
  <2>1. \/ UNCHANGED state
        \/ \E e \in {"PREPARE", "REQUEST_APPROVAL", "RECEIVE_REPORT", "START_REVIEW", "RETRY", "ABORT"} :
              WriteStep(s, e)
    BY <1>3 DEF LoopBegins, Prepare, RequestApproval, BeginDispatch, PublishContext, CollectReport,
         PollAbsent, StartReview, ReadForReview, Retry, AbortExhausted, database
  <2>2. QED BY <1>1, <1>2, <2>1, WriteStepNoConflict
<1>4. ASSUME NEW s \in Steps, OperationContinues(s) PROVE NoConflict'
  <2>1. CASE CommitPublication(s)
    <3>1. op.event \in {"DISPATCH", "APPROVE"} /\ WriteStep(s, op.event)
      BY <1>1, <2>1 DEF CommitPublication, NothingReadIsStale
    <3>2. QED BY <1>1, <3>1, WriteStepNoConflict
  <2>2. CASE CommitReview(s)
    <3>1. \E e \in {"VERIFY", "BLOCK", "REQUEST_REVISE"} : WriteStep(s, e)
      BY <1>1, <2>2 DEF CommitReview, NothingReadIsStale
    <3>2. QED BY <1>1, <3>1, WriteStepNoConflict
  <2>3. CASE FailOnDeadline(s) \/ StartWorking(s)
    BY <1>1, <2>3, WriteStepNoConflict DEF FailOnDeadline, StartWorking
  <2>4. QED
    BY <1>2, <1>4, <2>1, <2>2, <2>3
    DEF OperationContinues, PublishTask, KeepWaiting, Acknowledge, AcknowledgeFails, database
<1>5. CASE Human
  <2>1. \/ UNCHANGED state
        \/ \E s \in Steps, e \in {"REJECT", "UNBLOCK", "RESOLVE", "ABORT"} : WriteStep(s, e)
    BY <1>5 DEF Human, PauseOrResume, SetMode, Approve, PublishContext, Reject, StepCommand, database
  <2>2. QED BY <1>1, <1>2, <2>1, WriteStepNoConflict
<1>6. CASE Environment
  BY <1>2, <1>6 DEF Environment, Crash, WorkerReports, DeadlinePasses, database
<1>7. QED
  BY <1>2, <1>3, <1>4, <1>5, <1>6 DEF Next, vars, database

LEMMA StepIsSanctioned ==
    ASSUME Sanctioned, [Next]_vars
    PROVE  Sanctioned'
<1>1. CASE op' = op /\ mode' = mode
  BY <1>1 DEF Sanctioned, NeedsApproval
<1>2. CASE op'.phase # "context"
  BY <1>2 DEF Sanctioned
<1>3. ASSUME NEW s \in Steps, LoopBegins(s) PROVE Sanctioned'
  <2>1. CASE BeginDispatch(s)
    BY <2>1 DEF BeginDispatch, PublishContext, InFlight, Sanctioned, NeedsApproval, database
  <2>2. QED
    BY <1>1, <1>2, <1>3, <2>1
    DEF LoopBegins, Prepare, RequestApproval, CollectReport, PollAbsent, StartReview,
        ReadForReview, Retry, AbortExhausted, InFlight
<1>4. ASSUME NEW s \in Steps, OperationContinues(s) PROVE Sanctioned'
  BY <1>2, <1>4
  DEF OperationContinues, PublishTask, CommitPublication, FailOnDeadline, StartWorking,
      KeepWaiting, CommitReview, Acknowledge, AcknowledgeFails, InFlight, Idle
<1>5. CASE Human
  <2>1. ASSUME NEW s \in Steps, Approve(s) PROVE Sanctioned'
    BY <2>1 DEF Approve, PublishContext, InFlight, Sanctioned
  <2>2. QED
    BY <1>1, <1>2, <1>5, <2>1 DEF Human, PauseOrResume, SetMode, Reject, StepCommand, Idle
<1>6. CASE Environment
  BY <1>1, <1>2, <1>6 DEF Environment, Crash, WorkerReports, DeadlinePasses, Idle, database
<1>7. QED
  BY <1>1, <1>3, <1>4, <1>5, <1>6 DEF Next, vars, database

\* A published task without a row is the current attempt's, and the step has
\* not got past its dispatch, wherever the publication was cut short.
THEOREM PublicationsAreRecorded == Spec => []PublicationIsRecorded
<1>1. ASSUME IInv, NoConflict, NEW k \in taskFiles, tasks[k] = "NONE"
      PROVE  k[2] = attempt[k[1]] /\ state[k[1]] \in {"READY", "WAITING_APPROVAL", "ABORTED"}
  <2>1. k \in TaskKey /\ KeyOK(k)
    BY <1>1 DEF IInv, TypeOK
  <2>2. k = <<k[1], k[2]>> /\ k[1] \in Steps /\ k[2] \in Nat /\ 1 <= k[2]
    BY <2>1, KeyParts
  <2>3. attempt[k[1]] \in Nat /\ state[k[1]] \in StepState
    BY <1>1, <2>2 DEF IInv, TypeOK
  <2>4. k[2] = attempt[k[1]]
    BY <1>1, <2>1, <2>2, <2>3 DEF KeyOK
  <2>5. k = Key(k[1]) /\ attempt[k[1]] # 0
    BY <2>2, <2>4 DEF Key
  <2>6. StepOK(k[1]) /\ state[k[1]] # "CONFLICT"
    BY <1>1, <2>2 DEF IInv, NoConflict
  <2>7. QED BY <1>1, <2>3, <2>4, <2>5, <2>6 DEF StepOK, StepState, WithWorker
<1>2. IInv /\ NoConflict => PublicationIsRecorded
  BY <1>1 DEF PublicationIsRecorded
<1>3. Init => NoConflict
  BY DEF Init, NoConflict
<1>4. QED BY <1>2, <1>3, IInvHolds, StepHasNoConflict, PTL DEF Spec

\* The worker is shown a task only under an approval that is being carried out,
\* or where the policy of the mode waives one; no crash or mode change between
\* the decision and the publication makes a difference.
THEOREM ApprovalComesFirst == Spec => ApprovalPrecedesPublication
<1>1. Init => Sanctioned
  BY DEF Init, Sanctioned, Idle
<1>2. IInv /\ Sanctioned =>
        (op.phase = "context" /\ op'.phase = "task"
           => state[op.step] = "WAITING_APPROVAL" \/ ~NeedsApproval(op.step))
  BY DEF IInv, Sanctioned, NothingReadIsStale
<1>3. QED
  BY <1>1, <1>2, IInvHolds, StepIsSanctioned, PTL DEF Spec, ApprovalPrecedesPublication

-----------------------------------------------------------------------------
(* The loop implements StepLifecycle: every step maps to one of its moves  *)
(* or leaves state and attempt alone.                                      *)

LEMMA MoveOfWriteStep ==
    ASSUME NEW s \in Steps, NEW event, WriteStep(s, event)
    PROVE  Lifecycle!Move(s, event)
<1>1. /\ StepState = Lifecycle!StepState
      /\ STEP_TRANSITIONS = Lifecycle!STEP_TRANSITIONS
  BY DEF StepState, Lifecycle!StepState, STEP_TRANSITIONS, Lifecycle!STEP_TRANSITIONS
<1>2. QED BY <1>1 DEF WriteStep, Lifecycle!Move

\* A started step that is not VERIFIED is the current one, by PlanOrder.
LEMMA StartedIsCurrent ==
    ASSUME PlanOrder, NEW s \in Steps, state[s] \notin {"PENDING", "VERIFIED"}
    PROVE  Lifecycle!Current(s)
BY DEF PlanOrder, Lifecycle!Current

\* A row the loop writes without a new attempt number is a LoopMoves step.
LEMMA LoopRowMaps ==
    ASSUME IInv, NEW s \in Steps, state[s] # "PENDING",
           NEW event \in Lifecycle!LoopEvent, WriteStep(s, event),
           event = "REQUEST_REVISE" => attempt[s] < MaxAttempts[s],
           UNCHANGED attempt
    PROVE  Lifecycle!LoopMoves(s)
<1>1. <<state[s], event, state'[s]>> \in STEP_TRANSITIONS
  BY WriteStepIsAnArc DEF IInv, TypeOK
<1>2. state[s] # "VERIFIED"
  BY <1>1, Arcs DEF STEP_TERMINAL_STATES
<1>3. Lifecycle!Current(s)
  BY <1>2, StartedIsCurrent DEF IInv
<1>4. QED BY <1>3, MoveOfWriteStep DEF Lifecycle!LoopMoves

LEMMA LoopBeginsMaps ==
    ASSUME IInv, NEW s \in Steps, LoopBegins(s)
    PROVE  [Lifecycle!Next]_(Lifecycle!vars)
<1>1. CASE Prepare(s)
  <2>1. Lifecycle!Current(s) /\ Lifecycle!Move(s, "PREPARE")
    BY <1>1, MoveOfWriteStep DEF Prepare, Tick, Current, Lifecycle!Current
  <2>2. state[s] = "PENDING"
    BY <1>1, WriteStepIsAnArc, Arcs DEF IInv, TypeOK, Prepare
  <2>3. attempt' = [attempt EXCEPT ![s] = 1]
    BY <1>1, <2>2 DEF Prepare, AtLeastOne, IInv, StepOK
  <2>4. QED BY <2>1, <2>3 DEF Lifecycle!Prepare, Lifecycle!Next
<1>2. CASE RequestApproval(s)
  BY <1>2, LoopRowMaps DEF RequestApproval, Lifecycle!LoopEvent, Lifecycle!Next
<1>3. CASE CollectReport(s)
  BY <1>3, LoopRowMaps DEF CollectReport, WithWorker, Lifecycle!LoopEvent, Lifecycle!Next
<1>4. CASE StartReview(s)
  <2>1. state[s] = "REPORT_RECEIVED"
    <3>1. <<state[s], "START_REVIEW", state'[s]>> \in STEP_TRANSITIONS
      BY <1>4, WriteStepIsAnArc DEF IInv, TypeOK, StartReview
    <3>2. QED BY <3>1, Arcs
  <2>2. QED BY <1>4, <2>1, LoopRowMaps DEF StartReview, Lifecycle!LoopEvent, Lifecycle!Next
<1>5. CASE AbortExhausted(s)
  BY <1>5, LoopRowMaps DEF AbortExhausted, Lifecycle!LoopEvent, Lifecycle!Next
<1>6. CASE Retry(s)
  <2>1. Lifecycle!Current(s) /\ Lifecycle!Move(s, "RETRY")
    BY <1>6, MoveOfWriteStep DEF Retry, Tick, Current, Lifecycle!Current
  <2>2. QED BY <1>6, <2>1 DEF Retry, CanRetry, Lifecycle!Retry, Lifecycle!Next
<1>7. CASE BeginDispatch(s) \/ PollAbsent(s) \/ ReadForReview(s)
  BY <1>7 DEF BeginDispatch, PublishContext, PollAbsent, ReadForReview, database,
              Lifecycle!vars
<1>8. QED BY <1>1, <1>2, <1>3, <1>4, <1>5, <1>6, <1>7 DEF LoopBegins

LEMMA OperationContinuesMaps ==
    ASSUME IInv, NEW s \in Steps, OperationContinues(s)
    PROVE  [Lifecycle!Next]_(Lifecycle!vars)
<1>1. CASE CommitPublication(s)
  <2>1. \/ state[s] = "READY" /\ op.event = "DISPATCH"
        \/ state[s] = "WAITING_APPROVAL" /\ op.event = "APPROVE"
    BY <1>1 DEF IInv, NothingReadIsStale, CommitPublication
  <2>2. attempt' = attempt
    <3>1. attempt[s] # 0
      BY <2>1, KeyOfStarted
    <3>2. QED BY <1>1, <3>1 DEF CommitPublication, AtLeastOne, IInv, TypeOK
  <2>3. CASE op.event = "DISPATCH"
    BY <1>1, <2>1, <2>2, <2>3, LoopRowMaps
       DEF CommitPublication, Lifecycle!LoopEvent, Lifecycle!Next
  <2>4. CASE op.event = "APPROVE"
    <3>1. Lifecycle!Move(s, "APPROVE")
      BY <1>1, <2>4, MoveOfWriteStep DEF CommitPublication
    <3>2. QED BY <2>2, <3>1 DEF Lifecycle!HumanMoves, Lifecycle!HumanEvent, Lifecycle!Next
  <2>5. QED BY <2>1, <2>3, <2>4
<1>2. CASE FailOnDeadline(s)
  <2>1. state[s] # "PENDING"
    BY <1>2 DEF IInv, NothingReadIsStale, FailOnDeadline, WithWorker
  <2>2. QED BY <1>2, <2>1, LoopRowMaps DEF FailOnDeadline, Lifecycle!LoopEvent, Lifecycle!Next
<1>3. CASE StartWorking(s)
  BY <1>3, LoopRowMaps DEF StartWorking, Lifecycle!LoopEvent, Lifecycle!Next
<1>4. CASE CommitReview(s)
  <2>1. /\ state[s] = "REVIEWING"
        /\ op.event \in {"VERIFY", "BLOCK", "REQUEST_REVISE"}
        /\ op.event = "REQUEST_REVISE" => attempt[s] < MaxAttempts[s]
    BY <1>4 DEF IInv, NothingReadIsStale, CommitReview, CanRetry
  <2>2. PICK event \in {"VERIFY", "BLOCK", "REQUEST_REVISE"} :
           /\ WriteStep(s, event)
           /\ event = "REQUEST_REVISE" => attempt[s] < MaxAttempts[s]
    <3>1. CASE op.event = "VERIFY"
      <4>1. PICK compliant \in BOOLEAN : WriteStep(s, IF compliant THEN "VERIFY" ELSE "BLOCK")
        BY <1>4, <3>1 DEF CommitReview
      <4>2. CASE compliant
        BY <4>1, <4>2
      <4>3. CASE ~compliant
        BY <4>1, <4>3
      <4>4. QED BY <4>2, <4>3
    <3>2. CASE op.event # "VERIFY"
      BY <1>4, <2>1, <3>2 DEF CommitReview
    <3>3. QED BY <3>1, <3>2
  <2>3. QED BY <1>4, <2>1, <2>2, LoopRowMaps
            DEF CommitReview, Lifecycle!LoopEvent, Lifecycle!Next
<1>5. CASE PublishTask(s) \/ KeepWaiting(s) \/ Acknowledge(s) \/ AcknowledgeFails(s)
  BY <1>5 DEF PublishTask, KeepWaiting, Acknowledge, AcknowledgeFails, database,
              Lifecycle!vars
<1>6. QED BY <1>1, <1>2, <1>3, <1>4, <1>5 DEF OperationContinues

LEMMA HumanMaps ==
    ASSUME IInv, Human
    PROVE  [Lifecycle!Next]_(Lifecycle!vars)
<1>1. CASE PauseOrResume \/ SetMode
  BY <1>1 DEF PauseOrResume, SetMode, Lifecycle!vars
<1>2. ASSUME NEW s \in Steps, Approve(s)
      PROVE  UNCHANGED Lifecycle!vars
  BY <1>2 DEF Approve, PublishContext, database, Lifecycle!vars
<1>3. ASSUME NEW s \in Steps, Reject(s)
      PROVE  Lifecycle!HumanMoves(s)
  BY <1>3, MoveOfWriteStep DEF Reject, Lifecycle!HumanMoves, Lifecycle!HumanEvent
<1>4. ASSUME NEW s \in Steps, StepCommand(s)
      PROVE  Lifecycle!HumanMoves(s)
  <2>1. PICK event \in {"UNBLOCK", "RESOLVE", "ABORT"} : WriteStep(s, event)
    BY <1>4 DEF StepCommand
  <2>2. Lifecycle!Move(s, event) /\ event \in Lifecycle!HumanEvent
    BY <2>1, MoveOfWriteStep DEF Lifecycle!HumanEvent
  <2>3. QED BY <1>4, <2>2 DEF StepCommand, Lifecycle!HumanMoves
<1>5. QED BY <1>1, <1>2, <1>3, <1>4 DEF Human, Lifecycle!Next

LEMMA NextMaps ==
    ASSUME IInv, [Next]_vars
    PROVE  [Lifecycle!Next]_(Lifecycle!vars)
<1>1. CASE UNCHANGED vars
  BY <1>1 DEF vars, database, Lifecycle!vars
<1>2. ASSUME NEW s \in Steps, LoopBegins(s) \/ OperationContinues(s)
      PROVE  [Lifecycle!Next]_(Lifecycle!vars)
  BY <1>2, LoopBeginsMaps, OperationContinuesMaps
<1>3. CASE Human
  BY <1>3, HumanMaps
<1>4. CASE Environment
  BY <1>4 DEF Environment, Crash, WorkerReports, DeadlinePasses, database, Lifecycle!vars
<1>5. QED BY <1>1, <1>2, <1>3, <1>4 DEF Next

\* The detailed loop, with its files, crashes and faults, implements the
\* promise about the plan.
THEOREM ImplementsLifecycle == Spec => LifecycleSpec
<1>1. Init => Lifecycle!Init
  BY DEF Init, Lifecycle!Init
<1>2. IInv /\ [Next]_vars => [Lifecycle!Next]_(Lifecycle!vars)
  BY NextMaps
<1>3. QED BY <1>1, <1>2, IInvHolds, PTL DEF Spec, LifecycleSpec, Lifecycle!Spec

-----------------------------------------------------------------------------
(* A rejecting verdict may be replaced, an accepting one may not.          *)

LEMMA VerifiedStays ==
    ASSUME IInv, [Next]_vars, NEW s \in Steps, state[s] = "VERIFIED"
    PROVE  state'[s] = "VERIFIED" /\ attempt'[s] = attempt[s]
<1>1. state \in [Steps -> StepState] /\ attempt \in [Steps -> Nat]
  BY DEF IInv, TypeOK
<1>2. CASE UNCHANGED <<state, attempt>>
  BY <1>2
<1>3. ASSUME NEW t \in Steps, NEW event, Lifecycle!Move(t, event)
      PROVE  t # s /\ state'[s] = state[s]
  <2>1. STEP_TRANSITIONS = Lifecycle!STEP_TRANSITIONS
    BY DEF STEP_TRANSITIONS, Lifecycle!STEP_TRANSITIONS
  <2>2. PICK to : /\ <<state[t], event, to>> \in STEP_TRANSITIONS
                  /\ state' = [state EXCEPT ![t] = to]
    BY <1>3, <2>1 DEF Lifecycle!Move
  <2>3. state[t] # "VERIFIED"
    BY <2>2, Arcs DEF STEP_TERMINAL_STATES
  <2>4. QED BY <1>1, <2>2, <2>3
<1>4. CASE Lifecycle!Next
  <2>1. PICK t \in Steps : \/ Lifecycle!Prepare(t) \/ Lifecycle!LoopMoves(t)
                           \/ Lifecycle!Retry(t) \/ Lifecycle!HumanMoves(t)
    BY <1>4 DEF Lifecycle!Next
  <2>2. t # s /\ state'[s] = state[s]
    BY <1>3, <2>1 DEF Lifecycle!Prepare, Lifecycle!LoopMoves, Lifecycle!Retry, Lifecycle!HumanMoves
  <2>3. attempt'[s] = attempt[s]
    BY <1>1, <2>1, <2>2
    DEF Lifecycle!Prepare, Lifecycle!LoopMoves, Lifecycle!Retry, Lifecycle!HumanMoves
  <2>4. QED BY <2>2, <2>3
<1>5. QED BY <1>2, <1>4, NextMaps DEF Lifecycle!vars

\* The attempt that the gate accepted is the one its step was verified with.
AcceptedIsVerified ==
    \A k \in TaskKey : verdict[k] = "ACCEPTED" =>
        k[2] = attempt[k[1]] /\ state[k[1]] = "VERIFIED"

LEMMA VerdictsMove ==
    ASSUME IInv, [Next]_vars, NEW k \in TaskKey, verdict'[k] # verdict[k]
    PROVE  /\ k = Key(k[1]) /\ state[k[1]] = "REVIEWING" /\ attempt' = attempt
           /\ verdict'[k] = "ACCEPTED" => state'[k[1]] = "VERIFIED"
<1>1. verdict' # verdict
  OBVIOUS
<1>2. PICK s \in Steps : CommitReview(s)
  BY <1>1 DEF Next, vars, database, LoopBegins, OperationContinues, Human, Environment,
    Prepare, RequestApproval, BeginDispatch, PublishContext, CollectReport, PollAbsent,
    StartReview, ReadForReview, Retry, AbortExhausted, PublishTask, CommitPublication,
    FailOnDeadline, StartWorking, KeepWaiting, Acknowledge, AcknowledgeFails,
    PauseOrResume, SetMode, Approve, Reject, StepCommand, Crash, WorkerReports,
    DeadlinePasses
<1>3. state[s] = "REVIEWING" /\ attempt' = attempt
  BY <1>2 DEF IInv, NothingReadIsStale, CommitReview
<1>4. PICK compliant \in BOOLEAN :
         /\ verdict' = [verdict EXCEPT ![Key(s)] = IF compliant THEN "ACCEPTED" ELSE "REJECTED"]
         /\ WriteStep(s, IF compliant THEN "VERIFY" ELSE "BLOCK")
  BY <1>1, <1>2 DEF CommitReview, gate
<1>5. k = Key(s) /\ k[1] = s /\ verdict \in [TaskKey -> {"NONE", "ACCEPTED", "REJECTED"}]
  BY <1>4 DEF IInv, TypeOK, Key
<1>6. verdict'[k] = "ACCEPTED" => compliant
  BY <1>4, <1>5
<1>7. compliant => state'[s] = "VERIFIED"
  <2> SUFFICES ASSUME compliant PROVE state'[s] = "VERIFIED"
    OBVIOUS
  <2>1. WriteStep(s, "VERIFY")
    BY <1>4
  <2>2. <<state[s], "VERIFY", state'[s]>> \in STEP_TRANSITIONS
    BY <2>1, WriteStepIsAnArc DEF IInv, TypeOK
  <2>3. QED BY <2>2, Arcs
<1>8. QED BY <1>3, <1>5, <1>6, <1>7

LEMMA NextAccepted ==
    ASSUME IInv, AcceptedIsVerified, [Next]_vars
    PROVE  /\ AcceptedIsVerified'
           /\ \A k \in TaskKey : verdict[k] = "ACCEPTED" =>
                 verdict'[k] = "ACCEPTED" /\ state'[k[1]] = "VERIFIED"
<1>1. SUFFICES ASSUME NEW k \in TaskKey
               PROVE  /\ verdict'[k] = "ACCEPTED" =>
                           k[2] = attempt'[k[1]] /\ state'[k[1]] = "VERIFIED"
                      /\ verdict[k] = "ACCEPTED" =>
                           verdict'[k] = "ACCEPTED" /\ state'[k[1]] = "VERIFIED"
  BY DEF AcceptedIsVerified
<1>2. k[1] \in Steps
  BY KeyParts
<1>3. CASE verdict'[k] = verdict[k]
  BY <1>2, <1>3, VerifiedStays DEF AcceptedIsVerified
<1>4. CASE verdict'[k] # verdict[k]
  <2>1. /\ k = Key(k[1]) /\ state[k[1]] = "REVIEWING" /\ attempt' = attempt
        /\ verdict'[k] = "ACCEPTED" => state'[k[1]] = "VERIFIED"
    BY <1>4, VerdictsMove
  <2>2. verdict[k] # "ACCEPTED"
    BY <2>1 DEF AcceptedIsVerified
  <2>3. k[2] = attempt[k[1]]
    BY <2>1 DEF Key
  <2>4. QED BY <2>1, <2>2, <2>3
<1>5. QED BY <1>3, <1>4

\* The gate's acceptance of an attempt means that its step is VERIFIED with it:
\* gate and transition commit together, and VERIFIED is final (_review).
THEOREM AcceptedMeansVerified == Spec => []AcceptedIsVerified
<1>1. Init => AcceptedIsVerified
  BY DEF Init, AcceptedIsVerified
<1>2. QED BY <1>1, NextAccepted, IInvHolds, PTL DEF Spec

\* A step is VERIFIED exactly with the gate's acceptance of its current attempt:
\* no crash, override or second review leaves one without the other (_review).
THEOREM GateDecides == Spec => []VerifiedExactlyByGate
<1>1. VerifiedHasVerdict /\ AcceptedIsVerified => VerifiedExactlyByGate
  BY DEF VerifiedHasVerdict, AcceptedIsVerified, VerifiedExactlyByGate
<1>2. QED BY <1>1, RowsFilesAndVerdictsAgree, AcceptedMeansVerified, PTL

\* Once the gate accepted an attempt, nothing records another verdict on it and
\* nothing moves its step: neither a second review, nor an override, nor a crash.
\* (A verdict that rejects can be replaced; see VerdictIsFinal.)
AcceptanceStands ==
    [][\A k \in TaskKey : verdict[k] = "ACCEPTED" =>
          verdict'[k] = "ACCEPTED" /\ state'[k[1]] = "VERIFIED"]_vars

\* What the gate accepted stays accepted, and what it was accepted for stays
\* verified (_review, HumanOverride).
THEOREM AcceptedStands == Spec => AcceptanceStands
BY NextAccepted, AcceptedMeansVerified, IInvHolds, PTL DEF Spec, AcceptanceStands

-----------------------------------------------------------------------------
(* Without crashes and failing archives, a report decides once.            *)

\* What the channel holds for the current attempt k of a step.
Clean(k) == reports[k] = Absent /\ worker[k] = "none"
Awaited(k) ==
    \/ reports[k] = Absent /\ worker[k] = "owes"
    \/ reports[k] # Absent /\ reports[k].mark # "stale" /\ worker[k] = "none"
Returned(k) == Readable(k) /\ worker[k] = "none"

Publishing(s) == op.phase = "task" /\ op.step = s
Acking(s) == op.phase = "ack" /\ op.step = s

Traced(s) ==
    /\ state[s] \in {"READY", "WAITING_APPROVAL"} /\ ~Publishing(s) => Clean(Key(s))
    /\ state[s] \in WithWorker \/ Publishing(s) => Awaited(Key(s))
    /\ state[s] \in {"REPORT_RECEIVED", "REVIEWING"} \/ Acking(s) => Returned(Key(s))
    /\ state[s] \in {"BLOCKED", "REVISE", "VERIFIED"} /\ ~Acking(s) => Clean(Key(s))

AllTraced == \A s \in Steps : Traced(s)

\* A step that leaves the row, the duty and the report of s alone, and begins or
\* ends nothing on s, leaves it traced.
LEMMA TracedStays ==
    ASSUME NEW s \in Steps, Traced(s), state'[s] = state[s],
           Publishing(s)' <=> Publishing(s), Acking(s)' <=> Acking(s),
           Key(s)' = Key(s), reports'[Key(s)] = reports[Key(s)],
           worker'[Key(s)] = worker[Key(s)]
    PROVE  Traced(s)'
<1>1. /\ Clean(Key(s))' <=> Clean(Key(s))
      /\ Awaited(Key(s))' <=> Awaited(Key(s))
      /\ Returned(Key(s))' <=> Returned(Key(s))
  BY DEF Clean, Awaited, Returned, Readable
<1>2. QED BY <1>1 DEF Traced

\* A step that is not prepared yet has no operation, and nothing to be traced.
LEMMA PendingIsTraced ==
    ASSUME NothingReadIsStale, NEW s \in Steps, state[s] = "PENDING"
    PROVE  Traced(s)
BY DEF Traced, NothingReadIsStale, Publishing, Acking, WithWorker

LEMMA OthersStayTraced ==
    ASSUME IInv, IInv', AllTraced, NEW t \in Steps, LoopBegins(t) \/ OperationContinues(t)
    PROVE  \A s \in Steps : s # t => Traced(s)'
<1>1. SUFFICES ASSUME NEW s \in Steps, s # t PROVE Traced(s)'
  OBVIOUS
<1>2. state'[s] = state[s] /\ attempt'[s] = attempt[s]
  BY <1>1 DEF IInv, TypeOK, LoopBegins, OperationContinues, WriteStep,
    Prepare, RequestApproval, BeginDispatch, PublishContext, CollectReport, PollAbsent,
    StartReview, ReadForReview, Retry, AbortExhausted, PublishTask, CommitPublication,
    FailOnDeadline, StartWorking, KeepWaiting, CommitReview, Acknowledge, AcknowledgeFails,
    database
<1>3. /\ ~Publishing(s) /\ ~Acking(s)
      /\ ~Publishing(s)' /\ ~Acking(s)'
  BY <1>1 DEF Publishing, Acking, LoopBegins, OperationContinues, Tick, InFlight, Idle,
    Prepare, RequestApproval, BeginDispatch, PublishContext, CollectReport, PollAbsent,
    StartReview, ReadForReview, Retry, AbortExhausted, PublishTask, CommitPublication,
    FailOnDeadline, StartWorking, KeepWaiting, CommitReview, Acknowledge, AcknowledgeFails
<1>4. CASE state[s] = "PENDING"
  BY <1>2, <1>4, PendingIsTraced DEF IInv, Traced, Publishing, Acking,
    NothingReadIsStale, WithWorker
<1>5. CASE state[s] # "PENDING"
  <2>1. Key(s) \in TaskKey /\ Key(s)[1] = s /\ Key(s)' = Key(s)
    BY <1>2, <1>5, KeyOfStarted DEF Key
  <2>2. Key(t) # Key(s) /\ DispatchKey(t) # Key(s)
    BY <1>1 DEF Key, DispatchKey
  <2>3. reports'[Key(s)] = reports[Key(s)] /\ worker'[Key(s)] = worker[Key(s)]
    BY <2>1, <2>2 DEF IInv, TypeOK, Decided, LoopBegins, OperationContinues, channel,
      Prepare, RequestApproval, BeginDispatch, PublishContext, CollectReport, PollAbsent,
      StartReview, ReadForReview, Retry, AbortExhausted, PublishTask, CommitPublication,
      FailOnDeadline, StartWorking, KeepWaiting, CommitReview, Acknowledge, AcknowledgeFails
  <2>4. QED BY <1>2, <1>3, <2>1, <2>3, TracedStays DEF AllTraced
<1>6. QED BY <1>4, <1>5

\* A new attempt finds nothing in the channel.
LEMMA NewAttemptIsClean ==
    ASSUME IInv, NEW s \in Steps, NEW n \in Nat, n > attempt[s], n <= MaxAttempts[s]
    PROVE  Clean(<<s, n>>)
<1>1. <<s, n>> \in TaskKey
  BY Keys DEF IInv, TypeOK
<1>2. KeyOK(<<s, n>>)
  BY <1>1 DEF IInv
<1>3. QED BY <1>2 DEF KeyOK, Clean

LEMMA LoopBeginsTraced ==
    ASSUME IInv, IInv', AllTraced, NEW s \in Steps, LoopBegins(s)
    PROVE  Traced(s)'
<1>1. Traced(s) /\ state \in [Steps -> StepState] /\ overdue \in [Steps -> BOOLEAN]
      /\ attempt \in [Steps -> Nat]
  BY DEF AllTraced, IInv, TypeOK
<1>2. CASE Prepare(s)
  <2>1. <<state[s], "PREPARE", state'[s]>> \in STEP_TRANSITIONS
    BY <1>1, <1>2, WriteStepIsAnArc DEF Prepare
  <2>2. state[s] = "PENDING" /\ state'[s] = "READY"
    BY <2>1, Arcs
  <2>3. attempt[s] = 0 /\ attempt'[s] = 1
    BY <1>1, <1>2, <2>2 DEF IInv, StepOK, Prepare, AtLeastOne
  <2>4. Clean(<<s, 1>>)
    BY <2>3, BudgetsArePositive, NewAttemptIsClean
  <2>5. Clean(Key(s))' /\ op' = Idle
    BY <1>2, <2>3, <2>4 DEF Prepare, Tick, Clean, Key, channel
  <2>6. QED BY <2>2, <2>5 DEF Traced, Publishing, Acking, Idle, WithWorker
<1>3. CASE Retry(s)
  <2>1. <<state[s], "RETRY", state'[s]>> \in STEP_TRANSITIONS
    BY <1>1, <1>3, WriteStepIsAnArc DEF Retry
  <2>2. state'[s] = "READY"
    BY <2>1, Arcs
  <2>3. attempt'[s] = attempt[s] + 1 /\ attempt[s] < MaxAttempts[s] /\ attempt[s] \in Nat
    BY <1>1, <1>3 DEF Retry, CanRetry
  <2>4. Clean(<<s, attempt[s] + 1>>)
    BY <2>3, BudgetsArePositive, NewAttemptIsClean
  <2>5. Clean(Key(s))' /\ op' = Idle
    BY <1>3, <2>3, <2>4 DEF Retry, Tick, Clean, Key, channel
  <2>6. QED BY <2>2, <2>5 DEF Traced, Publishing, Acking, Idle, WithWorker
<1>4. CASE RequestApproval(s) \/ CollectReport(s) \/ StartReview(s) \/ AbortExhausted(s)
  <2>1. UNCHANGED <<attempt, reports, worker>> /\ op = Idle /\ op' = Idle
    BY <1>4 DEF RequestApproval, CollectReport, StartReview, AbortExhausted, Tick, channel
  <2>2. /\ Clean(Key(s)) => Clean(Key(s))'
        /\ Returned(Key(s)) => Returned(Key(s))'
    BY <2>1 DEF Clean, Returned, Readable, Key
  <2>3. CASE RequestApproval(s)
    <3>0. <<state[s], "REQUEST_APPROVAL", state'[s]>> \in STEP_TRANSITIONS
      BY <1>1, <2>3, WriteStepIsAnArc DEF RequestApproval
    <3>1. state[s] = "READY" /\ state'[s] = "WAITING_APPROVAL"
      BY <3>0, <2>3, Arcs DEF RequestApproval
    <3>2. QED BY <1>1, <2>1, <2>2, <3>1 DEF Traced, Publishing, Acking, Idle, WithWorker
  <2>4. CASE CollectReport(s)
    <3>0. <<state[s], "RECEIVE_REPORT", state'[s]>> \in STEP_TRANSITIONS
      BY <1>1, <2>4, WriteStepIsAnArc DEF CollectReport
    <3>1. state[s] \in WithWorker /\ state'[s] = "REPORT_RECEIVED" /\ Readable(Key(s))
      BY <3>0, <2>4, Arcs DEF CollectReport
    <3>2. Returned(Key(s))
      BY <1>1, <3>1 DEF Traced, Awaited, Returned, Readable, Absent, NoReport, ReportStatus
    <3>3. QED BY <2>1, <2>2, <3>1, <3>2 DEF Traced, Publishing, Acking, Idle, WithWorker
  <2>5. CASE StartReview(s)
    <3>0. <<state[s], "START_REVIEW", state'[s]>> \in STEP_TRANSITIONS
      BY <1>1, <2>5, WriteStepIsAnArc DEF StartReview
    <3>1. state[s] = "REPORT_RECEIVED" /\ state'[s] = "REVIEWING"
      BY <3>0, <2>5, Arcs DEF StartReview
    <3>2. QED BY <1>1, <2>1, <2>2, <3>1 DEF Traced, Publishing, Acking, Idle, WithWorker
  <2>6. CASE AbortExhausted(s)
    <3>0. <<state[s], "ABORT", state'[s]>> \in STEP_TRANSITIONS
      BY <1>1, <2>6, WriteStepIsAnArc DEF AbortExhausted
    <3>1. state'[s] = "ABORTED"
      BY <3>0, <2>6, Arcs DEF AbortExhausted
    <3>2. QED BY <2>1, <3>1 DEF Traced, Publishing, Acking, Idle, WithWorker
  <2>7. QED BY <1>4, <2>3, <2>4, <2>5, <2>6
<1>5. CASE BeginDispatch(s) \/ PollAbsent(s) \/ ReadForReview(s)
  <2>1. UNCHANGED <<state, attempt, reports, worker>>
    BY <1>5 DEF BeginDispatch, PublishContext, PollAbsent, ReadForReview, database, channel
  <2>2. /\ ~Publishing(s) /\ ~Acking(s)
        /\ ~Publishing(s)' /\ ~Acking(s)'
    BY <1>5 DEF BeginDispatch, PublishContext, PollAbsent, ReadForReview, Tick, Publishing,
      Acking, Idle, InFlight
  <2>3. QED BY <1>1, <2>1, <2>2, TracedStays DEF Key
<1>6. QED BY <1>2, <1>3, <1>4, <1>5 DEF LoopBegins

LEMMA OperationTraced ==
    ASSUME Faults = {}, IInv, IInv', AllTraced, NEW s \in Steps, OperationContinues(s)
    PROVE  Traced(s)'
<1>1. /\ Traced(s) /\ NothingReadIsStale
      /\ state \in [Steps -> StepState] /\ overdue \in [Steps -> BOOLEAN]
      /\ attempt \in [Steps -> Nat]
      /\ reports \in [TaskKey -> Report] /\ worker \in [TaskKey -> WorkerDuty]
  BY DEF AllTraced, IInv, TypeOK
<1>2. state[s] # "PENDING"
  BY <1>1 DEF OperationContinues, PublishTask, CommitPublication, FailOnDeadline, StartWorking,
    KeepWaiting, CommitReview, Acknowledge, AcknowledgeFails, NothingReadIsStale, WithWorker
<1>3. Key(s) \in TaskKey /\ DispatchKey(s) = Key(s) /\ attempt[s] # 0
  BY <1>2, KeyOfStarted
<1>4. op # Idle /\ op.step = s
  BY DEF OperationContinues, PublishTask, CommitPublication, FailOnDeadline, StartWorking,
    KeepWaiting, CommitReview, Acknowledge, AcknowledgeFails, Idle
<1>5. CASE PublishTask(s)
  <2>1. state[s] \in {"READY", "WAITING_APPROVAL"} /\ ~Publishing(s) /\ Clean(Key(s))
    BY <1>1, <1>5 DEF PublishTask, NothingReadIsStale, Publishing, Traced
  <2>2. /\ UNCHANGED <<state, attempt, reports>> /\ Publishing(s)' /\ ~Acking(s)'
        /\ worker' = [worker EXCEPT ![Key(s)] = "owes"]
    BY <1>3, <1>5 DEF PublishTask, Publishing, Acking, InFlight, database
  <2>3. Awaited(Key(s))'
    BY <1>1, <1>3, <2>1, <2>2 DEF Clean, Awaited, Key
  <2>4. QED BY <2>1, <2>2, <2>3 DEF Traced, WithWorker
<1>6. CASE CommitPublication(s)
  <2>1. Awaited(Key(s)) /\ op.event \in {"DISPATCH", "APPROVE"}
    BY <1>1, <1>6 DEF CommitPublication, Publishing, Traced, NothingReadIsStale
  <2>2. /\ UNCHANGED <<attempt, reports, worker>> /\ op' = Idle
        /\ <<state[s], op.event, state'[s]>> \in STEP_TRANSITIONS
    BY <1>1, <1>3, <1>6, WriteStepIsAnArc DEF CommitPublication, AtLeastOne, channel
  <2>3. state'[s] = "DISPATCHED"
    BY <2>1, <2>2, Arcs
  <2>4. Awaited(Key(s))'
    BY <2>1, <2>2 DEF Awaited, Key
  <2>5. QED BY <2>2, <2>3, <2>4 DEF Traced, Publishing, Acking, Idle, WithWorker
<1>7. CASE FailOnDeadline(s)
  <2>1. <<state[s], "FAIL", state'[s]>> \in STEP_TRANSITIONS /\ op' = Idle
    BY <1>1, <1>7, WriteStepIsAnArc DEF FailOnDeadline
  <2>2. state'[s] = "FAILED"
    BY <2>1, Arcs
  <2>3. QED BY <2>1, <2>2 DEF Traced, Publishing, Acking, Idle, WithWorker
<1>8. CASE StartWorking(s) \/ KeepWaiting(s)
  <2>1. /\ state[s] \in WithWorker /\ UNCHANGED <<attempt, reports, worker>> /\ op' = Idle
    BY <1>8 DEF StartWorking, KeepWaiting, database, channel, WithWorker
  <2>2. state'[s] \in WithWorker
    <3>1. CASE StartWorking(s)
      <4>1. <<state[s], "CLINE_START", state'[s]>> \in STEP_TRANSITIONS
        BY <1>1, <3>1, WriteStepIsAnArc DEF StartWorking
      <4>2. QED BY <4>1, Arcs DEF WithWorker
    <3>2. CASE KeepWaiting(s)
      BY <2>1, <3>2 DEF KeepWaiting, database
    <3>3. QED BY <1>8, <3>1, <3>2
  <2>3. Awaited(Key(s))'
    BY <1>1, <2>1 DEF Traced, Awaited, Key
  <2>4. QED BY <2>1, <2>2, <2>3 DEF Traced, Publishing, Acking, Idle, WithWorker
<1>9. CASE CommitReview(s)
  <2>1. state[s] = "REVIEWING" /\ op.event \in {"VERIFY", "BLOCK", "REQUEST_REVISE"}
    BY <1>1, <1>9 DEF CommitReview, NothingReadIsStale
  <2>2. Returned(Key(s))
    BY <1>1, <2>1 DEF Traced
  <2>3. /\ UNCHANGED attempt /\ Acking(s)' /\ ~Publishing(s)'
        /\ Decided(Key(s))
    BY <1>9 DEF CommitReview, Acking, Publishing, InFlight
  <2>4. reports'[Key(s)].status = reports[Key(s)].status /\ worker'[Key(s)] = "none"
    BY <1>1, <1>3, <2>2, <2>3 DEF Decided, Returned, Report
  <2>5. Returned(Key(s))'
    BY <2>2, <2>3, <2>4 DEF Returned, Readable, Key
  <2>6. state'[s] \in {"VERIFIED", "BLOCKED", "REVISE"}
    <3>1. PICK event \in {"VERIFY", "BLOCK", "REQUEST_REVISE"} : WriteStep(s, event)
      BY <1>9, <2>1 DEF CommitReview
    <3>2. <<state[s], event, state'[s]>> \in STEP_TRANSITIONS
      BY <1>1, <3>1, WriteStepIsAnArc
    <3>3. QED BY <3>2, Arcs
  <2>7. QED BY <2>3, <2>5, <2>6 DEF Traced, WithWorker
<1>10. CASE Acknowledge(s)
  <2>1. Returned(Key(s)) /\ state[s] \in {"VERIFIED", "REVISE", "BLOCKED"}
    BY <1>1, <1>10 DEF Traced, Acking, Acknowledge, NothingReadIsStale
  <2>2. /\ UNCHANGED <<state, attempt, worker>> /\ op' = Idle
        /\ reports' = [reports EXCEPT ![Key(s)] = Absent]
    BY <1>10 DEF Acknowledge, database
  <2>3. Clean(Key(s))'
    BY <1>1, <1>3, <2>1, <2>2 DEF Returned, Clean, Key
  <2>4. QED BY <2>1, <2>2, <2>3 DEF Traced, Publishing, Acking, Idle, WithWorker
<1>11. ~AcknowledgeFails(s)
  BY <1>1 DEF AcknowledgeFails, Traced, Acking, Returned
<1>12. QED
  BY <1>5, <1>6, <1>7, <1>8, <1>9, <1>10, <1>11 DEF OperationContinues

LEMMA HumanTraced ==
    ASSUME IInv, IInv', NoConflict, AllTraced, Human
    PROVE  AllTraced'
<1>1. SUFFICES ASSUME NEW s \in Steps PROVE Traced(s)'
  BY DEF AllTraced
<1>2. /\ Traced(s) /\ op = Idle /\ UNCHANGED <<attempt, reports, worker>>
      /\ ~Publishing(s) /\ ~Acking(s)
      /\ ~Publishing(s)' /\ ~Acking(s)'
  BY DEF AllTraced, Human, PauseOrResume, SetMode, Approve, PublishContext, Reject, StepCommand,
    database, channel, Publishing, Acking, Idle, InFlight
<1>3. state \in [Steps -> StepState] /\ overdue \in [Steps -> BOOLEAN]
  BY DEF IInv, TypeOK
<1>4. CASE state'[s] = state[s]
  BY <1>2, <1>4, TracedStays DEF Key
<1>5. CASE state'[s] # state[s]
  <2>1. PICK event \in {"REJECT", "UNBLOCK", "RESOLVE", "ABORT"} : WriteStep(s, event)
    <3>1. PICK t \in Steps, event \in {"REJECT", "UNBLOCK", "RESOLVE", "ABORT"} : WriteStep(t, event)
      BY <1>5 DEF Human, PauseOrResume, SetMode, Approve, PublishContext, Reject, StepCommand,
        database
    <3>2. t = s
      BY <1>3, <1>5, <3>1, WriteStepIsAnArc
    <3>3. QED BY <3>1, <3>2
  <2>2. <<state[s], event, state'[s]>> \in STEP_TRANSITIONS
    BY <1>3, <2>1, WriteStepIsAnArc
  <2>3. \/ state'[s] = "ABORTED"
        \/ state'[s] = "READY" /\ state[s] \in {"WAITING_APPROVAL", "BLOCKED"}
    BY <2>1, <2>2, Arcs DEF NoConflict
  <2>4. state'[s] = "READY" => Clean(Key(s))'
    BY <1>2, <2>3 DEF Traced, Clean, Key
  <2>5. QED BY <1>2, <2>3, <2>4 DEF Traced, WithWorker
<1>6. QED BY <1>4, <1>5

\* The one report of a publication arrives where it is awaited, or where nobody
\* looks any more.
LEMMA EnvironmentTraced ==
    ASSUME Faults = {}, IInv, IInv', AllTraced, Environment
    PROVE  AllTraced'
<1>1. SUFFICES ASSUME NEW s \in Steps PROVE Traced(s)'
  BY DEF AllTraced
<1>2. /\ Traced(s) /\ UNCHANGED <<state, attempt, op>>
      /\ reports \in [TaskKey -> Report] /\ worker \in [TaskKey -> WorkerDuty]
  BY DEF AllTraced, IInv, TypeOK, Environment, Crash, WorkerReports, DeadlinePasses, database
<1>3. (Publishing(s)' <=> Publishing(s)) /\ (Acking(s)' <=> Acking(s)) /\ Key(s)' = Key(s)
  BY <1>2 DEF Publishing, Acking, Key
<1>4. CASE UNCHANGED <<reports, worker>>
  BY <1>2, <1>3, <1>4, TracedStays
<1>5. ASSUME NEW k \in TaskKey, WorkerReports(k)
      PROVE  Traced(s)'
  <2>1. PICK answer \in Answers :
           reports' = [reports EXCEPT ![k] =
              [status |-> answer.status,
               open |-> answer.open,
               mark |-> CASE worker[k] = "late" -> "stale"
                          [] worker[k] # "late" /\ overdue[k[1]] -> "late"
                          [] worker[k] # "late" /\ ~overdue[k[1]] -> "fresh"]]
    BY <1>5 DEF WorkerReports
  <2>2. worker[k] # "none" /\ worker' = [worker EXCEPT ![k] = "none"]
    BY <1>5 DEF WorkerReports
  <2>3. CASE k # Key(s)
    BY <1>2, <1>3, <2>1, <2>2, <2>3, TracedStays
  <2>4. CASE k = Key(s)
    <3>1. ~Clean(k) /\ ~Returned(k)
      BY <2>2 DEF Clean, Returned
    <3>2. state[s] \in WithWorker \/ Publishing(s) => Awaited(k)'
      <4>1. SUFFICES ASSUME Awaited(k) PROVE Awaited(k)'
        BY <1>2, <2>4 DEF Traced
      <4>2. worker[k] = "owes"
        BY <2>2, <4>1 DEF Awaited
      <4>3. reports'[k].status = answer.status /\ worker'[k] = "none"
        BY <1>2, <2>1, <2>2
      <4>4. reports'[k].mark # "stale"
        <5>1. overdue[k[1]] \in BOOLEAN
          BY KeyParts DEF IInv, TypeOK
        <5>2. CASE overdue[k[1]]
          BY <1>2, <2>1, <4>2, <5>2
        <5>3. CASE ~overdue[k[1]]
          BY <1>2, <2>1, <4>2, <5>3
        <5>4. QED BY <5>1, <5>2, <5>3
      <4>5. answer.status # NoReport
        BY EnvironmentInputs DEF Answer, ReportStatus, NoReport, Malformed
      <4>6. reports'[k] # Absent
        BY <4>3, <4>5 DEF Absent
      <4>7. QED BY <4>3, <4>4, <4>6 DEF Awaited
    <3>3. QED BY <1>2, <1>3, <2>4, <3>1, <3>2 DEF Traced
  <2>5. QED BY <2>3, <2>4
<1>6. ~Crash
  BY DEF Crash
<1>7. QED BY <1>4, <1>5, <1>6 DEF Environment, DeadlinePasses, channel

LEMMA NextTraced ==
    ASSUME Faults = {}, IInv, IInv', NoConflict, AllTraced, [Next]_vars
    PROVE  AllTraced'
<1>1. CASE UNCHANGED vars
  <2>1. SUFFICES ASSUME NEW s \in Steps PROVE Traced(s)'
    BY DEF AllTraced
  <2>2. UNCHANGED <<state, attempt, reports, worker, op>>
    BY <1>1 DEF vars, database, channel
  <2>3. QED BY <2>2, TracedStays DEF AllTraced, Publishing, Acking, Key
<1>2. ASSUME NEW t \in Steps, LoopBegins(t) \/ OperationContinues(t)
      PROVE  AllTraced'
  BY <1>2, LoopBeginsTraced, OperationTraced, OthersStayTraced DEF AllTraced
<1>3. QED
  BY <1>1, <1>2, HumanTraced, EnvironmentTraced DEF Next

\* A report decides twice only because of a crash or of an archive that fails:
\* without these faults ReportDecidesOnce holds, for every worker, every budget
\* and however often a human unblocks a step or time runs out (_review,
\* _acknowledge, HumanOverride).
THEOREM OnlyFaultsReplay ==
    ASSUME Faults = {}
    PROVE  Spec => ReportDecidesOnce
<1>1. Init => AllTraced /\ NoConflict
  BY DEF Init, AllTraced, Traced, NoConflict, Publishing, Acking, Idle, WithWorker
<1>2. IInv /\ IInv' /\ NoConflict /\ AllTraced /\ [Next]_vars => AllTraced' /\ NoConflict'
  BY NextTraced, StepHasNoConflict
<1>3. IInv /\ AllTraced =>
        \A s \in Steps : state[s] \in WithWorker /\ state'[s] = "REPORT_RECEIVED"
           => reports[Key(s)].mark # "stale"
  BY DEF AllTraced, Traced, Awaited, Absent
<1>4. QED BY <1>1, <1>2, <1>3, IInvHolds, PTL DEF Spec, ReportDecidesOnce

=============================================================================
