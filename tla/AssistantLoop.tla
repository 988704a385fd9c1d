---------------------------- MODULE AssistantLoop ----------------------------
(***************************************************************************)
(* The Assistant <-> worker loop over one database and one file channel:   *)
(* Orchestrator.run_once, ApprovalGate, HumanOverride, publish_task, the   *)
(* realization gate and the file operations of ClineWorkerAdapter.         *)
(*                                                                         *)
(* Rows of SQLite change in one step per transaction.  The file channel    *)
(* cannot join a transaction, so an operation that touches both is several *)
(* steps; "op" is the operation in flight.  The process is single-threaded *)
(* (no other operation starts while one is in flight), but the worker, the *)
(* clock and a crash may come between any two of its steps.                *)
(***************************************************************************)
EXTENDS Naturals, Plan, StepFSM, LoopPolicy

CONSTANTS
    Risk,            \* Step.risk
    RequiresHuman,   \* Step.requires_human
    Modes,           \* the operating modes the operator switches between
    Answers,         \* the report files the worker may write
    TimeoutEnabled,  \* Orchestrator.timeout is not None
    Faults           \* "crash": the process dies between two steps;
                     \* "ack": the archive move of a report fails

NoReport == "NONE"
Malformed == "INVALID"
Answer == [status : ReportStatus \cup {Malformed}, open : BOOLEAN]

ASSUME PolicyInputs ==
    /\ Risk \in [Steps -> RiskLevel]
    /\ RequiresHuman \in [Steps -> BOOLEAN]
    /\ Modes \subseteq Mode
    /\ Modes # {}
ASSUME EnvironmentInputs ==
    /\ Answers \subseteq Answer
    /\ TimeoutEnabled \in BOOLEAN
    /\ Faults \subseteq {"crash", "ack"}

\* The identity (step_no, attempt) of a Task row, an artefact and a verdict.
TaskKey == UNION {{s} \X (1 .. MaxAttempts[s]) : s \in Steps}

VARIABLES
    mode,       \* Project.mode
    paused,     \* Project.paused
    state,      \* Step.state
    attempt,    \* Step.attempt
    overdue,    \* the clock is past last_update_at + timeout
    tasks,      \* Task rows: the state of each, or "NONE"
    verdict,    \* realization decisions: "ACCEPTED", "REJECTED" or "NONE"
    findings,   \* keys with at least one persisted realization finding
    contexts,   \* context files in context/
    taskFiles,  \* task files in to_cline/
    reports,    \* report files in from_cline/
    worker,     \* the worker's duty to a published task
    op          \* the operation in flight

database == <<mode, paused, state, attempt, overdue, tasks, verdict, findings>>
channel == <<contexts, taskFiles, reports, worker>>
vars == <<database, channel, op>>

\* mark: "fresh" when written in time for the dispatch that asked for it,
\* "late" when written past the deadline, "stale" once the outcome of its
\* attempt is decided.  The program never reads it; properties do.
Report == [status : ReportStatus \cup {NoReport, Malformed},
           open : BOOLEAN,
           mark : {"fresh", "late", "stale"}]
Absent == [status |-> NoReport, open |-> FALSE, mark |-> "fresh"]

\* "owes": a publication awaits its one report; "late": that report is still
\* to come although the outcome of the attempt is already decided.
WorkerDuty == {"none", "owes", "late"}

\* phase: "context" and "task" name the artefact publish_task wrote last,
\* "absent" is a poll that found no report, "review" a report read back by
\* _review, "ack" a committed outcome whose report is not archived yet.
Operation == [phase : {"idle", "context", "task", "absent", "review", "ack"},
              step : Nat,
              event : StepEvent \cup {"NONE"}]
Idle == [phase |-> "idle", step |-> 0, event |-> "NONE"]
InFlight(phase, s, event) == [phase |-> phase, step |-> s, event |-> event]

Init ==
    /\ mode \in Modes
    /\ paused = FALSE
    /\ state = [s \in Steps |-> "PENDING"]
    /\ attempt = [s \in Steps |-> 0]
    /\ overdue = [s \in Steps |-> FALSE]
    /\ tasks = [k \in TaskKey |-> "NONE"]
    /\ verdict = [k \in TaskKey |-> "NONE"]
    /\ findings = {}
    /\ contexts = {}
    /\ taskFiles = {}
    /\ reports = [k \in TaskKey |-> Absent]
    /\ worker = [k \in TaskKey |-> "none"]
    /\ op = Idle

-----------------------------------------------------------------------------
AtLeastOne(n) == IF n = 0 THEN 1 ELSE n

Key(s) == <<s, attempt[s]>>
DispatchKey(s) == <<s, AtLeastOne(attempt[s])>>

\* read_report would return the file; Malformed makes it raise instead.
Readable(k) == reports[k].status \in ReportStatus

NeedsApproval(s) == requires_approval(mode, Risk[s], RequiresHuman[s])

CanRetry(s) == attempt[s] < MaxAttempts[s]

MutantCurrent(s) == state[s] # "VERIFIED"
Current(s) ==
    /\ state[s] # "VERIFIED"
    /\ \A t \in Steps : t < s => state[t] = "VERIFIED"

\* run_once reaches the handler of step s.
Tick(s) ==
    /\ op = Idle
    /\ ~paused
    /\ Current(s)

\* One persisted Step row: the FSM target and a new last_update_at.
WriteStep(s, event) ==
    /\ \E to \in StepState :
          /\ <<state[s], event, to>> \in STEP_TRANSITIONS
          /\ state' = [state EXCEPT ![s] = to]
    /\ overdue' = [overdue EXCEPT ![s] = FALSE]

\* The subordinate Task row, written in the same transaction as the step.
WriteTask(k, event) ==
    tasks' = [tasks EXCEPT ![k] = AdvanceTask(@, event)]

\* Bookkeeping for the properties: the outcome of k is decided, so a report
\* that is still in the channel, or still to come, is no longer awaited.
Decided(k) ==
    /\ reports' = IF reports[k] = Absent
                  THEN reports
                  ELSE [reports EXCEPT ![k].mark = "stale"]
    /\ worker' = [worker EXCEPT ![k] = IF @ = "none" THEN "none" ELSE "late"]

-----------------------------------------------------------------------------
(* Preparation, approval policy and dispatch.                              *)

Prepare(s) ==
    /\ Tick(s)
    /\ WriteStep(s, "PREPARE")
    /\ attempt' = [attempt EXCEPT ![s] = AtLeastOne(@)]
    /\ UNCHANGED <<mode, paused, tasks, verdict, findings, channel, op>>

RequestApproval(s) ==
    /\ Tick(s)
    /\ state[s] = "READY"
    /\ NeedsApproval(s)
    /\ WriteStep(s, "REQUEST_APPROVAL")
    /\ UNCHANGED <<mode, paused, attempt, tasks, verdict, findings, channel, op>>

\* ClineWorkerAdapter.dispatch publishes the context file first.
MutantPublishContext(s, event) ==
    /\ op' = InFlight("context", s, event)
    /\ UNCHANGED <<database, contexts, taskFiles, reports, worker>>
PublishContext(s, event) ==
    /\ contexts' = contexts \cup {DispatchKey(s)}
    /\ op' = InFlight("context", s, event)
    /\ UNCHANGED <<database, taskFiles, reports, worker>>

MutantBeginDispatch(s) ==
    /\ Tick(s)
    /\ state[s] = "READY"
    /\ PublishContext(s, "DISPATCH")
BeginDispatch(s) ==
    /\ Tick(s)
    /\ state[s] = "READY"
    /\ ~NeedsApproval(s)
    /\ PublishContext(s, "DISPATCH")

\* The human go-ahead needs neither an unpaused project nor the current step.
Approve(s) ==
    /\ op = Idle
    /\ state[s] = "WAITING_APPROVAL"
    /\ PublishContext(s, "APPROVE")

\* The task file is the commit marker of the channel: once it is there the
\* worker may start.  A second publication replaces the first in place.
PublishTask(s) ==
    /\ op.phase = "context" /\ op.step = s
    /\ taskFiles' = taskFiles \cup {DispatchKey(s)}
    /\ worker' = [worker EXCEPT ![DispatchKey(s)] = "owes"]
    /\ op' = InFlight("task", s, op.event)
    /\ UNCHANGED <<database, contexts, reports>>

\* One transaction: the step, the Task row of this attempt, the audit entry.
MutantCommitPublication(s) ==
    /\ op.phase = "task" /\ op.step = s
    /\ WriteStep(s, op.event)
    /\ attempt' = [attempt EXCEPT ![s] = AtLeastOne(@)]
    /\ op' = Idle
    /\ UNCHANGED <<mode, paused, tasks, verdict, findings, channel>>
CommitPublication(s) ==
    /\ op.phase = "task" /\ op.step = s
    /\ WriteStep(s, op.event)
    /\ attempt' = [attempt EXCEPT ![s] = AtLeastOne(@)]
    /\ tasks' = [tasks EXCEPT ![DispatchKey(s)] = AdvanceTask("CREATED", "DISPATCH")]
    /\ op' = Idle
    /\ UNCHANGED <<mode, paused, verdict, findings, channel>>

-----------------------------------------------------------------------------
(* Report collection: the poll first, then the deadline.                   *)

MutantCollectReport(s) ==
    /\ Tick(s)
    /\ state[s] \in WithWorker
    /\ Readable(Key(s))
    /\ WriteStep(s, "RECEIVE_REPORT")
    /\ WriteTask(Key(s), "RECEIVE_REPORT")
    /\ reports' = [reports EXCEPT ![Key(s)] = Absent]
    /\ UNCHANGED <<mode, paused, attempt, verdict, findings,
                   contexts, taskFiles, worker, op>>
CollectReport(s) ==
    /\ Tick(s)
    /\ state[s] \in WithWorker
    /\ Readable(Key(s))
    /\ WriteStep(s, "RECEIVE_REPORT")
    /\ WriteTask(Key(s), "RECEIVE_REPORT")
    /\ UNCHANGED <<mode, paused, attempt, verdict, findings, channel, op>>

\* read_report found no file; the deadline is looked at only afterwards.  A
\* Malformed file makes the poll raise: neither this step nor CollectReport.
PollAbsent(s) ==
    /\ Tick(s)
    /\ state[s] \in WithWorker
    /\ reports[Key(s)] = Absent
    /\ op' = InFlight("absent", s, "NONE")
    /\ UNCHANGED <<database, channel>>

MutantFailOnDeadline(s) ==
    /\ op.phase = "absent" /\ op.step = s
    /\ overdue[s]
    /\ WriteStep(s, "FAIL")
    /\ Decided(Key(s))
    /\ op' = Idle
    /\ UNCHANGED <<mode, paused, attempt, tasks, verdict, findings,
                   contexts, taskFiles>>

MutantKeepPolling(s) ==
    /\ op.phase = "absent" /\ op.step = s
    /\ overdue[s]
    /\ op' = Idle
    /\ UNCHANGED <<database, channel>>
FailOnDeadline(s) ==
    /\ op.phase = "absent" /\ op.step = s
    /\ overdue[s]
    /\ WriteStep(s, "FAIL")
    /\ WriteTask(Key(s), "FAIL")
    /\ Decided(Key(s))
    /\ op' = Idle
    /\ UNCHANGED <<mode, paused, attempt, verdict, findings, contexts, taskFiles>>

StartWorking(s) ==
    /\ op.phase = "absent" /\ op.step = s
    /\ ~overdue[s]
    /\ state[s] = "DISPATCHED"
    /\ WriteStep(s, "CLINE_START")
    /\ op' = Idle
    /\ UNCHANGED <<mode, paused, attempt, tasks, verdict, findings, channel>>

KeepWaiting(s) ==
    /\ op.phase = "absent" /\ op.step = s
    /\ ~overdue[s]
    /\ state[s] = "CLINE_WORKING"
    /\ op' = Idle
    /\ UNCHANGED <<database, channel>>

-----------------------------------------------------------------------------
(* Review, realization gate and acknowledgement.                           *)

StartReview(s) ==
    /\ Tick(s)
    /\ WriteStep(s, "START_REVIEW")
    /\ UNCHANGED <<mode, paused, attempt, tasks, verdict, findings, channel, op>>

\* A missing report makes the loop wait, a Malformed one makes the tick raise.
ReadForReview(s) ==
    /\ Tick(s)
    /\ state[s] = "REVIEWING"
    /\ Readable(Key(s))
    /\ op' = InFlight("review", s,
                      decide_review(reports[Key(s)], attempt[s], MaxAttempts[s]))
    /\ UNCHANGED <<database, channel>>

\* The gate scans the source tree, which the model leaves open, and records
\* its findings and its decision under the attempt.
gate(k, compliant) ==
    /\ findings' = IF compliant THEN findings ELSE findings \cup {k}
    /\ verdict' = [verdict EXCEPT ![k] = IF compliant THEN "ACCEPTED" ELSE "REJECTED"]

\* One transaction: gate evidence (only before a VERIFY), step, audit entry.
MutantCommitReview(s) ==
    /\ op.phase = "review" /\ op.step = s
    /\ WriteStep(s, op.event)
    /\ Decided(Key(s))
    /\ op' = InFlight("ack", s, op.event)
    /\ UNCHANGED <<mode, paused, attempt, tasks, verdict, findings,
                   contexts, taskFiles>>
CommitReview(s) ==
    /\ op.phase = "review" /\ op.step = s
    /\ \/ /\ op.event = "VERIFY"
          /\ \E compliant \in BOOLEAN :
                /\ gate(Key(s), compliant)
                /\ WriteStep(s, IF compliant THEN "VERIFY" ELSE "BLOCK")
       \/ /\ op.event # "VERIFY"
          /\ WriteStep(s, op.event)
          /\ UNCHANGED <<verdict, findings>>
    /\ Decided(Key(s))
    /\ op' = InFlight("ack", s, op.event)
    /\ UNCHANGED <<mode, paused, attempt, tasks, contexts, taskFiles>>

\* acknowledge_report validates the file again and moves it to the archive.
Acknowledge(s) ==
    /\ op.phase = "ack" /\ op.step = s
    /\ Readable(Key(s))
    /\ reports' = [reports EXCEPT ![Key(s)] = Absent]
    /\ op' = Idle
    /\ UNCHANGED <<database, contexts, taskFiles, worker>>

\* A failing acknowledgement is reported, never undone: the file stays.
AcknowledgeFails(s) ==
    /\ op.phase = "ack" /\ op.step = s
    /\ "ack" \in Faults \/ ~Readable(Key(s))
    /\ op' = Idle
    /\ UNCHANGED <<database, channel>>

-----------------------------------------------------------------------------
(* Retry or abort.                                                         *)

MutantRetry(s) ==
    /\ Tick(s)
    /\ WriteStep(s, "RETRY")
    /\ attempt' = [attempt EXCEPT ![s] = @ + 1]
    /\ UNCHANGED <<mode, paused, tasks, verdict, findings, channel, op>>
MutantSameAttempt(s) ==
    /\ Tick(s)
    /\ CanRetry(s)
    /\ WriteStep(s, "RETRY")
    /\ UNCHANGED <<mode, paused, attempt, tasks, verdict, findings, channel, op>>
Retry(s) ==
    /\ Tick(s)
    /\ CanRetry(s)
    /\ WriteStep(s, "RETRY")
    /\ attempt' = [attempt EXCEPT ![s] = @ + 1]
    /\ UNCHANGED <<mode, paused, tasks, verdict, findings, channel, op>>

AbortExhausted(s) ==
    /\ Tick(s)
    /\ state[s] = "FAILED"
    /\ ~CanRetry(s)
    /\ WriteStep(s, "ABORT")
    /\ UNCHANGED <<mode, paused, attempt, tasks, verdict, findings, channel, op>>

-----------------------------------------------------------------------------
(* The human: ApprovalGate.reject and HumanOverride.                       *)

Reject(s) ==
    /\ op = Idle
    /\ WriteStep(s, "REJECT")
    /\ UNCHANGED <<mode, paused, attempt, tasks, verdict, findings, channel, op>>

MutantStepCommand(s) ==
    /\ \E event \in {"UNBLOCK", "RESOLVE", "ABORT"} : WriteStep(s, event)
    /\ UNCHANGED <<mode, paused, attempt, tasks, verdict, findings, channel, op>>
\* unblock_step, resolve_step and abort_step: the event must be an FSM arc.
StepCommand(s) ==
    /\ op = Idle
    /\ \E event \in {"UNBLOCK", "RESOLVE", "ABORT"} : WriteStep(s, event)
    /\ UNCHANGED <<mode, paused, attempt, tasks, verdict, findings, channel, op>>

PauseOrResume ==
    /\ op = Idle
    /\ paused' = ~paused
    /\ UNCHANGED <<mode, state, attempt, overdue, tasks, verdict, findings, channel, op>>

SetMode ==
    /\ op = Idle
    /\ mode' \in Modes \ {mode}
    /\ UNCHANGED <<paused, state, attempt, overdue, tasks, verdict, findings, channel, op>>

-----------------------------------------------------------------------------
(* The environment: a crash, the worker, the clock.                        *)

\* The operation in flight is lost (process death, or an exception that its
\* caller sees); what it already made durable stays.
Crash ==
    /\ "crash" \in Faults
    /\ op # Idle
    /\ op' = Idle
    /\ UNCHANGED <<database, channel>>

\* The worker writes one report per publication, replacing an older file.
WorkerReports(k) ==
    /\ worker[k] # "none"
    /\ \E answer \in Answers :
          reports' = [reports EXCEPT ![k] =
              [status |-> answer.status,
               open |-> answer.open,
               mark |-> CASE worker[k] = "late" -> "stale"
                          [] worker[k] # "late" /\ overdue[k[1]] -> "late"
                          [] worker[k] # "late" /\ ~overdue[k[1]] -> "fresh"]]
    /\ worker' = [worker EXCEPT ![k] = "none"]
    /\ UNCHANGED <<database, contexts, taskFiles, op>>

DeadlinePasses(s) ==
    /\ TimeoutEnabled
    /\ state[s] \in WithWorker
    /\ ~overdue[s]
    /\ overdue' = [overdue EXCEPT ![s] = TRUE]
    /\ UNCHANGED <<mode, paused, state, attempt, tasks, verdict, findings, channel, op>>

-----------------------------------------------------------------------------
\* What Orchestrator.run_once may begin on step s, and what completes an
\* operation that is in flight on it.
LoopBegins(s) ==
    \/ Prepare(s) \/ RequestApproval(s) \/ BeginDispatch(s)
    \/ CollectReport(s) \/ PollAbsent(s)
    \/ StartReview(s) \/ ReadForReview(s)
    \/ Retry(s) \/ AbortExhausted(s)

OperationContinues(s) ==
    \/ PublishTask(s) \/ CommitPublication(s)
    \/ FailOnDeadline(s) \/ StartWorking(s) \/ KeepWaiting(s)
    \/ CommitReview(s) \/ Acknowledge(s) \/ AcknowledgeFails(s)

Human ==
    \/ PauseOrResume \/ SetMode
    \/ \E s \in Steps : Approve(s) \/ Reject(s) \/ StepCommand(s)

Environment ==
    \/ Crash
    \/ \E k \in TaskKey : WorkerReports(k)
    \/ \E s \in Steps : DeadlinePasses(s)

Next ==
    \/ \E s \in Steps : LoopBegins(s) \/ OperationContinues(s)
    \/ Human
    \/ Environment

Spec == Init /\ [][Next]_vars

\* The scheduler keeps ticking and time passes; the worker and the human owe
\* nothing.  Crashes may recur for ever, but not always in the same window.
Fairness ==
    \A s \in Steps :
        /\ WF_vars(LoopBegins(s))
        /\ WF_vars(OperationContinues(s))
        /\ SF_vars(PublishTask(s))
        /\ SF_vars(CommitPublication(s))
        /\ SF_vars(FailOnDeadline(s))
        /\ SF_vars(CommitReview(s))
        /\ WF_vars(DeadlinePasses(s))

FairSpec == Spec /\ Fairness

-----------------------------------------------------------------------------
(* Safety.                                                                 *)

\* Type correctness; an attempt number never exceeds the step's budget.
TypeOK ==
    /\ mode \in Modes
    /\ paused \in BOOLEAN
    /\ state \in [Steps -> StepState]
    /\ attempt \in [Steps -> Nat]
    /\ \A s \in Steps : attempt[s] <= MaxAttempts[s]
    /\ overdue \in [Steps -> BOOLEAN]
    /\ tasks \in [TaskKey -> TaskState \cup {"NONE"}]
    /\ verdict \in [TaskKey -> {"NONE", "ACCEPTED", "REJECTED"}]
    /\ findings \subseteq TaskKey
    /\ contexts \subseteq TaskKey
    /\ taskFiles \subseteq TaskKey
    /\ reports \in [TaskKey -> Report]
    /\ worker \in [TaskKey -> WorkerDuty]
    /\ op \in Operation

\* A later step leaves PENDING only after every earlier one is VERIFIED
\* (Orchestrator._current: no step jumps the queue).
PlanOrder ==
    \A s, t \in Steps : t < s /\ state[s] # "PENDING" => state[t] = "VERIFIED"

\* A persisted dispatch never exists without its published task, the context
\* the task refers to and its Task row, wherever a crash hits publication
\* (dispatch.py: artefacts first, then the transition).
DispatchIsPublished ==
    \A s \in Steps : state[s] \in WithWorker =>
        /\ Key(s) \in taskFiles
        /\ Key(s) \in contexts
        /\ tasks[Key(s)] = "DISPATCHED"

\* The worker never sees a task whose context file is missing
\* (ClineWorkerAdapter.dispatch: the task is the commit marker).
TaskHasContext == taskFiles \subseteq contexts

\* Between RECEIVE_REPORT and the durable outcome the report is still in the
\* channel, so a restart can always finish the review (_review, _acknowledge).
ReportKept ==
    \A s \in Steps :
        state[s] \in {"REPORT_RECEIVED", "REVIEWING"} => reports[Key(s)] # Absent

\* The subordinate Task row of the current attempt always tells the same
\* story as the authoritative step, through retries, re-dispatches of the
\* same attempt and crashes (_transition writes both in one transaction).
RowFollowsStep ==
    \A s \in Steps :
        /\ state[s] \in WithWorker => tasks[Key(s)] = "DISPATCHED"
        /\ state[s] \in {"REPORT_RECEIVED", "REVIEWING", "REVISE", "BLOCKED", "VERIFIED"}
              => tasks[Key(s)] = "REPORTED"
        /\ state[s] = "FAILED" => tasks[Key(s)] = "FAILED"

\* A step is VERIFIED exactly with an ACCEPTED realization decision recorded for
\* the very attempt that was verified: neither the transition nor the verdict is
\* there without the other (_review: gate and VERIFY commit together).
VerifiedExactlyByGate ==
    /\ \A s \in Steps : state[s] = "VERIFIED" => verdict[Key(s)] = "ACCEPTED"
    /\ \A k \in TaskKey : verdict[k] = "ACCEPTED" =>
          k[2] = attempt[k[1]] /\ state[k[1]] = "VERIFIED"

\* A step carries an attempt number from its preparation on; every attempt
\* before the current one ended with a reported or failed Task row; and no
\* row, verdict, artefact or report exists for an attempt not yet begun.
AttemptHistory ==
    /\ \A s \in Steps : attempt[s] = 0 <=> state[s] = "PENDING"
    /\ \A k \in TaskKey :
          /\ k[2] < attempt[k[1]] => tasks[k] \in {"REPORTED", "FAILED"}
          /\ k[2] > attempt[k[1]] =>
                /\ tasks[k] = "NONE"
                /\ verdict[k] = "NONE"
                /\ k \notin taskFiles
                /\ worker[k] = "none"
                /\ reports[k] = Absent

\* What an operation read before its first durable effect is still true at
\* every later step of it: run_once, approve and publish_task keep the Step
\* object they read, and write it back whole.
NothingReadIsStale ==
    /\ op.phase = "idle" <=> op = Idle
    /\ op # Idle => op.step \in Steps
    /\ op.phase \in {"context", "task"} =>
          /\ \/ state[op.step] = "READY" /\ op.event = "DISPATCH"
             \/ state[op.step] = "WAITING_APPROVAL" /\ op.event = "APPROVE"
          /\ Key(op.step) \in contexts
    /\ op.phase = "task" => Key(op.step) \in taskFiles
    /\ op.phase = "absent" => state[op.step] \in WithWorker
    /\ op.phase = "review" =>
          /\ state[op.step] = "REVIEWING"
          /\ op.event \in {"VERIFY", "BLOCK", "REQUEST_REVISE"}
          /\ op.event = "REQUEST_REVISE" => CanRetry(op.step)
    /\ op.phase = "ack" => state[op.step] \in {"VERIFIED", "REVISE", "BLOCKED"}

\* A step in REVISE still has an attempt left, so the loop never waits in the
\* one state that neither it nor the human override can leave (RISK-007).
NoReviseDeadEnd ==
    \A s \in Steps : state[s] = "REVISE" => CanRetry(s)

\* A crash between the publication and its commit leaves a task file without
\* a Task row, but only for an attempt still to be dispatched or given up, and the
\* next publication of it is the one that records it (publish_task).
PublicationIsRecorded ==
    \A k \in taskFiles : tasks[k] = "NONE" =>
        /\ k[2] = attempt[k[1]]
        /\ state[k[1]] \in {"READY", "WAITING_APPROVAL", "ABORTED"}

\* The worker is handed a task only while a human approval is being carried
\* out or the policy of the current mode waives it (requires_approval).
ApprovalPrecedesPublication ==
    [][op.phase = "context" /\ op'.phase = "task"
         => state[op.step] = "WAITING_APPROVAL" \/ ~NeedsApproval(op.step)]_vars

\* The loop moves steps as StepLifecycle promises: in plan order, along FSM
\* arcs, with the attempt number growing only by a retry within the budget.
Lifecycle == INSTANCE StepLifecycle
LifecycleSpec == Lifecycle!Spec

-----------------------------------------------------------------------------
(* What the documentation says and the code does not keep.                 *)

\* A report that already decided an outcome never decides another one: the
\* report a step receives is not of an earlier dispatch ("can never lose or
\* re-process a result", README.md section 5).
ReportDecidesOnce ==
    [][\A s \in Steps :
         state[s] \in WithWorker /\ state'[s] = "REPORT_RECEIVED"
            => reports[Key(s)].mark # "stale"]_vars

\* A report that arrived in time is never discarded by a timeout
\* (_collect: the report is always checked before the deadline).
InTimeReportKept ==
    [][\A s \in Steps :
         state[s] \in WithWorker /\ state'[s] = "FAILED"
            => reports[Key(s)] = Absent \/ reports[Key(s)].mark # "fresh"]_vars

\* The verdict of an attempt is never overwritten by a later one
\* (realization_control.py: each attempt's evidence has its own id).
VerdictIsFinal ==
    [][\A k \in TaskKey : verdict[k] # "NONE" => verdict'[k] = verdict[k]]_vars

-----------------------------------------------------------------------------
(* Liveness, once the project is no longer paused for good.                *)

\* A dispatched task does not stay with the worker for ever: its report or
\* its deadline moves the step on (_collect).
DispatchResolves ==
    <>[]~paused =>
        \A s \in Steps : state[s] \in WithWorker ~> state[s] \notin WithWorker

\* The loop never runs for ever by itself: again and again it is complete,
\* aborted or waiting for a human (Scheduler.run_until_idle comes to rest).
LoopComesToRest ==
    <>[]~paused =>
        []<>(\A s \in Steps :
                Current(s) => state[s] \in HALTING_REASONS \cup {"ABORTED"})

=============================================================================
