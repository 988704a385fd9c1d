------------------------------- MODULE StepFSM -------------------------------
(***************************************************************************)
(* The two transition tables of domain/fsm.py.  A table is a set of arcs   *)
(* <<state, event, next state>>; FiniteStateMachine.next_state is the pure *)
(* lookup of the one arc that leaves a state on an event, and an event     *)
(* with no arc raises InvalidTransitionError.                              *)
(***************************************************************************)

StepState ==
    {"PENDING", "READY", "WAITING_APPROVAL", "DISPATCHED", "CLINE_WORKING",
     "REPORT_RECEIVED", "REVIEWING", "REVISE", "BLOCKED", "CONFLICT",
     "FAILED", "VERIFIED", "ABORTED"}

StepEvent ==
    {"PREPARE", "REQUEST_APPROVAL", "APPROVE", "REJECT", "DISPATCH",
     "CLINE_START", "RECEIVE_REPORT", "FAIL", "BLOCK", "ABORT",
     "START_REVIEW", "VERIFY", "REQUEST_REVISE", "RAISE_CONFLICT", "RETRY",
     "UNBLOCK", "RESOLVE"}

STEP_TERMINAL_STATES == {"VERIFIED", "ABORTED"}

STEP_TRANSITIONS ==
    {<<"PENDING",          "PREPARE",          "READY">>,
     <<"READY",            "REQUEST_APPROVAL", "WAITING_APPROVAL">>,
     <<"READY",            "DISPATCH",         "DISPATCHED">>,
     <<"WAITING_APPROVAL", "REJECT",           "READY">>,
     <<"WAITING_APPROVAL", "APPROVE",          "DISPATCHED">>,
     <<"WAITING_APPROVAL", "BLOCK",            "BLOCKED">>,
     <<"WAITING_APPROVAL", "ABORT",            "ABORTED">>,
     <<"DISPATCHED",       "CLINE_START",      "CLINE_WORKING">>,
     <<"DISPATCHED",       "RECEIVE_REPORT",   "REPORT_RECEIVED">>,
     <<"DISPATCHED",       "FAIL",             "FAILED">>,
     <<"DISPATCHED",       "BLOCK",            "BLOCKED">>,
     <<"CLINE_WORKING",    "RECEIVE_REPORT",   "REPORT_RECEIVED">>,
     <<"CLINE_WORKING",    "FAIL",             "FAILED">>,
     <<"CLINE_WORKING",    "BLOCK",            "BLOCKED">>,
     <<"REPORT_RECEIVED",  "START_REVIEW",     "REVIEWING">>,
     <<"REVIEWING",        "VERIFY",           "VERIFIED">>,
     <<"REVIEWING",        "REQUEST_REVISE",   "REVISE">>,
     <<"REVIEWING",        "BLOCK",            "BLOCKED">>,
     <<"REVIEWING",        "RAISE_CONFLICT",   "CONFLICT">>,
     <<"REVISE",           "RETRY",            "READY">>,
     <<"BLOCKED",          "UNBLOCK",          "READY">>,
     <<"BLOCKED",          "ABORT",            "ABORTED">>,
     <<"CONFLICT",         "RESOLVE",          "READY">>,
     <<"CONFLICT",         "BLOCK",            "BLOCKED">>,
     <<"CONFLICT",         "ABORT",            "ABORTED">>,
     <<"FAILED",           "RETRY",            "READY">>,
     <<"FAILED",           "ABORT",            "ABORTED">>}

TaskState == {"CREATED", "DISPATCHED", "REPORTED", "FAILED"}

TASK_TRANSITIONS ==
    {<<"CREATED",    "DISPATCH",       "DISPATCHED">>,
     <<"DISPATCHED", "RECEIVE_REPORT", "REPORTED">>,
     <<"DISPATCHED", "FAIL",           "FAILED">>}

\* The marker _advance_task leaves behind: an absent or non-advanceable Task
\* is returned unchanged and never blocks the Step transition.
AdvanceTask(task, event) ==
    IF \E to \in TaskState : <<task, event, to>> \in TASK_TRANSITIONS
    THEN CHOOSE to \in TaskState : <<task, event, to>> \in TASK_TRANSITIONS
    ELSE task

\* States that keep a step current until a human acts (HALTING_REASONS).
HALTING_REASONS == {"WAITING_APPROVAL", "BLOCKED", "CONFLICT"}

\* States in which a task is out with the worker: the two _collect polls.
WithWorker == {"DISPATCHED", "CLINE_WORKING"}

=============================================================================
