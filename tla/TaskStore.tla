------------------------------ MODULE TaskStore ------------------------------
(***************************************************************************)
(* The rows of one asynchronous task that the API server and the job       *)
(* worker share through MySQL: the task itself, its steps, its approvals.  *)
(* No process owns them.  Every write is an unconditional                  *)
(* prisma.*.update on the primary key, except the approval scan's          *)
(* updateMany, so what a process read may be stale when it writes.         *)
(*                                                                         *)
(* Tasks share no row, so one task is modelled; what interferes are the    *)
(* jobs, reviewers and scans that work on it.                              *)
(***************************************************************************)
EXTENDS Naturals, FiniteSets, Faults

CONSTANTS
    NSteps,      \* steps configured in the workflow tool (0: not a workflow)
    Confirm,     \* the steps whose tool needs a human confirmation
    Toolless,    \* the steps that name no tool
    MaxRetries,  \* task.max_retries
    Approvals,   \* approval rows that may be created (bound)
    PatchTo      \* statuses an operator may PATCH the task to

Steps == 1..NSteps

TaskStatus == {"pending", "running", "completed", "failed", "cancelled",
               "timeout", "pending_confirm"}

\* "absent": the row has not been materialised by prepareTask.
StepStatus == {"absent", "pending", "running", "completed", "failed"}

\* "none": the row has not been created.
ApprovalStatus == {"none", "pending", "approved", "rejected", "timeout"}
Decisions == {"approved", "rejected"}

\* task.started_at, up to what the timeout scan can tell apart.
StartedAt == {"null", "recent", "elapsed"}

ASSUME StoreAssumption ==
    /\ NSteps \in Nat
    /\ Confirm \subseteq Steps
    /\ Toolless \subseteq Steps \ Confirm
    /\ MaxRetries \in Nat
    /\ PatchTo \subseteq TaskStatus

VARIABLES
    status,      \* task.status
    startedAt,   \* task.started_at
    retryCount,  \* task.retry_count
    step,        \* task_step.status of each step
    approval,    \* approval.status of each approval row
    expired,     \* the approvals whose expired_at has passed
    \* History, read by properties only.
    called,      \* the steps whose tool has been invoked at least once
    done,        \* the steps once recorded completed
    granted      \* the approvals once recorded approved

taskVars    == <<status, startedAt, retryCount>>
historyVars == <<called, done, granted>>
storeVars   == <<taskVars, step, approval, expired, historyVars, faults>>

StoreTypeOK ==
    /\ status \in TaskStatus
    /\ startedAt \in StartedAt
    /\ retryCount \in Nat
    /\ step \in [Steps -> StepStatus]
    /\ approval \in [Approvals -> ApprovalStatus]
    /\ expired \subseteq Approvals
    /\ called \subseteq Steps
    /\ done \subseteq Steps
    /\ granted \subseteq Approvals
    /\ faults \in [FaultKind -> Nat]

\* TaskService.create: the row starts pending, with no step and no approval.
StoreInit ==
    /\ status = "pending"
    /\ startedAt = "null"
    /\ retryCount = 0
    /\ step = [k \in Steps |-> "absent"]
    /\ approval = [a \in Approvals |-> "none"]
    /\ expired = {}
    /\ called = {}
    /\ done = {}
    /\ granted = {}
    /\ faults = NoFaultYet

\* The steps findMany returns.
Materialised == {k \in Steps : step[k] # "absent"}

\* Mutant of UpdateTaskStatus: started_at is not set.
UpdateTaskStatusUntimed(s) ==
    /\ status' = s
    /\ UNCHANGED startedAt

\* TaskProcessor.updateTaskStatus: the worker's write, which stamps
\* started_at anew each time the task is set running.
UpdateTaskStatus(s) ==
    /\ status' = s
    /\ startedAt' = IF s = "running" THEN "recent" ELSE startedAt

-----------------------------------------------------------------------------
\* TaskService.update (PATCH /tasks/:id): any status to any status;
\* started_at is set only when it was null.
Patch(s) ==
    /\ s \in PatchTo
    /\ status' = s
    /\ startedAt' = IF s = "running" /\ startedAt = "null"
                    THEN "recent" ELSE startedAt
    /\ UNCHANGED <<retryCount, step, approval, expired, historyVars, faults>>

\* now - started_at grows beyond timeout_ms.
Elapse ==
    /\ startedAt = "recent"
    /\ startedAt' = "elapsed"
    /\ UNCHANGED <<status, retryCount, step, approval, expired, historyVars,
                   faults>>

\* expired_at of a pending approval passes (24 hours after its creation).
Expire(a) ==
    /\ approval[a] = "pending"
    /\ a \notin expired
    /\ expired' = expired \cup {a}
    /\ UNCHANGED <<taskVars, step, approval, historyVars, faults>>
=============================================================================
