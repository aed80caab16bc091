--------------------------- MODULE ApprovalRuntime ---------------------------
(***************************************************************************)
(* Requests served by the API server about the task: its creation, and     *)
(* ApprovalRuntimeService.submitConfirmation for the reviews that come     *)
(* from the console, OpenAPI or Copilot.  A review checks that the         *)
(* approval is pending, writes its decision without checking again, links  *)
(* it to the task and, when approved, hands the task back to the worker.   *)
(***************************************************************************)
EXTENDS TaskQueue

CONSTANT Reviewers  \* reviews that may be open at a time (bound)

ReviewPc == {"idle", "decide", "link", "resume", "enqueue"}

VARIABLES
    creating,  \* TaskController.create has inserted the row, not enqueued it
    review,    \* where each open review is
    subject,   \* the approval it read
    decision   \* what its reviewer decided

reviewVars == <<creating, review, subject, decision>>

ReviewTypeOK ==
    /\ creating \in BOOLEAN
    /\ review \in [Reviewers -> ReviewPc]
    /\ subject \in [Reviewers -> SUBSET Approvals]
    /\ decision \in [Reviewers -> Decisions]

ReviewInit ==
    /\ creating = TRUE
    /\ review = [r \in Reviewers |-> "idle"]
    /\ subject = [r \in Reviewers |-> {}]
    /\ decision = [r \in Reviewers |-> "approved"]

ReviewGoes(r, there) == review' = [review EXCEPT ![r] = there]

ReviewEnds(r) ==
    /\ ReviewGoes(r, "idle")
    /\ subject' = [subject EXCEPT ![r] = {}]
    /\ decision' = [decision EXCEPT ![r] = "approved"]

-----------------------------------------------------------------------------
\* TaskController.create, after taskService.create.
EnqueueCreated ==
    /\ creating
    /\ creating' = FALSE
    /\ Enqueue
    /\ UNCHANGED <<storeVars, review, subject, decision>>

\* submitConfirmation reads the approval and finds it pending.
OpenReview(r, a, d) ==
    /\ review[r] = "idle"
    /\ approval[a] = "pending"
    /\ ReviewGoes(r, "decide")
    /\ subject' = [subject EXCEPT ![r] = {a}]
    /\ decision' = [decision EXCEPT ![r] = d]
    /\ UNCHANGED <<storeVars, queueVars, creating>>

\* approval.update: by id, whatever the status is by now.
Decide(r) ==
    /\ review[r] = "decide"
    /\ approval' = [a \in Approvals |->
                      IF a \in subject[r] THEN decision[r] ELSE approval[a]]
    /\ granted' = IF decision[r] = "approved" THEN granted \cup subject[r]
                                              ELSE granted
    /\ ReviewGoes(r, "link")
    /\ UNCHANGED <<taskVars, step, expired, called, done, faults, queueVars,
                   creating, subject, decision>>

\* Mutant of LinkTask: a rejection goes on to resume the task.
LinkTaskNoReturn(r) ==
    /\ review[r] = "link"
    /\ status' = IF decision[r] = "approved" THEN "running" ELSE "failed"
    /\ ReviewGoes(r, "resume")
    /\ UNCHANGED <<startedAt, retryCount, step, approval, expired,
                   historyVars, faults, queueVars, creating, subject, decision>>

\* onApprovedLinkage sets the task running and leaves started_at alone;
\* onRejectedLinkage fails it, and the review is over.
LinkTask(r) ==
    /\ review[r] = "link"
    /\ \/ /\ decision[r] = "approved"
          /\ status' = "running"
          /\ ReviewGoes(r, "resume")
          /\ UNCHANGED <<subject, decision>>
       \/ /\ decision[r] = "rejected"
          /\ status' = "failed"
          /\ ReviewEnds(r)
    /\ UNCHANGED <<startedAt, retryCount, step, approval, expired,
                   historyVars, faults, queueVars, creating>>

\* Mutant of ResumeTask: the job is not added again.
ResumeTaskUnqueued(r) ==
    /\ review[r] = "resume"
    /\ status' = "pending"
    /\ ReviewEnds(r)
    /\ UNCHANGED <<startedAt, retryCount, step, approval, expired,
                   historyVars, faults, queueVars, creating>>

\* tryResumeWorkerTask: the asynchronous task goes back to pending ...
ResumeTask(r) ==
    /\ review[r] = "resume"
    /\ status' = "pending"
    /\ ReviewGoes(r, "enqueue")
    /\ UNCHANGED <<startedAt, retryCount, step, approval, expired,
                   historyVars, faults, queueVars, creating, subject, decision>>

\* ... and gets a new job.
EnqueueResumed(r) ==
    /\ review[r] = "enqueue"
    /\ Enqueue
    /\ ReviewEnds(r)
    /\ UNCHANGED <<storeVars, creating>>

-----------------------------------------------------------------------------
\* queue.add throws (Redis is unreachable): the task stays as created.
CreateThrows ==
    /\ creating
    /\ Strikes("redis")
    /\ creating' = FALSE
    /\ UNCHANGED <<taskVars, step, approval, expired, historyVars, queueVars,
                   review, subject, decision>>

\* A query or queue.add throws: the review fails half-way, and what it wrote
\* before stays.
ReviewThrows(r) ==
    /\ review[r] # "idle"
    /\ Strikes(IF review[r] = "enqueue" THEN "redis" ELSE "db")
    /\ ReviewEnds(r)
    /\ UNCHANGED <<taskVars, step, approval, expired, historyVars, queueVars,
                   creating>>

\* The API server dies: its open requests stop where they are.
RequestsDie ==
    /\ creating' = FALSE
    /\ review' = [r \in Reviewers |-> "idle"]
    /\ subject' = [r \in Reviewers |-> {}]
    /\ decision' = [r \in Reviewers |-> "approved"]

Review(r) ==
    \/ \E a \in Approvals, d \in Decisions : OpenReview(r, a, d)
    \/ Decide(r) \/ LinkTask(r) \/ ResumeTask(r) \/ EnqueueResumed(r)
=============================================================================
