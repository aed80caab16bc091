----------------------------- MODULE TaskSystem ------------------------------
(***************************************************************************)
(* The asynchronous task pipeline: job worker, API server, queue, reviews  *)
(* and the timeout scan around the rows of one task.                       *)
(***************************************************************************)
EXTENDS TaskProcessor, ApprovalRuntime, TaskTimeout

vars == <<storeVars, queueVars, execVars, workerVars, reviewVars, scanVars>>

TypeOK ==
    /\ StoreTypeOK
    /\ QueueTypeOK
    /\ ExecTypeOK
    /\ WorkerTypeOK
    /\ ReviewTypeOK
    /\ ScanTypeOK

Init ==
    /\ StoreInit
    /\ QueueInit
    /\ ExecInit
    /\ WorkerInit
    /\ ReviewInit
    /\ ScanInit

-----------------------------------------------------------------------------
Worker(j) == ProcessJob(j) /\ UNCHANGED <<reviewVars, scanVars>>

Server(j) == ServeCall(j) /\ UNCHANGED <<workerVars, reviewVars, scanVars>>

Creator == EnqueueCreated /\ UNCHANGED <<execVars, workerVars, scanVars>>

Reviewer(r) == Review(r) /\ UNCHANGED <<execVars, workerVars, scanVars>>

Scanner(s) ==
    Scan(s) /\ UNCHANGED <<queueVars, execVars, workerVars, reviewVars>>

Operator ==
    /\ \E s \in PatchTo : Patch(s)
    /\ UNCHANGED <<queueVars, execVars, workerVars, reviewVars, scanVars>>

Clock ==
    /\ Elapse \/ \E a \in Approvals : Expire(a)
    /\ UNCHANGED <<queueVars, execVars, workerVars, reviewVars, scanVars>>

\* The worker process runs the processors of all its queues, the scan's too.
WorkerCrash == WorkerDies /\ ScansDie /\ UNCHANGED reviewVars

ServerCrash ==
    /\ Strikes("server")
    /\ HandlersDie
    /\ RequestsDie
    /\ UNCHANGED <<taskVars, step, approval, expired, historyVars, queueVars,
                   workerVars, scanVars>>

Faulty ==
    \/ WorkerCrash
    \/ ServerCrash
    \/ /\ \E j \in Jobs : LoseCall(j) \/ HandlerThrows(j)
       /\ UNCHANGED <<workerVars, reviewVars, scanVars>>
    \/ /\ \E j \in Jobs : QueryFails(j) \/ SuccessThrows(j) \/ QueryThrows(j)
       /\ UNCHANGED <<reviewVars, scanVars>>
    \/ /\ CreateThrows \/ \E r \in Reviewers : ReviewThrows(r)
       /\ UNCHANGED <<execVars, workerVars, scanVars>>
    \/ /\ \E s \in Scans : ScanThrows(s)
       /\ UNCHANGED <<queueVars, execVars, workerVars, reviewVars>>

Next ==
    \/ \E j \in Jobs : Worker(j) \/ Server(j)
    \/ Creator
    \/ \E r \in Reviewers : Reviewer(r)
    \/ \E s \in Scans : Scanner(s)
    \/ Operator
    \/ Clock
    \/ Faulty

Spec == Init /\ [][Next]_vars

\* Processes keep running and time keeps passing; nobody has to open a
\* review, PATCH the task or fail.
Fairness ==
    /\ \A j \in Jobs : WF_vars(Worker(j)) /\ WF_vars(Server(j))
    /\ WF_vars(Creator)
    /\ \A r \in Reviewers :
         WF_vars(/\ Decide(r) \/ LinkTask(r) \/ ResumeTask(r)
                    \/ EnqueueResumed(r)
                 /\ UNCHANGED <<execVars, workerVars, scanVars>>)
    /\ \A s \in Scans : WF_vars(Scanner(s))
    /\ WF_vars(Clock)

FairSpec == Spec /\ Fairness

-----------------------------------------------------------------------------
(* Safety.                                                                 *)

\* A step's tool is invoked only after every earlier step has succeeded at
\* least once, also when attempts of several jobs work on the task from
\* different snapshots (the loop of TaskProcessor.process).
StepOrder == \A k \in called : 1..(k - 1) \subseteq done

\* A tool that needs confirmation is never invoked on a task nobody has ever
\* approved, whatever the order of reviews, retries and crashes
\* (guardStepConfirmation is the only gate).
GuardedCalls == called \cap Confirm # {} => granted # {}

\* A task recorded completed has succeeded in every step materialised for
\* it (the loop may have worked on a snapshot other jobs have outdated).
CompletedCoversSteps == status = "completed" => Materialised \subseteq done

\* A running task has a start time, so that the timeout scan, which passes
\* over tasks without one, can see it; the approval linkage and the resume
\* path set "running" without setting started_at.
RunningIsVisible == status = "running" => startedAt # "null"

\* Until somebody has approved, no two jobs ever work on the task at once:
\* retries, stalled redelivery and restarts never double it.
OneAttemptAtATime ==
    \A i, j \in Jobs :
      jobState[i] = "active" /\ jobState[j] = "active" /\ i # j
        => granted # {}

\* Until somebody has approved, failures are counted at most max_retries
\* times (at least once), and once more for each fault that may have struck
\* between counting and writing the verdict: a failed task is never picked
\* up again.
RetriesBounded ==
    granted = {} =>
      retryCount <= (IF MaxRetries = 0 THEN 1 ELSE MaxRetries)
                    + faults["db"] + faults["worker"]

\* The next steps of some process will take up a pending task.
Carried ==
    \/ creating
    \/ \E j \in Jobs : jobState[j] = "waiting" \/ pc[j] \in {"start", "rethrow"}
    \/ \E r \in Reviewers : review[r] = "enqueue"

\* BullMQ has given up job j for good: its worker died too often, or it used up
\* its attempts - by counted failures alone only if max_retries exceeds them.
GivenUp(j) ==
    /\ jobState[j] = "failed"
    /\ \/ stalled[j] > MaxStalled
       \/ /\ attemptsMade[j] >= Attempts
          /\ Attempts < MaxRetries \/ faults["db"] > 0

\* A pending task has a job, or a process about to add or retry one, unless
\* BullMQ has given a job of it up, or the process that was to add one died
\* or found no Redis.  The log line "the task will be retried"
\* (handleTaskFailure) promises this without the exceptions.
PendingIsCarried ==
    status = "pending" =>
      \/ Carried
      \/ \E j \in Jobs : GivenUp(j)
      \/ faults["server"] > 0 \/ faults["redis"] > 0

\* When no job, review or scan is at work, a parked task has an approval
\* somebody can still decide.
ParkedAwaitsReview ==
    /\ status = "pending_confirm"
    /\ \A j \in Jobs : jobState[j] \notin {"waiting", "active"}
    /\ \A r \in Reviewers : review[r] = "idle"
    /\ \A s \in Scans : scan[s] # "link"
    => \E a \in Approvals : approval[a] = "pending"

-----------------------------------------------------------------------------
(* Action properties.                                                      *)

\* An approval a reviewer has decided is never marked as timed out, though
\* the scan read it as pending before it marks.
DecisionBeatsTimeout ==
    [][\A a \in Approvals :
         approval[a] \in Decisions => approval'[a] # "timeout"]_vars

-----------------------------------------------------------------------------
(* Liveness.                                                               *)

\* A running task does not stay running, even when its worker dies and its
\* job is lost: the timeout scan ends it.
RunningEnds == status = "running" ~> status # "running"

\* A job that was added is eventually settled, whatever fails around it.
JobsEnd ==
    \A j \in Jobs : jobState[j] = "waiting" ~> jobState[j] \in {"completed", "failed"}

\* A pending task is eventually taken up.
PendingLeaves == status = "pending" ~> status # "pending"

-----------------------------------------------------------------------------
(* Refinement.                                                             *)

Workflow == INSTANCE OrderedWorkflow WITH
    created  <- Materialised,
    approved <- granted # {},
    complete <- status = "completed"

\* The pipeline implements the ordered workflow.
ImplementsWorkflow == Workflow!Spec
=============================================================================
