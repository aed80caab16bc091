---------------------------- MODULE TaskProcessor ----------------------------
(***************************************************************************)
(* The worker's TaskProcessor: what process(job) does between picking a    *)
(* job up and returning or throwing, one action per database write or      *)
(* HTTP call.  It works on a snapshot of the steps taken once per attempt  *)
(* and writes the task's status without looking at it again.               *)
(***************************************************************************)
EXTENDS TaskExecution

WorkerPc == {"idle", "start", "prepare", "preparing", "snapshot", "steps",
             "stepping", "running", "finish", "fail", "verdict", "rethrow",
             "return"}

VARIABLES
    pc,      \* where process(job) is
    snap,    \* the step statuses findMany returned
    cur,     \* the step the loop has reached; NSteps + 1: past the last
    verdict  \* finalStatus of handleTaskFailure

workerVars == <<pc, snap, cur, verdict>>

WorkerTypeOK ==
    /\ pc \in [Jobs -> WorkerPc]
    /\ snap \in [Jobs -> [Steps -> StepStatus]]
    /\ cur \in [Jobs -> 1..NSteps + 1]
    /\ verdict \in [Jobs -> {"failed", "pending"}]

NoSnap == [k \in Steps |-> "absent"]

WorkerInit ==
    /\ pc = [j \in Jobs |-> "idle"]
    /\ snap = [j \in Jobs |-> NoSnap]
    /\ cur = [j \in Jobs |-> 1]
    /\ verdict = [j \in Jobs |-> "failed"]

\* Mutant of ComesTo: steps that failed are skipped as well.
ComesToSkippingFailed(s, k, i) ==
    LET skipped == {"absent", "completed", "failed"}
    IN  /\ i > k
        /\ \A l \in (k + 1)..(i - 1) : s[l] \in skipped
        /\ i \in Steps => s[i] \notin skipped

\* After step k of snapshot s the loop comes to i: processStep skips what
\* lies between.  NSteps + 1 stands for the end.
ComesTo(s, k, i) ==
    /\ i > k
    /\ \A l \in (k + 1)..(i - 1) : s[l] \in {"absent", "completed"}
    /\ i \in Steps => s[i] \notin {"absent", "completed"}

\* The worker's loop moves on after step k of snapshot s.
Advances(j, s, k) ==
    \E i \in 1..NSteps + 1 :
      /\ ComesTo(s, k, i)
      /\ cur' = [cur EXCEPT ![j] = i]

At(j, here) == pc[j] = here

Moves(j, there) == pc' = [pc EXCEPT ![j] = there]

\* Mutant of Leaves: the loop index is left at zero.
LeavesAtZero(j) ==
    /\ Moves(j, "idle")
    /\ snap' = [snap EXCEPT ![j] = NoSnap]
    /\ cur' = [cur EXCEPT ![j] = 0]
    /\ verdict' = [verdict EXCEPT ![j] = "failed"]

\* The attempt ends and its locals are gone.
Leaves(j) ==
    /\ Moves(j, "idle")
    /\ snap' = [snap EXCEPT ![j] = NoSnap]
    /\ cur' = [cur EXCEPT ![j] = 1]
    /\ verdict' = [verdict EXCEPT ![j] = "failed"]

\* The worker consumes the answer of its call.
Receives(j, answers) ==
    /\ reply[j] \in answers
    /\ reply' = [reply EXCEPT ![j] = "none"]
    /\ UNCHANGED <<handler, target>>

StoreExceptTask == <<retryCount, step, approval, expired, historyVars, faults>>

-----------------------------------------------------------------------------
\* process: read the task; a task that awaits confirmation or is terminal is
\* skipped and its job completes, a running one is resumed.
LoadTask(j) ==
    /\ jobState[j] = "waiting"
    /\ At(j, "idle")
    /\ \/ /\ status \in {"pending", "running"}
          /\ PickUp(j)
          /\ Moves(j, IF status = "pending" THEN "start" ELSE "prepare")
       \/ /\ status \notin {"pending", "running"}
          /\ JobReturns(j)
          /\ UNCHANGED pc
    /\ UNCHANGED <<storeVars, execVars, snap, cur, verdict>>

StartTask(j) ==
    /\ At(j, "start")
    /\ UpdateTaskStatus("running")
    /\ Moves(j, "prepare")
    /\ UNCHANGED <<StoreExceptTask, queueVars, execVars, snap, cur, verdict>>

CallPrepare(j) ==
    /\ At(j, "prepare")
    /\ Call(j, "count", 0)
    /\ Moves(j, "preparing")
    /\ UNCHANGED <<storeVars, queueVars, snap, cur, verdict>>

Prepared(j) ==
    /\ At(j, "preparing")
    /\ \/ /\ Receives(j, {"ok"})
          /\ Moves(j, "snapshot")
       \/ /\ Receives(j, {"error"})
          /\ Moves(j, "fail")
    /\ UNCHANGED <<storeVars, queueVars, snap, cur, verdict>>

\* taskStep.findMany; a task with no steps runs its capability as a whole.
SnapshotSteps(j) ==
    /\ At(j, "snapshot")
    /\ \/ /\ Materialised # {}
          /\ snap' = [snap EXCEPT ![j] = step]
          /\ Advances(j, step, 0)
          /\ Moves(j, "steps")
          /\ UNCHANGED execVars
       \/ /\ Materialised = {}
          /\ Call(j, "capability", 0)
          /\ cur' = [cur EXCEPT ![j] = NSteps + 1]
          /\ Moves(j, "running")
          /\ UNCHANGED snap
    /\ UNCHANGED <<storeVars, queueVars, verdict>>

\* processStep up to its call: mark the step running, unless the snapshot
\* says it is, and ask the server to execute it.
RunStep(j) ==
    /\ At(j, "steps")
    /\ cur[j] <= NSteps
    /\ step' = IF snap[j][cur[j]] = "running" THEN step
               ELSE [step EXCEPT ![cur[j]] = "running"]
    /\ Call(j, "readStep", cur[j])
    /\ Moves(j, "stepping")
    /\ UNCHANGED <<taskVars, approval, expired, historyVars, faults,
                   queueVars, snap, cur, verdict>>

\* The answer needConfirmation: park the task and end the job.
ParkTask(j) ==
    /\ At(j, "stepping")
    /\ Receives(j, {"confirm"})
    /\ UpdateTaskStatus("pending_confirm")
    /\ Moves(j, "finish")
    /\ UNCHANGED <<StoreExceptTask, queueVars, snap, cur, verdict>>

\* Mutant of StepSucceeds: an answer that asks for confirmation counts too.
StepSucceedsUnconfirmed(j) ==
    /\ At(j, "stepping")
    /\ Receives(j, {"ok", "confirm"})
    /\ step' = [step EXCEPT ![cur[j]] = "completed"]
    /\ done' = done \cup {cur[j]}
    /\ Advances(j, snap[j], cur[j])
    /\ Moves(j, "steps")
    /\ UNCHANGED <<taskVars, approval, expired, called, granted, faults,
                   queueVars, snap, verdict>>

\* processStep after a success: record the step and go on in the snapshot.
StepSucceeds(j) ==
    /\ At(j, "stepping")
    /\ Receives(j, {"ok"})
    /\ step' = [step EXCEPT ![cur[j]] = "completed"]
    /\ done' = done \cup {cur[j]}
    /\ Advances(j, snap[j], cur[j])
    /\ Moves(j, "steps")
    /\ UNCHANGED <<taskVars, approval, expired, called, granted, faults,
                   queueVars, snap, verdict>>

\* success: false, or the call threw.
StepFails(j) ==
    /\ At(j, "stepping")
    /\ Receives(j, {"failed", "error"})
    /\ step' = [step EXCEPT ![cur[j]] = "failed"]
    /\ Moves(j, "fail")
    /\ UNCHANGED <<taskVars, approval, expired, historyVars, faults,
                   queueVars, snap, cur, verdict>>

\* Past the last step, or the capability succeeded.
CompleteTask(j) ==
    /\ \/ /\ At(j, "steps")
          /\ cur[j] = NSteps + 1
          /\ UNCHANGED execVars
       \/ /\ At(j, "running")
          /\ Receives(j, {"ok"})
    /\ UpdateTaskStatus("completed")
    /\ Moves(j, "finish")
    /\ UNCHANGED <<StoreExceptTask, queueVars, snap, cur, verdict>>

CapabilityFails(j) ==
    /\ At(j, "running")
    /\ Receives(j, {"failed", "error"})
    /\ Moves(j, "fail")
    /\ UNCHANGED <<storeVars, queueVars, snap, cur, verdict>>

-----------------------------------------------------------------------------
\* Mutant of CountFailure: one retry too many.
CountFailureOffByOne(j) ==
    /\ At(j, "fail")
    /\ retryCount' = retryCount + 1
    /\ verdict' = [verdict EXCEPT ![j] =
                     IF retryCount' > MaxRetries THEN "failed" ELSE "pending"]
    /\ Moves(j, "verdict")
    /\ UNCHANGED <<status, startedAt, step, approval, expired, historyVars,
                   faults, queueVars, execVars, snap, cur>>

\* handleTaskFailure: count the retry and decide, then write the decision.
CountFailure(j) ==
    /\ At(j, "fail")
    /\ retryCount' = retryCount + 1
    /\ verdict' = [verdict EXCEPT ![j] =
                     IF retryCount' >= MaxRetries THEN "failed" ELSE "pending"]
    /\ Moves(j, "verdict")
    /\ UNCHANGED <<status, startedAt, step, approval, expired, historyVars,
                   faults, queueVars, execVars, snap, cur>>

\* Mutant of WriteVerdict: the error is not thrown on to BullMQ.
WriteVerdictSwallowed(j) ==
    /\ At(j, "verdict")
    /\ UpdateTaskStatus(verdict[j])
    /\ Moves(j, "return")
    /\ UNCHANGED <<StoreExceptTask, queueVars, execVars, snap, cur, verdict>>

\* updateTaskStatus(finalStatus); then throw, or return after the last retry.
WriteVerdict(j) ==
    /\ At(j, "verdict")
    /\ UpdateTaskStatus(verdict[j])
    /\ Moves(j, IF verdict[j] = "pending" THEN "rethrow" ELSE "return")
    /\ UNCHANGED <<StoreExceptTask, queueVars, execVars, snap, cur, verdict>>

\* The error goes up to BullMQ, which retries the job if it may.
Rethrow(j) ==
    /\ At(j, "rethrow")
    /\ JobThrows(j)
    /\ Leaves(j)
    /\ UNCHANGED <<storeVars, execVars>>

\* Mutant of Return: the attempt never reports to BullMQ.
ReturnSilently(j) ==
    /\ pc[j] \in {"finish", "return"}
    /\ Leaves(j)
    /\ UNCHANGED <<storeVars, execVars, queueVars>>

\* process returns: from its try block (finish), or from handleTaskFailure.
Return(j) ==
    /\ pc[j] \in {"finish", "return"}
    /\ JobReturns(j)
    /\ Leaves(j)
    /\ UNCHANGED <<storeVars, execVars>>

-----------------------------------------------------------------------------
\* A query inside process's try block throws: the attempt fails, also when
\* only the log entry after the task's last status failed to be written.
QueryFails(j) ==
    /\ Strikes("db")
    /\ \/ /\ pc[j] \in {"snapshot", "steps"}
          /\ UNCHANGED step
       \/ /\ pc[j] \in {"steps", "finish"}
          /\ step' = [k \in Steps |->
                        IF k # cur[j] THEN step[k]
                        ELSE IF pc[j] = "steps" THEN "running" ELSE "failed"]
    /\ Moves(j, "fail")
    /\ UNCHANGED <<taskVars, approval, expired, historyVars, queueVars,
                   execVars, snap, cur, verdict>>

\* A query of processStep after a success throws, perhaps only the log entry
\* after the step was recorded: its catch block records a failure instead.
SuccessThrows(j) ==
    /\ At(j, "stepping")
    /\ Receives(j, {"ok"})
    /\ Strikes("db")
    /\ step' = [step EXCEPT ![cur[j]] = "failed"]
    /\ done' \in {done, done \cup {cur[j]}}
    /\ Moves(j, "fail")
    /\ UNCHANGED <<taskVars, approval, expired, called, granted, queueVars,
                   snap, cur, verdict>>

\* A query outside process's try block, or inside its catch, throws: the
\* attempt is used up without a word in the task row.
QueryThrows(j) ==
    /\ pc[j] \in {"start", "prepare", "fail", "verdict", "return"}
    /\ Strikes("db")
    /\ JobThrows(j)
    /\ Leaves(j)
    /\ UNCHANGED <<taskVars, step, approval, expired, historyVars, execVars>>

\* The worker process dies with all it was doing; BullMQ finds its jobs
\* stalled once their locks run out.
WorkerDies ==
    /\ \E j \in Jobs : jobState[j] = "active"
    /\ Strikes("worker")
    /\ JobsStall
    /\ pc' = [j \in Jobs |-> "idle"]
    /\ snap' = [j \in Jobs |-> NoSnap]
    /\ cur' = [j \in Jobs |-> 1]
    /\ verdict' = [j \in Jobs |-> "failed"]
    /\ reply' = [j \in Jobs |-> "none"]
    /\ UNCHANGED <<taskVars, step, approval, expired, historyVars,
                   handler, target>>

ProcessJob(j) ==
    \/ LoadTask(j) \/ StartTask(j) \/ CallPrepare(j) \/ Prepared(j)
    \/ SnapshotSteps(j) \/ RunStep(j) \/ ParkTask(j) \/ StepSucceeds(j)
    \/ StepFails(j) \/ CompleteTask(j) \/ CapabilityFails(j)
    \/ CountFailure(j) \/ WriteVerdict(j) \/ Rethrow(j) \/ Return(j)
=============================================================================
