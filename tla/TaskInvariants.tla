--------------------------- MODULE TaskInvariants ---------------------------
(***************************************************************************)
(* The inductive invariants behind the pipeline's safety properties.       *)
(***************************************************************************)
EXTENDS TaskSystem

\* GuardedCalls: an invocation behind a confirmation has been let through by
\* an approval that was granted.
GuardInv ==
    /\ \A a \in Approvals : approval[a] = "approved" => a \in granted
    /\ \A j \in Jobs :
         handler[j] = "invoke" /\ target[j] \in Confirm => granted # {}
    /\ GuardedCalls

\* RunningIsVisible: whoever sets the task running without a start time does
\* so after an attempt has been under way.
VisibleInv ==
    startedAt = "null" =>
      /\ status # "running"
      /\ \A a \in Approvals : approval[a] = "none"
      /\ \A j \in Jobs : handler[j] = "idle" /\ pc[j] \in {"idle", "start"}
      /\ \A r \in Reviewers : review[r] = "idle"

\* The steps present in f are the first ones.
Closed(f) ==
    \A k \in Steps : f[k] # "absent" => \A l \in 1..(k - 1) : f[l] # "absent"

StepsInv ==
    /\ Closed(step)
    /\ \A k \in Steps : step[k] = "completed" => k \in done

\* A snapshot is older than the rows, and what it calls completed is done.
SnapInv(j) ==
    /\ Closed(snap[j])
    /\ \A k \in Steps :
         /\ snap[j][k] # "absent" => step[k] # "absent"
         /\ snap[j][k] = "completed" => k \in done

\* The loop has seen to every step it has passed.
LoopInv(j) ==
    /\ pc[j] \in {"steps", "stepping"} =>
         \A l \in Steps : l < cur[j] /\ snap[j][l] # "absent" => l \in done
    /\ pc[j] \in {"steps", "stepping", "finish"} /\ cur[j] \in Steps =>
         snap[j][cur[j]] # "absent"
    /\ pc[j] = "running" => cur[j] = NSteps + 1

ServeInv(j) ==
    handler[j] \in StepOps =>
      /\ step[target[j]] # "absent"
      /\ 1..(target[j] - 1) \subseteq done

\* StepOrder: the steps before the one at work are done, also for an attempt
\* that works on an old snapshot.
OrderInv ==
    /\ StepsInv
    /\ \A j \in Jobs : SnapInv(j) /\ LoopInv(j) /\ ServeInv(j)
    /\ StepOrder

\* What an open call and its handler have to do with each other, and what an
\* answer lets the worker conclude.
AwaitInv(j) ==
    reply[j] = "awaited" =>
      \/ pc[j] = "preparing" /\ handler[j] \in {"count", "materialise"}
      \/ pc[j] = "stepping" /\ handler[j] \in StepOps /\ target[j] = cur[j]
      \/ pc[j] = "running" /\ handler[j] = "capability"

AnswerInv(j) ==
    pc[j] = "stepping" /\ reply[j] = "ok" => cur[j] \in called \cup Toolless

CallInv ==
    /\ \A j \in Jobs : AwaitInv(j) /\ AnswerInv(j)
    /\ done \subseteq called \cup Toolless

\* No step will be created any more.
Fixed ==
    /\ NSteps > 0 => Materialised # {}
    /\ \A j \in Jobs : handler[j] # "materialise"

\* Before the steps are fixed, nothing is executed, parked or completed.
EarlyInv(j) ==
    /\ pc[j] \notin {"snapshot", "steps", "stepping", "running", "finish"}
    /\ pc[j] = "preparing" => reply[j] # "ok"
    /\ handler[j] \notin StepOps \cup {"capability"}

NoReview ==
    /\ \A a \in Approvals : approval[a] = "none"
    /\ \A r \in Reviewers : review[r] = "idle"

\* Only the first job can meet a task whose steps are not fixed.
FixedInv ==
    /\ ~Fixed => /\ NoReview
                 /\ \A j \in Jobs : EarlyInv(j)
                 /\ status # "completed"
                 /\ done = {}
    /\ \A i, j \in Jobs :
         jobState[i] # "free" /\ jobState[j] # "free" /\ i # j => Fixed
    /\ creating => NoReview /\ \A j \in Jobs : jobState[j] = "free"
    /\ \A j \in Jobs :
         pc[j] # "idle" \/ handler[j] # "idle" => jobState[j] # "free"

\* CompletedCoversSteps: the loop knows every step there is.
CoverInv ==
    /\ \A j \in Jobs : pc[j] \in {"steps", "stepping"} =>
         \A k \in Steps : step[k] # "absent" => snap[j][k] # "absent"
    /\ \A j \in Jobs : pc[j] = "running" => NSteps = 0
    /\ CompletedCoversSteps

\* A task is reviewed only once a job has worked on it, and a review that goes
\* on after an approval has granted one.
ReviewInv ==
    /\ creating => /\ NoReview
                   /\ \A j \in Jobs : jobState[j] = "free" /\ handler[j] = "idle"
    /\ \A r \in Reviewers :
         /\ review[r] # "idle" => subject[r] # {}
         /\ review[r] \in {"resume", "enqueue"} => granted # {}
         /\ review[r] = "link" /\ decision[r] = "approved" => granted # {}

\* OneAttemptAtATime: only a review adds a second job.
SingleInv ==
    /\ \A j \in Jobs : pc[j] # "idle" <=> jobState[j] = "active"
    /\ granted = {} =>
         \A i, j \in Jobs : jobState[i] # "free" /\ jobState[j] # "free" => i = j

MostRetries ==
    (IF MaxRetries = 0 THEN 1 ELSE MaxRetries) + faults["db"] + faults["worker"]

\* The job is over, or will be unless a fault strikes.
Spent(j) ==
    \/ jobState[j] \in {"completed", "failed"}
    \/ pc[j] = "verdict" /\ verdict[j] = "failed"
    \/ pc[j] = "return"

\* RetriesBounded: another failure is counted only by a job that is not spent.
RetryInv ==
    granted = {} =>
      /\ retryCount <= MostRetries
      /\ (\A j \in Jobs : ~Spent(j)) => retryCount < MostRetries

\* The job of a pending task has made no more attempts than failures have been
\* counted, and the count lags behind max_retries while it goes on.
AttemptInv(j) ==
    /\ attemptsMade[j] <= retryCount
    /\ pc[j] = "rethrow" \/ (pc[j] = "verdict" /\ verdict[j] = "pending") =>
         attemptsMade[j] < retryCount /\ attemptsMade[j] + 1 < MaxRetries

\* PendingIsCarried: a job that has used up its attempts without a failed query
\* has been promised more.
CarryInv ==
    /\ PendingIsCarried
    /\ faults["db"] = 0 => \A j \in Jobs : AttemptInv(j)
=============================================================================
