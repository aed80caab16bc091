------------------------------ MODULE TaskProofs -----------------------------
(***************************************************************************)
(* Theorems about the task pipeline, for every value of its constants: its *)
(* type correctness, its safety properties, and that it implements         *)
(* OrderedWorkflow unless an operator sets the task completed by hand.     *)
(***************************************************************************)
EXTENDS TaskInvariants, TLAPS

(***************************************************************************)
(* Type correctness.                                                       *)
(***************************************************************************)
LEMMA InitType == Init => TypeOK
BY StoreAssumption, QueueAssumption
   DEF Init, StoreInit, QueueInit, ExecInit, WorkerInit, ReviewInit, ScanInit,
       TypeOK, StoreTypeOK, QueueTypeOK, ExecTypeOK, WorkerTypeOK,
       ReviewTypeOK, ScanTypeOK, TaskStatus, StartedAt, StepStatus,
       ApprovalStatus, FaultKind, NoFaultYet, JobState, HandlerPc, Reply, WorkerPc,
       NoSnap, ReviewPc, Decisions, ScanPc

\* The step a call is about is one of the workflow's.
StepsInRange ==
    /\ \A j \in Jobs : pc[j] = "stepping" => cur[j] \in Steps
    /\ \A j \in Jobs : handler[j] \in StepOps => target[j] \in Steps

LEMMA WorkerType ==
  ASSUME TypeOK, StepsInRange, NEW j \in Jobs, ProcessJob(j)
  PROVE  StoreTypeOK' /\ QueueTypeOK' /\ ExecTypeOK' /\ WorkerTypeOK'
<1> USE StoreAssumption, QueueAssumption
    DEF TypeOK, StoreTypeOK, QueueTypeOK, ExecTypeOK, WorkerTypeOK,
        TaskStatus, StartedAt, StepStatus, JobState, HandlerPc, Reply, WorkerPc,
        storeVars, taskVars, historyVars, StoreExceptTask, queueVars, execVars,
        At, Moves, Call, Receives
<1>1. CASE LoadTask(j)
  BY <1>1 DEF LoadTask, PickUp, JobReturns
<1>2. CASE StartTask(j)
  BY <1>2 DEF StartTask, UpdateTaskStatus
<1>3. CASE CallPrepare(j)
  BY <1>3 DEF CallPrepare
<1>4. CASE Prepared(j)
  BY <1>4 DEF Prepared
<1>5. CASE SnapshotSteps(j)
  <2>1. UNCHANGED <<storeVars, queueVars, verdict>>
    BY <1>5 DEF SnapshotSteps
  <2>2. CASE Materialised # {}
    <3>1. PICK i \in 1..NSteps + 1 : cur' = [cur EXCEPT ![j] = i]
      BY <1>5, <2>2 DEF SnapshotSteps, Advances
    <3>2. /\ snap' = [snap EXCEPT ![j] = step]
          /\ pc' = [pc EXCEPT ![j] = "steps"]
          /\ UNCHANGED execVars
      BY <1>5, <2>2 DEF SnapshotSteps
    <3> QED
      BY <2>1, <3>1, <3>2
  <2>3. CASE Materialised = {}
    <3>1. /\ Call(j, "capability", 0)
          /\ pc' = [pc EXCEPT ![j] = "running"]
          /\ cur' = [cur EXCEPT ![j] = NSteps + 1]
          /\ UNCHANGED snap
      BY <1>5, <2>3 DEF SnapshotSteps
    <3> QED
      BY <2>1, <3>1
  <2> QED
    BY <2>2, <2>3
<1>6. CASE RunStep(j)
  BY <1>6 DEF RunStep, Steps
<1>7. CASE ParkTask(j)
  BY <1>7 DEF ParkTask, UpdateTaskStatus
<1>8. CASE StepSucceeds(j)
  BY <1>8 DEF StepSucceeds, Advances, StepsInRange
<1>9. CASE StepFails(j)
  BY <1>9 DEF StepFails
<1>10. CASE CompleteTask(j)
  BY <1>10 DEF CompleteTask, UpdateTaskStatus
<1>11. CASE CapabilityFails(j)
  BY <1>11 DEF CapabilityFails
<1>12. CASE CountFailure(j)
  BY <1>12 DEF CountFailure
<1>13. CASE WriteVerdict(j)
  BY <1>13 DEF WriteVerdict, UpdateTaskStatus
<1>14. CASE Rethrow(j)
  BY <1>14 DEF Rethrow, JobThrows, Leaves, NoSnap
<1>15. CASE Return(j)
  BY <1>15 DEF Return, JobReturns, Leaves, NoSnap
<1> HIDE DEF StoreTypeOK, QueueTypeOK, ExecTypeOK, WorkerTypeOK
<1> QED
  BY <1>1, <1>2, <1>3, <1>4, <1>5, <1>6, <1>7, <1>8, <1>9, <1>10, <1>11,
     <1>12, <1>13, <1>14, <1>15 DEF ProcessJob

LEMMA ServerType ==
  ASSUME TypeOK, StepsInRange, NEW j \in Jobs, ServeCall(j)
  PROVE  StoreTypeOK' /\ QueueTypeOK' /\ ExecTypeOK'
<1> USE StoreAssumption, QueueAssumption
    DEF TypeOK, StoreTypeOK, QueueTypeOK, ExecTypeOK, TaskStatus, StepStatus,
        ApprovalStatus, JobState, HandlerPc, Reply, storeVars, taskVars,
        historyVars, queueVars, Answer, Goto
<1>1. CASE PrepareCount(j)
  BY <1>1 DEF PrepareCount
<1>2. CASE MaterialiseStep(j)
  <2>1. \E k \in Steps : step' = [step EXCEPT ![k] = "pending"]
    BY <1>2 DEF MaterialiseStep
  <2>2. UNCHANGED <<taskVars, approval, expired, historyVars, faults, queueVars>>
    BY <1>2 DEF MaterialiseStep
  <2>3. Answer(j, "ok") \/ UNCHANGED <<handler, target, reply>>
    BY <1>2 DEF MaterialiseStep
  <2> QED
    BY <2>1, <2>2, <2>3
<1>3. CASE ReadStep(j)
  BY <1>3 DEF ReadStep
<1>4. CASE GuardApproved(j)
  BY <1>4 DEF GuardApproved
<1>5. CASE GuardPending(j)
  BY <1>5 DEF GuardPending
<1>6. CASE CreateApproval(j)
  BY <1>6 DEF CreateApproval, NewApproval
<1>7. CASE InvokeTool(j)
  BY <1>7 DEF InvokeTool, StepsInRange, StepOps
<1>8. CASE RunCapability(j)
  BY <1>8 DEF RunCapability
<1> HIDE DEF StoreTypeOK, QueueTypeOK, ExecTypeOK
<1> QED
  BY <1>1, <1>2, <1>3, <1>4, <1>5, <1>6, <1>7, <1>8 DEF ServeCall

LEMMA EnqueueType ==
  ASSUME QueueTypeOK, Enqueue
  PROVE  QueueTypeOK'
BY DEF QueueTypeOK, JobState, Enqueue, AddJob

LEMMA ReviewType ==
  ASSUME TypeOK, NEW r \in Reviewers, Review(r)
  PROVE  StoreTypeOK' /\ QueueTypeOK' /\ ReviewTypeOK'
<1> USE DEF TypeOK, StoreTypeOK, ReviewTypeOK, TaskStatus, ApprovalStatus,
            Decisions, ReviewPc, storeVars, taskVars, historyVars, queueVars,
            ReviewGoes, ReviewEnds
<1>1. ASSUME NEW a \in Approvals, NEW d \in Decisions, OpenReview(r, a, d)
      PROVE  StoreTypeOK' /\ QueueTypeOK' /\ ReviewTypeOK'
  BY <1>1 DEF OpenReview, QueueTypeOK
<1>2. CASE Decide(r)
  BY <1>2 DEF Decide, QueueTypeOK
<1>3. CASE LinkTask(r)
  BY <1>3 DEF LinkTask, QueueTypeOK
<1>4. CASE ResumeTask(r)
  BY <1>4 DEF ResumeTask, QueueTypeOK
<1>5. CASE EnqueueResumed(r)
  BY <1>5, EnqueueType DEF EnqueueResumed
<1> HIDE DEF StoreTypeOK, ReviewTypeOK
<1> QED
  BY <1>1, <1>2, <1>3, <1>4, <1>5 DEF Review

LEMMA ScanType ==
  ASSUME TypeOK, NEW s \in Scans, Scan(s)
  PROVE  StoreTypeOK' /\ ScanTypeOK'
<1> USE DEF TypeOK, StoreTypeOK, ScanTypeOK, TaskStatus, ApprovalStatus,
            ScanPc, storeVars, taskVars, historyVars, ScanGoes, Overdue
<1>1. CASE ScanTasks(s)
  BY <1>1 DEF ScanTasks
<1>2. CASE TimeoutTask(s)
  BY <1>2 DEF TimeoutTask
<1>3. CASE ScanApprovals(s)
  BY <1>3 DEF ScanApprovals
<1>4. CASE MarkExpired(s)
  BY <1>4 DEF MarkExpired
<1>5. CASE LinkExpired(s)
  BY <1>5 DEF LinkExpired
<1> HIDE DEF StoreTypeOK, ScanTypeOK
<1> QED
  BY <1>1, <1>2, <1>3, <1>4, <1>5 DEF Scan

LEMMA StrikesType ==
  ASSUME StoreTypeOK, NEW f \in FaultKind, Strikes(f)
  PROVE  faults' \in [FaultKind -> Nat]
BY DEF StoreTypeOK, Strikes

LEMMA FaultType ==
  ASSUME TypeOK, StepsInRange, Faulty
  PROVE  TypeOK'
<1> USE DEF TypeOK, storeVars, taskVars, historyVars, queueVars, execVars,
            workerVars, reviewVars, scanVars
<1>1. CASE WorkerCrash
  <2>1. faults' \in [FaultKind -> Nat]
    BY <1>1, StrikesType DEF WorkerCrash, WorkerDies, FaultKind
  <2>2. QueueTypeOK'
    BY <1>1 DEF WorkerCrash, WorkerDies, JobsStall, QueueTypeOK, JobState
  <2>3. WorkerTypeOK' /\ ExecTypeOK'
    BY <1>1, StoreAssumption
       DEF WorkerCrash, WorkerDies, WorkerTypeOK, WorkerPc, NoSnap, StepStatus,
           ExecTypeOK, Reply
  <2>4. StoreTypeOK' /\ ReviewTypeOK'
    BY <1>1, <2>1 DEF WorkerCrash, WorkerDies, StoreTypeOK, ReviewTypeOK
  <2>5. ScanTypeOK'
    BY <1>1 DEF WorkerCrash, ScansDie, ScanTypeOK, ScanPc
  <2> QED
    BY <2>2, <2>3, <2>4, <2>5
<1>2. CASE ServerCrash
  <2>1. faults' \in [FaultKind -> Nat]
    BY <1>2, StrikesType DEF ServerCrash, FaultKind
  <2>2. StoreTypeOK' /\ QueueTypeOK' /\ WorkerTypeOK' /\ ScanTypeOK'
    BY <1>2, <2>1
       DEF ServerCrash, StoreTypeOK, QueueTypeOK, WorkerTypeOK, ScanTypeOK
  <2>3. ExecTypeOK'
    BY <1>2, StoreAssumption
       DEF ServerCrash, HandlersDie, ExecTypeOK, HandlerPc, Reply
  <2>4. ReviewTypeOK'
    BY <1>2 DEF ServerCrash, RequestsDie, ReviewTypeOK, ReviewPc, Decisions
  <2> QED
    BY <2>2, <2>3, <2>4
<1>3. ASSUME NEW j \in Jobs, LoseCall(j) \/ HandlerThrows(j),
             UNCHANGED <<workerVars, reviewVars, scanVars>>
      PROVE  TypeOK'
  <2>1. faults' \in [FaultKind -> Nat]
    BY <1>3, StrikesType DEF LoseCall, HandlerThrows, FaultKind
  <2>2. StoreTypeOK'
    BY <1>3, <2>1
       DEF LoseCall, HandlerThrows, NewApproval, StoreTypeOK, ApprovalStatus
  <2>3. QueueTypeOK' /\ WorkerTypeOK' /\ ReviewTypeOK' /\ ScanTypeOK'
    BY <1>3
       DEF LoseCall, HandlerThrows, QueueTypeOK, WorkerTypeOK, ReviewTypeOK,
           ScanTypeOK
  <2>4. ExecTypeOK'
    BY <1>3, StoreAssumption
       DEF LoseCall, HandlerThrows, Answer, ExecTypeOK, HandlerPc, Reply
  <2> QED
    BY <2>2, <2>3, <2>4
<1>4. ASSUME NEW j \in Jobs, QueryFails(j) \/ SuccessThrows(j) \/ QueryThrows(j),
             UNCHANGED <<reviewVars, scanVars>>
      PROVE  TypeOK'
  <2>1. faults' \in [FaultKind -> Nat]
    BY <1>4, StrikesType DEF QueryFails, SuccessThrows, QueryThrows, FaultKind
  <2>2. step' \in [Steps -> StepStatus]
    BY <1>4
       DEF QueryFails, SuccessThrows, QueryThrows, StoreTypeOK, StepStatus
  <2>3. done' \subseteq Steps
    BY <1>4
       DEF QueryFails, SuccessThrows, QueryThrows, StoreTypeOK, StepsInRange, At
  <2>4. StoreTypeOK'
    BY <1>4, <2>1, <2>2, <2>3
       DEF QueryFails, SuccessThrows, QueryThrows, StoreTypeOK
  <2>5. QueueTypeOK'
    BY <1>4
       DEF QueryFails, SuccessThrows, QueryThrows, JobThrows, QueueTypeOK,
           JobState
  <2>6. WorkerTypeOK'
    <3>1. \/ /\ Moves(j, "fail")
             /\ UNCHANGED <<snap, cur, verdict>>
          \/ Leaves(j)
      BY <1>4 DEF QueryFails, SuccessThrows, QueryThrows
    <3>2. CASE Leaves(j)
      <4>1. NoSnap \in [Steps -> StepStatus] /\ 1 \in 1..NSteps + 1
        BY StoreAssumption DEF NoSnap, StepStatus
      <4> QED
        BY <3>2, <4>1 DEF Moves, Leaves, WorkerTypeOK, WorkerPc
    <3> QED
      BY <3>1, <3>2 DEF Moves, WorkerTypeOK, WorkerPc
  <2>7. ExecTypeOK'
    BY <1>4
       DEF QueryFails, SuccessThrows, QueryThrows, Receives, ExecTypeOK, Reply
  <2>8. ReviewTypeOK' /\ ScanTypeOK'
    BY <1>4 DEF ReviewTypeOK, ScanTypeOK
  <2> QED
    BY <2>4, <2>5, <2>6, <2>7, <2>8
<1>5. ASSUME CreateThrows \/ \E r \in Reviewers : ReviewThrows(r),
             UNCHANGED <<execVars, workerVars, scanVars>>
      PROVE  TypeOK'
  <2>1. faults' \in [FaultKind -> Nat]
    BY <1>5, StrikesType DEF CreateThrows, ReviewThrows, FaultKind
  <2>2. StoreTypeOK' /\ QueueTypeOK' /\ ExecTypeOK' /\ WorkerTypeOK' /\ ScanTypeOK'
    BY <1>5, <2>1
       DEF CreateThrows, ReviewThrows, StoreTypeOK, QueueTypeOK, ExecTypeOK,
           WorkerTypeOK, ScanTypeOK
  <2>3. ReviewTypeOK'
    BY <1>5
       DEF CreateThrows, ReviewThrows, ReviewEnds, ReviewGoes, ReviewTypeOK,
           ReviewPc, Decisions
  <2> QED
    BY <2>2, <2>3
<1>6. ASSUME NEW s \in Scans, ScanThrows(s),
             UNCHANGED <<queueVars, execVars, workerVars, reviewVars>>
      PROVE  TypeOK'
  <2>1. faults' \in [FaultKind -> Nat]
    BY <1>6, StrikesType DEF ScanThrows, FaultKind
  <2>2. StoreTypeOK' /\ QueueTypeOK' /\ ExecTypeOK' /\ WorkerTypeOK' /\ ReviewTypeOK'
    BY <1>6, <2>1
       DEF ScanThrows, StoreTypeOK, QueueTypeOK, ExecTypeOK, WorkerTypeOK,
           ReviewTypeOK
  <2>3. ScanTypeOK'
    BY <1>6 DEF ScanThrows, ScanGoes, ScanTypeOK, ScanPc
  <2> QED
    BY <2>2, <2>3
<1> HIDE DEF TypeOK
<1> QED
  BY <1>1, <1>2, <1>3, <1>4, <1>5, <1>6 DEF Faulty

LEMMA NextType ==
  ASSUME TypeOK, StepsInRange, [Next]_vars
  PROVE  TypeOK'
<1> USE DEF TypeOK, vars, storeVars, taskVars, historyVars, queueVars, execVars,
            workerVars, reviewVars, scanVars
<1> USE DEF StoreTypeOK, QueueTypeOK, ExecTypeOK, WorkerTypeOK, ReviewTypeOK,
            ScanTypeOK
<1>1. ASSUME NEW j \in Jobs, Worker(j)
      PROVE  TypeOK'
  BY <1>1, WorkerType DEF Worker
<1>2. ASSUME NEW j \in Jobs, Server(j)
      PROVE  TypeOK'
  BY <1>2, ServerType DEF Server
<1>3. CASE Creator
  BY <1>3, EnqueueType DEF Creator, EnqueueCreated
<1>4. ASSUME NEW r \in Reviewers, Reviewer(r)
      PROVE  TypeOK'
  BY <1>4, ReviewType DEF Reviewer
<1>5. ASSUME NEW s \in Scans, Scanner(s)
      PROVE  TypeOK'
  BY <1>5, ScanType DEF Scanner
<1>6. CASE Operator
  BY <1>6, StoreAssumption DEF Operator, Patch, StartedAt
<1>7. CASE Clock
  BY <1>7 DEF Clock, Elapse, Expire, StartedAt
<1>8. CASE Faulty
  BY <1>8, FaultType
<1>9. CASE UNCHANGED vars
  BY <1>9
<1> HIDE DEF TypeOK, vars
<1> QED
  BY <1>1, <1>2, <1>3, <1>4, <1>5, <1>6, <1>7, <1>8, <1>9 DEF Next

\* A call about a step is made for, and served with, a step of the workflow.
LEMMA NextStepsInRange ==
  ASSUME TypeOK, StepsInRange, [Next]_vars
  PROVE  StepsInRange'
<1> USE DEF StepsInRange, StepOps, vars, execVars, workerVars
<1>1. ASSUME NEW j \in Jobs, Worker(j)
      PROVE  StepsInRange'
  <2> USE DEF Moves, At, Receives, Call, TypeOK, WorkerTypeOK, ExecTypeOK
  <2>1. CASE SnapshotSteps(j)
    BY <2>1 DEF SnapshotSteps, Advances
  <2>2. CASE RunStep(j)
    BY <2>2, StoreAssumption DEF RunStep, Steps
  <2>3. CASE StepSucceeds(j)
    BY <2>3 DEF StepSucceeds, Advances
  <2>4. CASE Rethrow(j) \/ Return(j)
    BY <2>4 DEF Rethrow, Return, Leaves
  <2> QED
    BY <1>1, <2>1, <2>2, <2>3, <2>4
       DEF Worker, ProcessJob, LoadTask, StartTask, CallPrepare, Prepared,
           ParkTask, StepFails, CompleteTask, CapabilityFails, CountFailure,
           WriteVerdict
<1>2. ASSUME NEW j \in Jobs, Server(j)
      PROVE  StepsInRange'
  BY <1>2
     DEF Server, ServeCall, PrepareCount, MaterialiseStep, ReadStep,
         GuardApproved, GuardPending, CreateApproval, InvokeTool, RunCapability,
         Answer, Goto, TypeOK, ExecTypeOK
<1>3. CASE Creator \/ \E r \in Reviewers : Reviewer(r)
  BY <1>3 DEF Creator, Reviewer
<1>4. CASE (\E s \in Scans : Scanner(s)) \/ Operator \/ Clock
  BY <1>4 DEF Scanner, Operator, Clock
<1>5. CASE Faulty
  BY <1>5
     DEF Faulty, WorkerCrash, WorkerDies, ServerCrash, HandlersDie, LoseCall,
         HandlerThrows, QueryFails, SuccessThrows, QueryThrows, Moves, Leaves,
         Receives, Answer, TypeOK, WorkerTypeOK, ExecTypeOK
<1>6. CASE UNCHANGED vars
  BY <1>6
<1> QED
  BY <1>1, <1>2, <1>3, <1>4, <1>5, <1>6 DEF Next

\* Every variable keeps its type, in every run of the pipeline.
THEOREM TypeCorrect == Spec => [](TypeOK /\ StepsInRange)
<1>1. Init => TypeOK /\ StepsInRange
  BY InitType
     DEF Init, StepsInRange, StepOps, WorkerInit, ExecInit
<1>2. TypeOK /\ StepsInRange /\ [Next]_vars => (TypeOK /\ StepsInRange)'
  BY NextType, NextStepsInRange
<1> QED
  BY <1>1, <1>2, PTL DEF Spec

(***************************************************************************)
(* Tools behind a confirmation.                                            *)
(***************************************************************************)
LEMMA NextGuard ==
  ASSUME TypeOK, StepsInRange, GuardInv, [Next]_vars
  PROVE  GuardInv'
<1> USE DEF GuardInv, GuardedCalls, vars, storeVars, taskVars, historyVars,
            execVars
<1>1. ASSUME NEW j \in Jobs, Worker(j)
      PROVE  GuardInv'
  <2>1. UNCHANGED <<approval, called, granted>>
    BY <1>1
       DEF Worker, ProcessJob, LoadTask, StartTask, CallPrepare, Prepared,
           SnapshotSteps, RunStep, ParkTask, StepSucceeds, StepFails,
           CompleteTask, CapabilityFails, CountFailure, WriteVerdict, Rethrow,
           Return, StoreExceptTask
  <2>2. \/ UNCHANGED <<handler, target>>
        \/ \E k \in 0..NSteps :
             Call(j, "count", k) \/ Call(j, "capability", k) \/ Call(j, "readStep", k)
    BY <1>1, StoreAssumption
       DEF Worker, ProcessJob, LoadTask, StartTask, CallPrepare, Prepared,
           SnapshotSteps, RunStep, ParkTask, StepSucceeds, StepFails,
           CompleteTask, CapabilityFails, CountFailure, WriteVerdict, Rethrow,
           Return, Receives, TypeOK, WorkerTypeOK
  <2> QED
    BY <2>1, <2>2 DEF Call, TypeOK, ExecTypeOK
<1>2. ASSUME NEW j \in Jobs, ServeCall(j)
      PROVE  GuardInv'
  <2> USE DEF Answer, Goto, TypeOK, ExecTypeOK
  <2>1. CASE PrepareCount(j) \/ MaterialiseStep(j) \/ RunCapability(j)
    BY <2>1 DEF PrepareCount, MaterialiseStep, RunCapability
  <2>2. CASE ReadStep(j)
    BY <2>2 DEF ReadStep
  <2>3. CASE GuardApproved(j)
    BY <2>3 DEF GuardApproved
  <2>4. CASE GuardPending(j)
    BY <2>4 DEF GuardPending
  <2>5. CASE CreateApproval(j)
    BY <2>5 DEF CreateApproval, NewApproval, StoreTypeOK
  <2>6. CASE InvokeTool(j)
    BY <2>6 DEF InvokeTool
  <2> QED
    BY <1>2, <2>1, <2>2, <2>3, <2>4, <2>5, <2>6 DEF ServeCall
<1>3. ASSUME NEW r \in Reviewers, Reviewer(r)
      PROVE  GuardInv'
  <2>1. UNCHANGED <<handler, target, called>>
    BY <1>3
       DEF Reviewer, Review, OpenReview, Decide, LinkTask, ResumeTask,
           EnqueueResumed
  <2>2. CASE Decide(r)
    BY <2>1, <2>2, StoreAssumption DEF Decide, TypeOK, StoreTypeOK, ReviewTypeOK
  <2>3. CASE UNCHANGED <<approval, granted>>
    BY <2>1, <2>3
  <2> QED
    BY <1>3, <2>2, <2>3
       DEF Reviewer, Review, OpenReview, LinkTask, ResumeTask, EnqueueResumed
<1>4. CASE \E s \in Scans : Scanner(s)
  BY <1>4
     DEF Scanner, Scan, ScanTasks, TimeoutTask, ScanApprovals, MarkExpired,
         LinkExpired, TypeOK, StoreTypeOK
<1>5. CASE Creator \/ Operator \/ Clock \/ UNCHANGED vars
  BY <1>5 DEF Creator, EnqueueCreated, Operator, Patch, Clock, Elapse, Expire
<1>6. CASE Faulty
  <2>1. CASE WorkerCrash \/ ServerCrash
    BY <2>1 DEF WorkerCrash, WorkerDies, ServerCrash, HandlersDie
  <2>2. ASSUME NEW j \in Jobs, LoseCall(j) \/ HandlerThrows(j)
        PROVE  GuardInv'
    BY <2>2
       DEF LoseCall, HandlerThrows, NewApproval, Answer, TypeOK, StoreTypeOK,
           ExecTypeOK
  <2>3. ASSUME NEW j \in Jobs, QueryFails(j) \/ SuccessThrows(j) \/ QueryThrows(j)
        PROVE  GuardInv'
    BY <2>3 DEF QueryFails, SuccessThrows, QueryThrows, Receives
  <2>4. ASSUME CreateThrows \/ \E r \in Reviewers : ReviewThrows(r),
               UNCHANGED execVars
        PROVE  GuardInv'
    BY <2>4 DEF CreateThrows, ReviewThrows
  <2>5. ASSUME NEW s \in Scans, ScanThrows(s), UNCHANGED execVars
        PROVE  GuardInv'
    BY <2>5 DEF ScanThrows
  <2> QED
    BY <1>6, <2>1, <2>2, <2>3, <2>4, <2>5 DEF Faulty
<1> QED
  BY <1>1, <1>2, <1>3, <1>4, <1>5, <1>6 DEF Next, Server

\* A tool that needs confirmation is never invoked on a task nobody has ever
\* approved: guardStepConfirmation holds against reviews, retries and crashes.
THEOREM CallsAreGuarded == Spec => []GuardedCalls
<1>1. Init => GuardInv
  BY DEF Init, StoreInit, ExecInit, GuardInv, GuardedCalls
<1>2. TypeOK /\ StepsInRange /\ GuardInv /\ [Next]_vars => GuardInv'
  BY NextGuard
<1>3. GuardInv => GuardedCalls
  BY DEF GuardInv
<1> QED
  BY TypeCorrect, <1>1, <1>2, <1>3, PTL DEF Spec

(***************************************************************************)
(* A running task has a start time.                                        *)
(***************************************************************************)
LEMMA NextVisible ==
  ASSUME TypeOK, VisibleInv, [Next]_vars
  PROVE  VisibleInv'
<1> USE DEF VisibleInv, vars, storeVars, taskVars, execVars, workerVars,
            reviewVars, TypeOK, StoreTypeOK, StartedAt
<1>1. ASSUME NEW j \in Jobs, ProcessJob(j), UNCHANGED reviewVars
      PROVE  VisibleInv'
  <2> USE DEF UpdateTaskStatus, Moves, At, Receives, Call, StoreExceptTask
  <2>1. CASE LoadTask(j)
    BY <1>1, <2>1 DEF LoadTask, WorkerTypeOK
  <2>2. CASE StartTask(j)
    BY <1>1, <2>2 DEF StartTask
  <2>3. CASE startedAt # "null" /\ (UNCHANGED startedAt \/ startedAt' = "recent")
    BY <2>3
  <2>4. pc[j] \notin {"idle", "start"} =>
          \/ UNCHANGED startedAt
          \/ startedAt' = "recent"
    BY <1>1
       DEF ProcessJob, LoadTask, StartTask, CallPrepare, Prepared,
           SnapshotSteps, RunStep, ParkTask, StepSucceeds, StepFails,
           CompleteTask, CapabilityFails, CountFailure, WriteVerdict, Rethrow,
           Return
  <2>5. LoadTask(j) \/ StartTask(j) \/ pc[j] \notin {"idle", "start"}
    BY <1>1
       DEF ProcessJob, CallPrepare, Prepared,
           SnapshotSteps, RunStep, ParkTask, StepSucceeds, StepFails,
           CompleteTask, CapabilityFails, CountFailure, WriteVerdict, Rethrow,
           Return
  <2> QED
    BY <2>1, <2>2, <2>3, <2>4, <2>5
<1>2. ASSUME NEW j \in Jobs, ServeCall(j), UNCHANGED <<workerVars, reviewVars>>
      PROVE  VisibleInv'
  <2>1. handler[j] # "idle" /\ UNCHANGED startedAt
    BY <1>2
       DEF ServeCall, PrepareCount, MaterialiseStep, ReadStep, GuardApproved,
           GuardPending, CreateApproval, InvokeTool, RunCapability
  <2> QED
    BY <2>1
<1>3. ASSUME NEW r \in Reviewers, Reviewer(r)
      PROVE  VisibleInv'
  <2>1. UNCHANGED startedAt
    BY <1>3
       DEF Reviewer, Review, OpenReview, Decide, LinkTask, ResumeTask,
           EnqueueResumed
  <2>2. review[r] # "idle" \/ \E a \in Approvals : approval[a] = "pending"
    BY <1>3
       DEF Reviewer, Review, OpenReview, Decide, LinkTask, ResumeTask,
           EnqueueResumed
  <2> QED
    BY <2>1, <2>2
<1>4. ASSUME NEW s \in Scans, Scanner(s)
      PROVE  VisibleInv'
  BY <1>4
     DEF Scanner, Scan, ScanTasks, TimeoutTask, ScanApprovals, MarkExpired,
         LinkExpired, Overdue
<1>5. CASE Creator \/ Operator \/ Clock \/ UNCHANGED vars
  BY <1>5 DEF Creator, EnqueueCreated, Operator, Patch, Clock, Elapse, Expire
<1>6. CASE Faulty
  <2>1. CASE WorkerCrash \/ ServerCrash
    BY <2>1
       DEF WorkerCrash, WorkerDies, ServerCrash, HandlersDie, RequestsDie
  <2>2. ASSUME NEW j \in Jobs, LoseCall(j) \/ HandlerThrows(j),
               UNCHANGED <<workerVars, reviewVars>>
        PROVE  VisibleInv'
    BY <2>2 DEF LoseCall, HandlerThrows, Answer
  <2>3. ASSUME NEW j \in Jobs, QueryFails(j) \/ SuccessThrows(j) \/ QueryThrows(j),
               UNCHANGED reviewVars
        PROVE  VisibleInv'
    BY <2>3
       DEF QueryFails, SuccessThrows, QueryThrows, Receives, Moves, Leaves, At,
           WorkerTypeOK
  <2>4. ASSUME CreateThrows \/ \E r \in Reviewers : ReviewThrows(r),
               UNCHANGED <<execVars, workerVars>>
        PROVE  VisibleInv'
    BY <2>4 DEF CreateThrows, ReviewThrows, ReviewEnds, ReviewGoes, ReviewTypeOK
  <2>5. ASSUME NEW s \in Scans, ScanThrows(s),
               UNCHANGED <<execVars, workerVars, reviewVars>>
        PROVE  VisibleInv'
    BY <2>5 DEF ScanThrows
  <2> QED
    BY <1>6, <2>1, <2>2, <2>3, <2>4, <2>5 DEF Faulty
<1> QED
  BY <1>1, <1>2, <1>3, <1>4, <1>5, <1>6 DEF Next, Worker, Server

\* A running task always has a start time, so the timeout scan never passes
\* over it, whichever of the worker, a review or an operator set it running.
THEOREM RunningTasksAreVisible == Spec => []RunningIsVisible
<1>1. Init => VisibleInv
  BY DEF Init, StoreInit, ExecInit, WorkerInit, ReviewInit, VisibleInv
<1>2. TypeOK /\ VisibleInv /\ [Next]_vars => VisibleInv'
  BY NextVisible
<1>3. VisibleInv => RunningIsVisible
  BY DEF VisibleInv, RunningIsVisible
<1> QED
  BY TypeCorrect, <1>1, <1>2, <1>3, PTL DEF Spec

(***************************************************************************)
(* The order of the steps.                                                 *)
(***************************************************************************)
\* No step disappears, none is undone, and one appears only when a handler
\* creates it.
Grows ==
    /\ \A k \in Steps :
         /\ step[k] # "absent" => step'[k] # "absent"
         /\ step[k] = "absent" /\ step'[k] # "absent" =>
              \E j \in Jobs : MaterialiseStep(j)
    /\ done \subseteq done'

LEMMA Untouched ==
  ASSUME TypeOK, StepsInRange, Grows, NEW j \in Jobs
  PROVE  /\ SnapInv(j) /\ snap'[j] = snap[j] => SnapInv(j)'
         /\ /\ LoopInv(j)
            /\ snap'[j] = snap[j] /\ cur'[j] = cur[j] /\ pc'[j] = pc[j]
            => LoopInv(j)'
         /\ /\ ServeInv(j)
            /\ handler'[j] = handler[j] /\ target'[j] = target[j]
            => ServeInv(j)'
<1>1. SnapInv(j) /\ snap'[j] = snap[j] => SnapInv(j)'
  BY DEF SnapInv, Closed, Grows
<1>2. /\ LoopInv(j)
      /\ snap'[j] = snap[j] /\ cur'[j] = cur[j] /\ pc'[j] = pc[j]
      => LoopInv(j)'
  BY DEF LoopInv, Grows
<1>3. /\ ServeInv(j)
      /\ handler'[j] = handler[j] /\ target'[j] = target[j]
      => ServeInv(j)'
  BY DEF ServeInv, Grows, StepsInRange
<1> QED
  BY <1>1, <1>2, <1>3

\* A step that exists may be given any status, completed only if it is done.
LEMMA StepWrite ==
  ASSUME TypeOK, StepsInv, NEW k \in Steps, step[k] # "absent",
         NEW x \in StepStatus \ {"absent"}, step' = [step EXCEPT ![k] = x],
         done \subseteq done', x = "completed" => k \in done'
  PROVE  Grows /\ StepsInv'
BY DEF TypeOK, StoreTypeOK, StepsInv, Closed, Grows, Steps

LEMMA StepKept ==
  ASSUME StepsInv, UNCHANGED step, done \subseteq done'
  PROVE  Grows /\ StepsInv'
BY DEF StepsInv, Closed, Grows

\* The step the loop has reached exists, and the ones before it are done.
LEMMA Reached ==
  ASSUME TypeOK, NEW j \in Jobs, SnapInv(j), LoopInv(j), cur[j] \in Steps
  PROVE  /\ pc[j] \in {"steps", "stepping", "finish"} => step[cur[j]] # "absent"
         /\ pc[j] \in {"steps", "stepping"} => 1..(cur[j] - 1) \subseteq done
<1>1. ASSUME pc[j] \in {"steps", "stepping"}, NEW l \in 1..(cur[j] - 1)
      PROVE  l \in done
  <2>1. l \in Steps /\ l < cur[j]
    BY StoreAssumption DEF Steps
  <2>2. snap[j][l] # "absent"
    BY <1>1 DEF SnapInv, LoopInv, Closed
  <2> QED
    BY <1>1, <2>1, <2>2 DEF LoopInv
<1>2. pc[j] \in {"steps", "stepping", "finish"} => step[cur[j]] # "absent"
  BY DEF SnapInv, LoopInv
<1> QED
  BY <1>1, <1>2

LEMMA WorkerOrder ==
  ASSUME TypeOK, StepsInRange, OrderInv, NEW j \in Jobs, ProcessJob(j)
  PROVE  Grows /\ OrderInv'
<1> USE DEF storeVars, taskVars, historyVars, execVars, StoreExceptTask, At, Moves
<1>1. UNCHANGED called
  BY DEF ProcessJob, LoadTask, StartTask, CallPrepare, Prepared, SnapshotSteps,
         RunStep, ParkTask, StepSucceeds, StepFails, CompleteTask,
         CapabilityFails, CountFailure, WriteVerdict, Rethrow, Return
<1>2. Grows /\ StepsInv'
  <2>1. CASE RunStep(j)
    <3>1. cur[j] \in Steps /\ step[cur[j]] # "absent"
      BY <2>1, Reached DEF RunStep, OrderInv, TypeOK, WorkerTypeOK, Steps
    <3>2. UNCHANGED done
      BY <2>1 DEF RunStep
    <3>3. UNCHANGED step \/ step' = [step EXCEPT ![cur[j]] = "running"]
      BY <2>1 DEF RunStep
    <3> QED
      BY <3>1, <3>2, <3>3, StepWrite, StepKept DEF OrderInv, StepStatus
  <2>2. CASE StepSucceeds(j) \/ StepFails(j)
    <3>1. cur[j] \in Steps /\ step[cur[j]] # "absent"
      BY <2>2, Reached DEF StepSucceeds, StepFails, OrderInv, StepsInRange
    <3>2. \E x \in {"completed", "failed"} :
            /\ step' = [step EXCEPT ![cur[j]] = x]
            /\ done \subseteq done'
            /\ x = "completed" => cur[j] \in done'
      BY <2>2 DEF StepSucceeds, StepFails
    <3> QED
      BY <3>1, <3>2, StepWrite DEF OrderInv, StepStatus
  <2>3. CASE UNCHANGED <<step, done>>
    BY <2>3, StepKept DEF OrderInv
  <2> QED
    BY <2>1, <2>2, <2>3
       DEF ProcessJob, LoadTask, StartTask, CallPrepare, Prepared,
           SnapshotSteps, ParkTask, CompleteTask, CapabilityFails,
           CountFailure, WriteVerdict, Rethrow, Return
<1>3. ASSUME NEW i \in Jobs, i # j
      PROVE  SnapInv(i)' /\ LoopInv(i)' /\ ServeInv(i)'
  <2>1. /\ snap'[i] = snap[i] /\ cur'[i] = cur[i] /\ pc'[i] = pc[i]
        /\ handler'[i] = handler[i] /\ target'[i] = target[i]
    BY <1>3
       DEF ProcessJob, LoadTask, StartTask, CallPrepare, Prepared,
           SnapshotSteps, RunStep, ParkTask, StepSucceeds, StepFails,
           CompleteTask, CapabilityFails, CountFailure, WriteVerdict, Rethrow,
           Return, Leaves, Receives, Call, Advances, TypeOK, ExecTypeOK,
           WorkerTypeOK
  <2> QED
    BY <1>2, <2>1, Untouched DEF OrderInv
<1>4. SnapInv(j)'
  <2>1. CASE UNCHANGED snap
    BY <1>2, <2>1, Untouched DEF OrderInv
  <2>2. CASE UNCHANGED <<step, done>> /\ snap' = [snap EXCEPT ![j] = step]
    BY <2>2 DEF OrderInv, StepsInv, SnapInv, Closed, TypeOK, WorkerTypeOK
  <2>3. CASE Leaves(j)
    BY <2>3 DEF Leaves, NoSnap, SnapInv, Closed, TypeOK, WorkerTypeOK, Steps
  <2> QED
    BY <2>1, <2>2, <2>3
       DEF ProcessJob, LoadTask, StartTask, CallPrepare, Prepared,
           SnapshotSteps, RunStep, ParkTask, StepSucceeds, StepFails,
           CompleteTask, CapabilityFails, CountFailure, WriteVerdict, Rethrow,
           Return
<1>5. LoopInv(j)'
  <2> USE DEF TypeOK, WorkerTypeOK
  <2>1. CASE SnapshotSteps(j)
    <3>1. CASE Materialised # {}
      <4>1. PICK i \in 1..NSteps + 1 :
              ComesTo(step, 0, i) /\ cur' = [cur EXCEPT ![j] = i]
        BY <2>1, <3>1 DEF SnapshotSteps, Advances
      <4>2. UNCHANGED <<step, done>> /\ snap'[j] = step /\ pc'[j] = "steps"
        BY <2>1, <3>1 DEF SnapshotSteps
      <4>3. \A l \in Steps : l < i /\ step[l] # "absent" => step[l] = "completed"
        BY <4>1 DEF ComesTo, Steps
      <4> QED
        BY <4>1, <4>2, <4>3 DEF OrderInv, StepsInv, LoopInv, ComesTo
    <3>2. CASE Materialised = {}
      BY <2>1, <3>2, StoreAssumption DEF SnapshotSteps, LoopInv, Steps
    <3> QED
      BY <3>1, <3>2
  <2>2. CASE StepSucceeds(j)
    <3>1. PICK i \in 1..NSteps + 1 :
            ComesTo(snap[j], cur[j], i) /\ cur' = [cur EXCEPT ![j] = i]
      BY <2>2 DEF StepSucceeds, Advances
    <3>2. /\ UNCHANGED snap
          /\ done' = done \cup {cur[j]}
          /\ pc[j] = "stepping"
      BY <2>2 DEF StepSucceeds
    <3>3. ASSUME NEW l \in Steps, l < i, snap[j][l] # "absent"
          PROVE  l \in done'
      <4>1. CASE l < cur[j]
        BY <3>2, <3>3, <4>1 DEF OrderInv, LoopInv
      <4>2. CASE l = cur[j]
        BY <3>2, <4>2
      <4>3. CASE l > cur[j]
        <5>1. snap[j][l] = "completed"
          BY <3>1, <3>3, <4>3 DEF ComesTo, Steps
        <5> QED
          BY <3>2, <5>1 DEF OrderInv, SnapInv
      <4> QED
        BY <4>1, <4>2, <4>3 DEF Steps
    <3>4. cur'[j] = i /\ snap'[j] = snap[j] /\ pc'[j] = "steps"
      BY <2>2, <3>1, <3>2 DEF StepSucceeds
    <3>5. i \in Steps => snap[j][i] # "absent"
      BY <3>1 DEF ComesTo
    <3> QED
      BY <3>3, <3>4, <3>5 DEF LoopInv
  <2>3. CASE /\ UNCHANGED <<snap, cur>>
             /\ \/ pc'[j] = pc[j]
                \/ pc'[j] \notin {"steps", "stepping", "finish", "running"}
    BY <1>2, <2>3, Untouched DEF OrderInv, LoopInv
  <2>4. CASE RunStep(j) \/ ParkTask(j)
    BY <1>2, <2>4 DEF RunStep, ParkTask, OrderInv, LoopInv, Grows
  <2>5. CASE CompleteTask(j)
    <3>1. UNCHANGED <<snap, cur>> /\ pc'[j] = "finish"
      BY <2>5 DEF CompleteTask
    <3>2. cur[j] \notin Steps
      BY <2>5, StoreAssumption DEF CompleteTask, Steps, OrderInv, LoopInv
    <3> QED
      BY <3>1, <3>2 DEF LoopInv
  <2>6. CASE Rethrow(j) \/ Return(j)
    BY <2>6 DEF Rethrow, Return, Leaves, LoopInv
  <2> QED
    BY <2>1, <2>2, <2>3, <2>4, <2>5, <2>6
       DEF ProcessJob, LoadTask, StartTask, CallPrepare, Prepared, StepFails,
           CapabilityFails, CountFailure, WriteVerdict
<1>6. ServeInv(j)'
  <2>1. CASE UNCHANGED <<handler, target>>
    BY <1>2, <2>1, Untouched DEF OrderInv
  <2>2. CASE Call(j, "count", 0) \/ Call(j, "capability", 0)
    BY <2>2 DEF Call, ServeInv, StepOps, TypeOK, ExecTypeOK
  <2>3. CASE RunStep(j)
    <3>1. /\ cur[j] \in Steps /\ step[cur[j]] # "absent"
          /\ 1..(cur[j] - 1) \subseteq done
      BY <2>3, Reached DEF RunStep, OrderInv, TypeOK, WorkerTypeOK, Steps
    <3>2. target'[j] = cur[j]
      BY <2>3 DEF RunStep, Call, TypeOK, ExecTypeOK
    <3> QED
      BY <1>2, <3>1, <3>2 DEF ServeInv, Grows
  <2> QED
    BY <2>1, <2>2, <2>3
       DEF ProcessJob, LoadTask, StartTask, CallPrepare, Prepared,
           SnapshotSteps, ParkTask, StepSucceeds, StepFails, CompleteTask,
           CapabilityFails, CountFailure, WriteVerdict, Rethrow, Return, Receives
<1>7. StepOrder'
  BY <1>1, <1>2 DEF OrderInv, StepOrder, Grows
<1> QED
  BY <1>2, <1>3, <1>4, <1>5, <1>6, <1>7 DEF OrderInv

LEMMA ServerOrder ==
  ASSUME TypeOK, StepsInRange, OrderInv, NEW j \in Jobs, ServeCall(j),
         UNCHANGED workerVars
  PROVE  Grows /\ OrderInv'
<1> USE DEF storeVars, taskVars, historyVars, workerVars
<1>1. UNCHANGED done /\ called \subseteq called'
  BY DEF ServeCall, PrepareCount, MaterialiseStep, ReadStep, GuardApproved,
         GuardPending, CreateApproval, InvokeTool, RunCapability
<1>2. Grows /\ StepsInv'
  <2>1. CASE MaterialiseStep(j)
    <3>1. PICK k \in Steps :
            Materialised = 1..(k - 1) /\ step' = [step EXCEPT ![k] = "pending"]
      BY <2>1 DEF MaterialiseStep
    <3>2. \A l \in Steps : step'[l] = IF l = k THEN "pending" ELSE step[l]
      BY <3>1 DEF TypeOK, StoreTypeOK
    <3>3. ASSUME NEW l \in Steps
          PROVE  step[l] # "absent" <=> l < k
      <4>0. Materialised = 1..(k - 1)
        BY <3>1
      <4>1. step[l] # "absent" <=> l \in 1..(k - 1)
        BY <4>0 DEF Materialised
      <4> QED
        BY <4>1, StoreAssumption DEF Steps
    <3>4. \A l \in Steps : step'[l] # "absent" => l <= k
      BY <3>2, <3>3 DEF Steps
    <3>5. Closed(step')
      <4>1. ASSUME NEW m \in Steps, step'[m] # "absent", NEW l \in 1..(m - 1)
            PROVE  step'[l] # "absent"
        <5>1. l \in Steps /\ (l < k \/ l = k)
          BY <3>4, <4>1, StoreAssumption DEF Steps
        <5> QED
          BY <3>2, <3>3, <5>1
      <4> QED
        BY <4>1 DEF Closed
    <3> QED
      BY <1>1, <2>1, <3>2, <3>5 DEF OrderInv, StepsInv, Grows
  <2>2. CASE UNCHANGED step
    BY <1>1, <2>2, StepKept DEF OrderInv
  <2> QED
    BY <2>1, <2>2
       DEF ServeCall, PrepareCount, ReadStep, GuardApproved, GuardPending,
           CreateApproval, InvokeTool, RunCapability
<1>3. \A i \in Jobs : SnapInv(i)' /\ LoopInv(i)'
  BY <1>2, Untouched DEF OrderInv
<1>4. \A i \in Jobs : ServeInv(i)'
  <2>1. ASSUME NEW i \in Jobs
        PROVE  \/ handler'[i] \notin StepOps
               \/ /\ handler[i] \in StepOps /\ handler'[i] \in StepOps
                  /\ target'[i] = target[i]
               \/ handler'[i] = handler[i] /\ target'[i] = target[i]
    BY DEF ServeCall, PrepareCount, MaterialiseStep, ReadStep, GuardApproved,
           GuardPending, CreateApproval, InvokeTool, RunCapability, Answer,
           Goto, StepOps, TypeOK, ExecTypeOK
  <2> QED
    BY <1>2, <2>1 DEF OrderInv, ServeInv, Grows, StepsInRange
<1>5. StepOrder'
  <2>1. CASE InvokeTool(j)
    BY <1>1, <2>1
       DEF InvokeTool, OrderInv, StepOrder, ServeInv, StepOps, TypeOK, ExecTypeOK
  <2>2. CASE UNCHANGED called
    BY <1>1, <2>2 DEF OrderInv, StepOrder
  <2> QED
    BY <2>1, <2>2
       DEF ServeCall, PrepareCount, MaterialiseStep, ReadStep, GuardApproved,
           GuardPending, CreateApproval, RunCapability
<1> QED
  BY <1>2, <1>3, <1>4, <1>5 DEF OrderInv

LEMMA FaultOrder ==
  ASSUME TypeOK, StepsInRange, OrderInv, Faulty
  PROVE  Grows /\ OrderInv'
<1> USE DEF storeVars, taskVars, historyVars, execVars, workerVars
<1>1. UNCHANGED called
  BY DEF Faulty, WorkerCrash, WorkerDies, ServerCrash, LoseCall, HandlerThrows,
         QueryFails, SuccessThrows, QueryThrows, CreateThrows, ReviewThrows,
         ScanThrows
<1>2. Grows /\ StepsInv'
  <2>1. ASSUME NEW j \in Jobs, QueryFails(j)
        PROVE  Grows /\ StepsInv'
    <3>1. CASE UNCHANGED step
      BY <2>1, <3>1, StepKept DEF QueryFails, OrderInv
    <3>2. CASE cur[j] \in Steps /\ pc[j] \in {"steps", "finish"}
      <4>1. step[cur[j]] # "absent"
        BY <3>2, Reached DEF OrderInv
      <4>2. UNCHANGED step \/ \E x \in {"running", "failed"} :
              step' = [step EXCEPT ![cur[j]] = x]
        BY <2>1 DEF QueryFails, TypeOK, StoreTypeOK
      <4> QED
        BY <2>1, <3>2, <4>1, <4>2, StepWrite, StepKept
           DEF QueryFails, OrderInv, StepStatus
    <3>3. CASE cur[j] \notin Steps
      BY <2>1, <3>1, <3>3 DEF QueryFails, TypeOK, StoreTypeOK
    <3> QED
      BY <2>1, <3>1, <3>2, <3>3 DEF QueryFails
  <2>2. ASSUME NEW j \in Jobs, SuccessThrows(j)
        PROVE  Grows /\ StepsInv'
    <3>1. cur[j] \in Steps /\ step[cur[j]] # "absent"
      BY <2>2, Reached DEF SuccessThrows, OrderInv, StepsInRange, At
    <3>2. step' = [step EXCEPT ![cur[j]] = "failed"] /\ done \subseteq done'
      BY <2>2 DEF SuccessThrows
    <3> QED
      BY <3>1, <3>2, StepWrite DEF OrderInv, StepStatus
  <2>3. CASE UNCHANGED <<step, done>>
    BY <2>3, StepKept DEF OrderInv
  <2> QED
    BY <2>1, <2>2, <2>3
       DEF Faulty, WorkerCrash, WorkerDies, ServerCrash, LoseCall,
           HandlerThrows, QueryThrows, CreateThrows, ReviewThrows, ScanThrows
<1>3. ASSUME NEW i \in Jobs
      PROVE  SnapInv(i)' /\ LoopInv(i)'
  <2>1. \/ snap'[i] = snap[i] /\ cur'[i] = cur[i] /\ pc'[i] = pc[i]
        \/ snap'[i] = snap[i] /\ pc'[i] = "fail"
        \/ snap'[i] = NoSnap /\ pc'[i] = "idle"
    BY DEF Faulty, WorkerCrash, WorkerDies, ServerCrash, LoseCall,
           HandlerThrows, QueryFails, SuccessThrows, QueryThrows, CreateThrows,
           ReviewThrows, ScanThrows, Moves, Leaves, TypeOK, WorkerTypeOK
  <2>2. CASE snap'[i] = snap[i] /\ cur'[i] = cur[i] /\ pc'[i] = pc[i]
    BY <1>2, <2>2, Untouched DEF OrderInv
  <2>3. CASE snap'[i] = snap[i] /\ pc'[i] = "fail"
    BY <1>2, <2>3, Untouched DEF OrderInv, LoopInv
  <2>4. CASE snap'[i] = NoSnap /\ pc'[i] = "idle"
    BY <2>4 DEF SnapInv, LoopInv, NoSnap, Closed, Steps
  <2> QED
    BY <2>1, <2>2, <2>3, <2>4
<1>4. ASSUME NEW i \in Jobs
      PROVE  ServeInv(i)'
  <2>1. \/ handler'[i] = handler[i] /\ target'[i] = target[i]
        \/ handler'[i] = "idle"
    BY DEF Faulty, WorkerCrash, WorkerDies, ServerCrash, HandlersDie, LoseCall,
           HandlerThrows, QueryFails, SuccessThrows, QueryThrows, CreateThrows,
           ReviewThrows, ScanThrows, Answer, Receives, TypeOK, ExecTypeOK
  <2>2. CASE handler'[i] = "idle"
    BY <2>2 DEF ServeInv, StepOps
  <2> QED
    BY <1>2, <2>1, <2>2, Untouched DEF OrderInv
<1>5. StepOrder'
  BY <1>1, <1>2 DEF OrderInv, StepOrder, Grows
<1> QED
  BY <1>2, <1>3, <1>4, <1>5 DEF OrderInv

LEMMA NextOrder ==
  ASSUME TypeOK, StepsInRange, OrderInv, [Next]_vars
  PROVE  Grows /\ OrderInv'
<1> USE DEF vars, storeVars, taskVars, historyVars, execVars, workerVars
<1>1. ASSUME NEW j \in Jobs, Worker(j)
      PROVE  Grows /\ OrderInv'
  BY <1>1, WorkerOrder DEF Worker
<1>2. ASSUME NEW j \in Jobs, Server(j)
      PROVE  Grows /\ OrderInv'
  BY <1>2, ServerOrder DEF Server
<1>3. ASSUME UNCHANGED <<step, called, done, execVars, workerVars>>
      PROVE  Grows /\ OrderInv'
  BY <1>3 DEF Grows, OrderInv, StepsInv, SnapInv, LoopInv, ServeInv, Closed, StepOrder
<1>4. CASE Creator \/ Operator \/ Clock \/ UNCHANGED vars
  BY <1>3, <1>4 DEF Creator, EnqueueCreated, Operator, Patch, Clock, Elapse, Expire
<1>5. ASSUME NEW r \in Reviewers, Reviewer(r)
      PROVE  Grows /\ OrderInv'
  BY <1>3, <1>5
     DEF Reviewer, Review, OpenReview, Decide, LinkTask, ResumeTask,
         EnqueueResumed
<1>6. ASSUME NEW s \in Scans, Scanner(s)
      PROVE  Grows /\ OrderInv'
  BY <1>3, <1>6
     DEF Scanner, Scan, ScanTasks, TimeoutTask, ScanApprovals, MarkExpired,
         LinkExpired
<1>7. CASE Faulty
  BY <1>7, FaultOrder
<1> HIDE DEF vars
<1> QED
  BY <1>1, <1>2, <1>4, <1>5, <1>6, <1>7 DEF Next

\* A tool is invoked only when every earlier step has succeeded at least once,
\* whatever the jobs of the task, their snapshots, retries and crashes.
THEOREM StepsInOrder == Spec => []StepOrder
<1>1. Init => OrderInv
  BY StoreAssumption
     DEF Init, StoreInit, ExecInit, WorkerInit, OrderInv, StepsInv, SnapInv,
         LoopInv, ServeInv, Closed, StepOrder, NoSnap, StepOps, Steps
<1>2. TypeOK /\ StepsInRange /\ OrderInv /\ [Next]_vars => OrderInv'
  BY NextOrder
<1>3. OrderInv => StepOrder
  BY DEF OrderInv
<1> QED
  BY TypeCorrect, <1>1, <1>2, <1>3, PTL DEF Spec

(***************************************************************************)
(* Calls and answers.                                                      *)
(***************************************************************************)
LEMMA WorkerLeavesOthers ==
  ASSUME TypeOK, NEW j \in Jobs, ProcessJob(j), NEW i \in Jobs, i # j
  PROVE  /\ pc'[i] = pc[i] /\ cur'[i] = cur[i] /\ snap'[i] = snap[i]
         /\ handler'[i] = handler[i] /\ target'[i] = target[i]
         /\ reply'[i] = reply[i]
BY DEF ProcessJob, LoadTask, StartTask, CallPrepare, Prepared, SnapshotSteps,
       RunStep, ParkTask, StepSucceeds, StepFails, CompleteTask,
       CapabilityFails, CountFailure, WriteVerdict, Rethrow, Return, Leaves,
       Moves, Receives, Call, Advances, TypeOK, ExecTypeOK, WorkerTypeOK,
       execVars, workerVars

LEMMA WorkerCalls ==
  ASSUME TypeOK, StepsInRange, CallInv, NEW j \in Jobs, ProcessJob(j)
  PROVE  CallInv'
<1> USE DEF storeVars, taskVars, historyVars, execVars, StoreExceptTask, At, Moves
<1>1. UNCHANGED called
  BY DEF ProcessJob, LoadTask, StartTask, CallPrepare, Prepared, SnapshotSteps,
         RunStep, ParkTask, StepSucceeds, StepFails, CompleteTask,
         CapabilityFails, CountFailure, WriteVerdict, Rethrow, Return
<1>2. done' \subseteq called \cup Toolless
  BY DEF ProcessJob, LoadTask, StartTask, CallPrepare, Prepared, SnapshotSteps,
         RunStep, ParkTask, StepSucceeds, StepFails, CompleteTask,
         CapabilityFails, CountFailure, WriteVerdict, Rethrow, Return,
         Receives, CallInv, AnswerInv
<1>3. ASSUME NEW i \in Jobs, i # j
      PROVE  AwaitInv(i)' /\ AnswerInv(i)'
  BY <1>1, <1>3, WorkerLeavesOthers DEF CallInv, AwaitInv, AnswerInv
<1>4. AwaitInv(j)' /\ AnswerInv(j)'
  <2> USE DEF TypeOK, ExecTypeOK, WorkerTypeOK, CallInv, AwaitInv, AnswerInv
  <2>1. CASE LoadTask(j) \/ StartTask(j) \/ CapabilityFails(j) \/ CountFailure(j)
    BY <2>1 DEF LoadTask, StartTask, CapabilityFails, CountFailure, Receives
  <2>2. CASE CallPrepare(j)
    BY <2>2 DEF CallPrepare, Call
  <2>3. CASE Prepared(j)
    BY <2>3 DEF Prepared, Receives
  <2>4. CASE SnapshotSteps(j)
    BY <2>4 DEF SnapshotSteps, Call, Advances
  <2>5. CASE RunStep(j)
    BY <2>5 DEF RunStep, Call, StepOps
  <2>6. CASE ParkTask(j) \/ StepSucceeds(j) \/ StepFails(j)
    BY <2>6 DEF ParkTask, StepSucceeds, StepFails, Receives, Advances
  <2>7. CASE CompleteTask(j)
    BY <2>7 DEF CompleteTask, Receives
  <2>8. CASE WriteVerdict(j)
    BY <2>8 DEF WriteVerdict
  <2>9. CASE Rethrow(j) \/ Return(j)
    BY <2>9 DEF Rethrow, Return, Leaves
  <2> QED
    BY <2>1, <2>2, <2>3, <2>4, <2>5, <2>6, <2>7, <2>8, <2>9 DEF ProcessJob
<1> QED
  BY <1>1, <1>2, <1>3, <1>4 DEF CallInv

LEMMA ServerCalls ==
  ASSUME TypeOK, StepsInRange, OrderInv, CallInv, NEW j \in Jobs, ServeCall(j),
         UNCHANGED workerVars
  PROVE  CallInv'
<1> USE DEF storeVars, taskVars, historyVars, workerVars
<1>1. UNCHANGED done /\ called \subseteq called'
  BY DEF ServeCall, PrepareCount, MaterialiseStep, ReadStep, GuardApproved,
         GuardPending, CreateApproval, InvokeTool, RunCapability
<1>2. ASSUME NEW i \in Jobs, i # j
      PROVE  AwaitInv(i)' /\ AnswerInv(i)'
  <2>1. /\ handler'[i] = handler[i] /\ target'[i] = target[i]
        /\ reply'[i] = reply[i]
    BY <1>2
       DEF ServeCall, PrepareCount, MaterialiseStep, ReadStep, GuardApproved,
           GuardPending, CreateApproval, InvokeTool, RunCapability, Answer,
           Goto, TypeOK, ExecTypeOK
  <2> QED
    BY <1>1, <2>1 DEF CallInv, AwaitInv, AnswerInv
<1>3. AwaitInv(j)'
  BY DEF ServeCall, PrepareCount, MaterialiseStep, ReadStep, GuardApproved,
         GuardPending, CreateApproval, InvokeTool, RunCapability, Answer, Goto,
         StepOps, TypeOK, ExecTypeOK, CallInv, AwaitInv
<1>4. AnswerInv(j)'
  <2> USE DEF TypeOK, ExecTypeOK, AnswerInv, AwaitInv, CallInv, Answer, Goto
  <2>1. CASE reply'[j] # "ok" \/ UNCHANGED reply
    BY <1>1, <2>1
  <2>2. CASE PrepareCount(j) \/ MaterialiseStep(j) \/ RunCapability(j)
    BY <1>1, <2>2 DEF PrepareCount, MaterialiseStep, RunCapability, StepOps
  <2>3. CASE ReadStep(j)
    <3>1. CASE step[target[j]] = "completed" \/ target[j] \in Toolless
      BY <1>1, <2>3, <3>1
         DEF ReadStep, OrderInv, StepsInv, StepsInRange, StepOps
    <3>2. CASE ~(step[target[j]] = "completed" \/ target[j] \in Toolless)
      BY <2>1, <2>3, <3>2 DEF ReadStep
    <3> QED
      BY <3>1, <3>2
  <2>4. CASE InvokeTool(j)
    BY <2>4 DEF InvokeTool
  <2>5. CASE GuardApproved(j) \/ GuardPending(j) \/ CreateApproval(j)
    BY <2>1, <2>5 DEF GuardApproved, GuardPending, CreateApproval
  <2> QED
    BY <2>2, <2>3, <2>4, <2>5 DEF ServeCall
<1> QED
  BY <1>1, <1>2, <1>3, <1>4 DEF CallInv

LEMMA FaultCalls ==
  ASSUME TypeOK, StepsInRange, CallInv, Faulty
  PROVE  CallInv'
<1> USE DEF storeVars, taskVars, historyVars, execVars, workerVars, TypeOK,
            ExecTypeOK, WorkerTypeOK
<1>1. UNCHANGED called
  BY DEF Faulty, WorkerCrash, WorkerDies, ServerCrash, LoseCall, HandlerThrows,
         QueryFails, SuccessThrows, QueryThrows, CreateThrows, ReviewThrows,
         ScanThrows
<1>2. CASE WorkerCrash \/ ServerCrash
  BY <1>2
     DEF WorkerCrash, WorkerDies, ServerCrash, HandlersDie, CallInv, AwaitInv,
         AnswerInv
<1>3. ASSUME NEW j \in Jobs, LoseCall(j) \/ HandlerThrows(j),
             UNCHANGED workerVars
      PROVE  CallInv'
  BY <1>1, <1>3
     DEF LoseCall, HandlerThrows, Answer, CallInv, AwaitInv, AnswerInv
<1>4. ASSUME NEW j \in Jobs, QueryFails(j)
      PROVE  CallInv'
  BY <1>4 DEF QueryFails, Moves, CallInv, AwaitInv, AnswerInv
<1>5. ASSUME NEW j \in Jobs, SuccessThrows(j)
      PROVE  CallInv'
  BY <1>5 DEF SuccessThrows, Receives, Moves, At, CallInv, AwaitInv, AnswerInv
<1>6. ASSUME NEW j \in Jobs, QueryThrows(j)
      PROVE  CallInv'
  BY <1>6 DEF QueryThrows, Leaves, Moves, CallInv, AwaitInv, AnswerInv
<1>7. ASSUME UNCHANGED <<called, done, execVars, workerVars>>
      PROVE  CallInv'
  BY <1>7 DEF CallInv, AwaitInv, AnswerInv
<1> QED
  BY <1>2, <1>3, <1>4, <1>5, <1>6, <1>7
     DEF Faulty, CreateThrows, ReviewThrows, ScanThrows

LEMMA NextCall ==
  ASSUME TypeOK, StepsInRange, OrderInv, CallInv, [Next]_vars
  PROVE  CallInv'
<1> USE DEF vars, storeVars, taskVars, historyVars, execVars, workerVars
<1>1. ASSUME UNCHANGED <<called, done, execVars, workerVars>>
      PROVE  CallInv'
  BY <1>1 DEF CallInv, AwaitInv, AnswerInv
<1>2. ASSUME NEW j \in Jobs, Worker(j) \/ Server(j)
      PROVE  CallInv'
  BY <1>2, WorkerCalls, ServerCalls DEF Worker, Server
<1>3. CASE Faulty
  BY <1>3, FaultCalls
<1>4. CASE Creator \/ Operator \/ Clock \/ UNCHANGED vars
  BY <1>1, <1>4 DEF Creator, EnqueueCreated, Operator, Patch, Clock, Elapse, Expire
<1>5. ASSUME NEW r \in Reviewers, Reviewer(r)
      PROVE  CallInv'
  BY <1>1, <1>5
     DEF Reviewer, Review, OpenReview, Decide, LinkTask, ResumeTask,
         EnqueueResumed
<1>6. ASSUME NEW s \in Scans, Scanner(s)
      PROVE  CallInv'
  BY <1>1, <1>6
     DEF Scanner, Scan, ScanTasks, TimeoutTask, ScanApprovals, MarkExpired,
         LinkExpired
<1> HIDE DEF vars
<1> QED
  BY <1>2, <1>3, <1>4, <1>5, <1>6 DEF Next

(***************************************************************************)
(* The steps are fixed before anything is executed.                        *)
(***************************************************************************)
LEMMA WorkerFixed ==
  ASSUME TypeOK, StepsInRange, Grows, FixedInv, NEW j \in Jobs, ProcessJob(j),
         UNCHANGED reviewVars
  PROVE  FixedInv'
<1> USE DEF storeVars, taskVars, historyVars, execVars, queueVars, reviewVars,
            StoreExceptTask, At, Moves
<1>1. UNCHANGED approval /\ NoReview' = NoReview
  BY DEF ProcessJob, LoadTask, StartTask, CallPrepare, Prepared, SnapshotSteps,
         RunStep, ParkTask, StepSucceeds, StepFails, CompleteTask,
         CapabilityFails, CountFailure, WriteVerdict, Rethrow, Return, NoReview
<1>2. jobState[j] # "free" /\ ~creating
  BY DEF ProcessJob, LoadTask, StartTask, CallPrepare, Prepared, SnapshotSteps,
         RunStep, ParkTask, StepSucceeds, StepFails, CompleteTask,
         CapabilityFails, CountFailure, WriteVerdict, Rethrow, Return, FixedInv
<1>3. \A i \in Jobs : jobState'[i] = "free" <=> jobState[i] = "free"
  BY <1>2
     DEF ProcessJob, LoadTask, StartTask, CallPrepare, Prepared, SnapshotSteps,
         RunStep, ParkTask, StepSucceeds, StepFails, CompleteTask,
         CapabilityFails, CountFailure, WriteVerdict, Rethrow, Return, PickUp,
         JobReturns, JobThrows, TypeOK, QueueTypeOK
<1>4. \A i \in Jobs : handler'[i] = "materialise" <=> handler[i] = "materialise"
  BY DEF ProcessJob, LoadTask, StartTask, CallPrepare, Prepared, SnapshotSteps,
         RunStep, ParkTask, StepSucceeds, StepFails, CompleteTask,
         CapabilityFails, CountFailure, WriteVerdict, Rethrow, Return, Receives,
         Call, TypeOK, ExecTypeOK
<1>5. Fixed => Fixed'
  BY <1>4 DEF Fixed, Grows, Materialised
<1>6. ASSUME ~Fixed
      PROVE  /\ \A i \in Jobs : EarlyInv(i)'
             /\ status' # "completed"
             /\ done' = {}
  <2>1. EarlyInv(j) /\ status # "completed" /\ done = {}
    BY <1>6 DEF FixedInv
  <2>2. EarlyInv(j)' /\ status' # "completed" /\ done' = {}
    BY <2>1
       DEF ProcessJob, LoadTask, StartTask, CallPrepare, Prepared,
           SnapshotSteps, RunStep, ParkTask, StepSucceeds, StepFails,
           CompleteTask, CapabilityFails, CountFailure, WriteVerdict, Rethrow,
           Return, Leaves, Receives, Call, UpdateTaskStatus, StepOps, EarlyInv,
           TypeOK, ExecTypeOK, WorkerTypeOK
  <2>3. ASSUME NEW i \in Jobs, i # j
        PROVE  EarlyInv(i)'
    BY <1>6, <2>3, WorkerLeavesOthers DEF FixedInv, EarlyInv
  <2> QED
    BY <2>2, <2>3
<1>7. ASSUME NEW i \in Jobs, i # j
      PROVE  pc'[i] # "idle" \/ handler'[i] # "idle" => jobState'[i] # "free"
  BY <1>3, <1>7, WorkerLeavesOthers DEF FixedInv
<1> QED
  BY <1>1, <1>2, <1>3, <1>5, <1>6, <1>7 DEF FixedInv

LEMMA ServerFixed ==
  ASSUME TypeOK, StepsInRange, Grows, FixedInv, NEW j \in Jobs, ServeCall(j),
         UNCHANGED <<workerVars, reviewVars>>
  PROVE  FixedInv'
<1> USE DEF storeVars, taskVars, historyVars, workerVars, reviewVars, queueVars,
            Answer, Goto
<1>1. handler[j] # "idle" /\ UNCHANGED <<status, done, jobState>>
  BY DEF ServeCall, PrepareCount, MaterialiseStep, ReadStep, GuardApproved,
         GuardPending, CreateApproval, InvokeTool, RunCapability
<1>2. jobState[j] # "free" /\ ~creating
  BY <1>1 DEF FixedInv
<1>3. ASSUME NEW i \in Jobs, i # j
      PROVE  /\ handler'[i] = handler[i] /\ target'[i] = target[i]
             /\ reply'[i] = reply[i]
  BY <1>3
     DEF ServeCall, PrepareCount, MaterialiseStep, ReadStep, GuardApproved,
         GuardPending, CreateApproval, InvokeTool, RunCapability, TypeOK,
         ExecTypeOK
<1>4. Fixed => Fixed'
  <2>1. Materialised # {} => Materialised' # {}
    BY DEF Grows, Materialised
  <2>2. Fixed => handler'[j] # "materialise"
    BY DEF ServeCall, PrepareCount, MaterialiseStep, ReadStep, GuardApproved,
           GuardPending, CreateApproval, InvokeTool, RunCapability, Fixed,
           TypeOK, ExecTypeOK
  <2> QED
    BY <1>3, <2>1, <2>2 DEF Fixed
<1>5. ASSUME ~Fixed, ~Fixed'
      PROVE  NoReview' /\ \A i \in Jobs : EarlyInv(i)'
  <2>1. handler[j] \in {"count", "materialise"}
    BY <1>1, <1>5
       DEF FixedInv, EarlyInv, StepOps, TypeOK, ExecTypeOK, HandlerPc
  <2>2. NoReview'
    BY <1>5, <2>1
       DEF ServeCall, PrepareCount, MaterialiseStep, ReadStep, GuardApproved,
           GuardPending, CreateApproval, InvokeTool, RunCapability, FixedInv,
           NoReview
  <2>3. \A i \in Jobs : i # j => handler'[i] # "materialise"
    BY <1>2, <1>3, <1>5 DEF FixedInv
  <2>4. EarlyInv(j)'
    <3>1. handler'[j] \notin StepOps \cup {"capability"}
      BY <2>1
         DEF ServeCall, PrepareCount, MaterialiseStep, ReadStep, GuardApproved,
             GuardPending, CreateApproval, InvokeTool, RunCapability, StepOps,
             TypeOK, ExecTypeOK
    <3>2. CASE PrepareCount(j)
      <4>1. CASE NSteps = 0 \/ Materialised # {}
        <5>1. Fixed \/ handler[j] = "materialise"
          BY <1>3, <2>3, <4>1 DEF Fixed
        <5> QED
          BY <1>5, <3>2, <5>1 DEF PrepareCount
      <4>2. CASE ~(NSteps = 0 \/ Materialised # {})
        BY <1>5, <3>1, <3>2, <4>2
           DEF PrepareCount, FixedInv, EarlyInv, TypeOK, ExecTypeOK
      <4> QED
        BY <4>1, <4>2
    <3>3. CASE MaterialiseStep(j)
      <4>1. Materialised' # {}
        BY <3>3 DEF MaterialiseStep, Materialised, TypeOK, StoreTypeOK
      <4>2. handler'[j] = "materialise"
        BY <1>5, <2>3, <4>1 DEF Fixed
      <4>3. UNCHANGED reply
        BY <3>3, <4>2 DEF MaterialiseStep, TypeOK, ExecTypeOK
      <4> QED
        BY <1>5, <3>1, <4>3 DEF FixedInv, EarlyInv
    <3> QED
      BY <2>1, <3>2, <3>3
         DEF ServeCall, ReadStep, GuardApproved, GuardPending, CreateApproval,
             InvokeTool, RunCapability
  <2> QED
    BY <1>3, <1>5, <2>2, <2>4 DEF FixedInv, EarlyInv
<1> QED
  BY <1>1, <1>2, <1>3, <1>4, <1>5 DEF FixedInv

\* Requests, scans, operators and time leave the calls and attempts alone.
LEMMA RestFixed ==
  ASSUME TypeOK, FixedInv, UNCHANGED <<step, done, execVars, workerVars>>,
         "completed" \notin PatchTo,
         \/ Creator \/ Operator \/ Clock \/ UNCHANGED vars
         \/ \E r \in Reviewers : Reviewer(r)
         \/ \E s \in Scans : Scanner(s)
  PROVE  FixedInv'
<1> USE DEF vars, storeVars, taskVars, historyVars, execVars, queueVars,
            workerVars, reviewVars
<1>1. /\ Fixed' = Fixed
      /\ \A i \in Jobs : EarlyInv(i)' = EarlyInv(i)
  BY DEF Fixed, Materialised, EarlyInv
<1>2. ASSUME NEW r \in Reviewers, Reviewer(r)
      PROVE  FixedInv'
  <2>1. ~NoReview
    BY <1>2
       DEF Reviewer, Review, OpenReview, Decide, LinkTask, ResumeTask,
           EnqueueResumed, NoReview
  <2>2. Fixed /\ ~creating
    BY <2>1 DEF FixedInv
  <2>3. ~creating'
    BY <1>2, <2>2
       DEF Reviewer, Review, OpenReview, Decide, LinkTask, ResumeTask,
           EnqueueResumed
  <2>4. \A i \in Jobs : jobState[i] # "free" => jobState'[i] # "free"
    BY <1>2
       DEF Reviewer, Review, OpenReview, Decide, LinkTask, ResumeTask,
           EnqueueResumed, Enqueue, AddJob, TypeOK, QueueTypeOK
  <2> QED
    BY <1>1, <2>2, <2>3, <2>4 DEF FixedInv
<1>3. CASE Creator
  <2>1. PICK j \in Jobs : AddJob(j)
    BY <1>3 DEF Creator, EnqueueCreated, Enqueue
  <2>2. /\ \A i \in Jobs : jobState[i] = "free"
        /\ ~creating' /\ NoReview' = NoReview /\ UNCHANGED status
    BY <1>3 DEF Creator, EnqueueCreated, FixedInv, NoReview
  <2> QED
    BY <1>1, <2>1, <2>2 DEF FixedInv, AddJob, TypeOK, QueueTypeOK
<1>4. ASSUME NEW s \in Scans, Scanner(s)
      PROVE  FixedInv'
  <2>1. NoReview => NoReview'
    BY <1>4
       DEF Scanner, Scan, ScanTasks, TimeoutTask, ScanApprovals, MarkExpired,
           LinkExpired, Overdue, NoReview
  <2>2. UNCHANGED status \/ status' \in {"timeout", "failed"}
    BY <1>4
       DEF Scanner, Scan, ScanTasks, TimeoutTask, ScanApprovals, MarkExpired,
           LinkExpired
  <2>3. UNCHANGED <<jobState, creating>>
    BY <1>4 DEF Scanner
  <2> QED
    BY <1>1, <2>1, <2>2, <2>3 DEF FixedInv
<1>5. CASE Operator \/ Clock \/ UNCHANGED vars
  <2>1. UNCHANGED <<approval, jobState, creating, review>>
    BY <1>5 DEF Operator, Patch, Clock, Elapse, Expire
  <2>2. UNCHANGED status \/ status' # "completed"
    BY <1>5 DEF Operator, Patch, Clock, Elapse, Expire
  <2> QED
    BY <1>1, <2>1, <2>2 DEF FixedInv, NoReview
<1> HIDE DEF vars
<1> QED
  BY <1>2, <1>3, <1>4, <1>5

LEMMA FaultFixed ==
  ASSUME TypeOK, StepsInRange, Grows, FixedInv, Faulty
  PROVE  FixedInv'
<1> USE DEF storeVars, taskVars, historyVars, execVars, queueVars, workerVars,
            reviewVars, TypeOK, ExecTypeOK, WorkerTypeOK, QueueTypeOK
<1>1. UNCHANGED status
  BY DEF Faulty, WorkerCrash, WorkerDies, ServerCrash, LoseCall, HandlerThrows,
         QueryFails, SuccessThrows, QueryThrows, CreateThrows, ReviewThrows,
         ScanThrows
<1>2. Fixed => Fixed'
  <2>1. Materialised # {} => Materialised' # {}
    BY DEF Grows, Materialised
  <2>2. \A i \in Jobs : handler'[i] = handler[i] \/ handler'[i] = "idle"
    BY DEF Faulty, WorkerCrash, WorkerDies, ServerCrash, HandlersDie, LoseCall,
           HandlerThrows, QueryFails, SuccessThrows, QueryThrows, CreateThrows,
           ReviewThrows, ScanThrows, Answer, Receives
  <2> QED
    BY <2>1, <2>2 DEF Fixed
<1>3. CASE WorkerCrash
  <2>1. /\ UNCHANGED <<handler, done>> /\ NoReview' = NoReview
        /\ UNCHANGED creating
        /\ \A i \in Jobs : pc'[i] = "idle"
        /\ \A i \in Jobs : jobState'[i] = "free" <=> jobState[i] = "free"
    BY <1>3 DEF WorkerCrash, WorkerDies, JobsStall, NoReview
  <2> QED
    BY <1>1, <1>2, <2>1 DEF FixedInv, EarlyInv
<1>4. CASE ServerCrash
  <2>1. /\ UNCHANGED <<approval, done, jobState, pc>> /\ ~creating'
        /\ \A i \in Jobs : handler'[i] = "idle"
        /\ \A r \in Reviewers : review'[r] = "idle"
        /\ \A i \in Jobs : reply'[i] = "ok" => reply[i] = "ok"
    BY <1>4 DEF ServerCrash, HandlersDie, RequestsDie
  <2> QED
    BY <1>1, <1>2, <2>1 DEF FixedInv, EarlyInv, NoReview, StepOps
<1>5. ASSUME NEW j \in Jobs, LoseCall(j) \/ HandlerThrows(j),
             UNCHANGED <<workerVars, reviewVars>>
      PROVE  FixedInv'
  <2>1. UNCHANGED <<done, jobState, pc, review, creating>>
    BY <1>5 DEF LoseCall, HandlerThrows
  <2>2. \A i \in Jobs :
          /\ handler'[i] = handler[i] \/ handler'[i] = "idle"
          /\ reply'[i] = "ok" => reply[i] = "ok"
    BY <1>5 DEF LoseCall, HandlerThrows, Answer
  <2>3. UNCHANGED approval \/ handler[j] = "create"
    BY <1>5 DEF LoseCall, HandlerThrows
  <2>4. handler[j] = "create" => Fixed /\ ~creating
    BY DEF FixedInv, EarlyInv, StepOps
  <2> QED
    BY <1>1, <1>2, <2>1, <2>2, <2>3, <2>4
       DEF FixedInv, EarlyInv, NoReview, StepOps
<1>6. ASSUME NEW j \in Jobs, QueryFails(j) \/ SuccessThrows(j) \/ QueryThrows(j),
             UNCHANGED reviewVars
      PROVE  FixedInv'
  <2>1. UNCHANGED handler /\ NoReview' = NoReview
    BY <1>6 DEF QueryFails, SuccessThrows, QueryThrows, Receives, NoReview
  <2>2. \A i \in Jobs :
          /\ i # j => pc'[i] = pc[i] /\ reply'[i] = reply[i]
          /\ jobState'[i] = "free" => jobState[i] = "free" /\ i # j
          /\ jobState[i] = "free" => jobState'[i] = "free"
    BY <1>6
       DEF QueryFails, SuccessThrows, QueryThrows, Receives, Moves, Leaves, At,
           JobThrows, FixedInv
  <2>3. ~Fixed => UNCHANGED done /\ pc'[j] = "idle"
    BY <1>6
       DEF QueryFails, SuccessThrows, QueryThrows, Leaves, Moves, At, FixedInv,
           EarlyInv
  <2>4. \A i \in Jobs :
          pc'[i] # "idle" \/ handler'[i] # "idle" => jobState'[i] # "free"
    BY <2>1, <2>2 DEF FixedInv
  <2>5. ~Fixed => \A i \in Jobs : EarlyInv(i)'
    BY <2>1, <2>2, <2>3 DEF FixedInv, EarlyInv
  <2> QED
    BY <1>1, <1>2, <1>6, <2>1, <2>2, <2>3, <2>4, <2>5 DEF FixedInv
<1>7. ASSUME CreateThrows \/ \E r \in Reviewers : ReviewThrows(r),
             UNCHANGED <<execVars, workerVars>>
      PROVE  FixedInv'
  <2>1. UNCHANGED <<approval, done, jobState>>
    BY <1>7 DEF CreateThrows, ReviewThrows
  <2>2. NoReview => NoReview' /\ ~creating'
    BY <1>7 DEF CreateThrows, ReviewThrows, NoReview
  <2>3. ~NoReview => Fixed /\ ~creating /\ ~creating'
    BY <1>7 DEF CreateThrows, ReviewThrows, FixedInv
  <2> QED
    BY <1>1, <1>2, <1>7, <2>1, <2>2, <2>3 DEF FixedInv, EarlyInv
<1>8. ASSUME NEW s \in Scans, ScanThrows(s),
             UNCHANGED <<queueVars, execVars, workerVars, reviewVars>>
      PROVE  FixedInv'
  BY <1>1, <1>2, <1>8 DEF ScanThrows, FixedInv, EarlyInv, NoReview
<1> QED
  BY <1>3, <1>4, <1>5, <1>6, <1>7, <1>8 DEF Faulty

LEMMA NextFixed ==
  ASSUME TypeOK, StepsInRange, OrderInv, FixedInv, "completed" \notin PatchTo,
         [Next]_vars
  PROVE  FixedInv'
<1>1. Grows
  BY NextOrder
<1>2. ASSUME NEW j \in Jobs, Worker(j) \/ Server(j)
      PROVE  FixedInv'
  BY <1>1, <1>2, WorkerFixed, ServerFixed DEF Worker, Server, reviewVars
<1>3. CASE Faulty
  BY <1>1, <1>3, FaultFixed
<1>4. CASE \/ Creator \/ Operator \/ Clock \/ UNCHANGED vars
           \/ \E r \in Reviewers : Reviewer(r)
           \/ \E s \in Scans : Scanner(s)
  <2>1. UNCHANGED <<step, done, execVars, workerVars>>
    BY <1>4
       DEF Creator, EnqueueCreated, Operator, Patch, Clock, Elapse, Expire,
           Reviewer, Review, OpenReview, Decide, LinkTask, ResumeTask,
           EnqueueResumed, Scanner, Scan, ScanTasks, TimeoutTask,
           ScanApprovals, MarkExpired, LinkExpired, vars, storeVars,
           historyVars, execVars, workerVars
  <2> QED
    BY <1>4, <2>1, RestFixed
<1> QED
  BY <1>2, <1>3, <1>4 DEF Next

(***************************************************************************)
(* A completed task has succeeded in every step.                           *)
(***************************************************************************)
\* Only the worker completes a task, unless an operator may.
LEMMA OnlyCompleteTask ==
  ASSUME "completed" \notin PatchTo, TypeOK, [Next]_vars, status' = "completed"
  PROVE  UNCHANGED status \/ \E j \in Jobs : CompleteTask(j)
<1> USE DEF vars, storeVars, taskVars, historyVars
<1>1. ASSUME NEW j \in Jobs, Worker(j)
      PROVE  UNCHANGED status \/ CompleteTask(j)
  BY <1>1
     DEF Worker, ProcessJob, LoadTask, StartTask, CallPrepare, Prepared,
         SnapshotSteps, RunStep, ParkTask, StepSucceeds, StepFails,
         CapabilityFails, CountFailure, WriteVerdict, Rethrow, Return,
         UpdateTaskStatus, TypeOK, WorkerTypeOK
<1>2. ASSUME NEW j \in Jobs, Server(j)
      PROVE  UNCHANGED status
  BY <1>2
     DEF Server, ServeCall, PrepareCount, MaterialiseStep, ReadStep,
         GuardApproved, GuardPending, CreateApproval, InvokeTool, RunCapability
<1>3. ASSUME NEW r \in Reviewers, Reviewer(r)
      PROVE  UNCHANGED status
  BY <1>3
     DEF Reviewer, Review, OpenReview, Decide, LinkTask, ResumeTask,
         EnqueueResumed
<1>4. ASSUME NEW s \in Scans, Scanner(s)
      PROVE  UNCHANGED status
  BY <1>4
     DEF Scanner, Scan, ScanTasks, TimeoutTask, ScanApprovals, MarkExpired,
         LinkExpired
<1>5. CASE Creator \/ Operator \/ Clock \/ UNCHANGED vars
  BY <1>5 DEF Creator, EnqueueCreated, Operator, Patch, Clock, Elapse, Expire
<1>6. CASE Faulty
  BY <1>6
     DEF Faulty, WorkerCrash, WorkerDies, ServerCrash, LoseCall, HandlerThrows,
         QueryFails, SuccessThrows, QueryThrows, CreateThrows, ReviewThrows,
         ScanThrows
<1> HIDE DEF vars
<1> QED
  BY <1>1, <1>2, <1>3, <1>4, <1>5, <1>6 DEF Next

\* An attempt is in its loop with a snapshot it took in the loop.
LEMMA LoopEntered ==
  ASSUME TypeOK, [Next]_vars, NEW j \in Jobs
  PROVE  /\ pc'[j] \in {"steps", "stepping"} =>
              \/ pc[j] \in {"steps", "stepping"} /\ snap'[j] = snap[j]
              \/ UNCHANGED step /\ snap'[j] = step
         /\ pc'[j] = "running" =>
              \/ pc[j] = "running"
              \/ pc[j] = "snapshot" /\ Materialised = {}
<1> USE DEF vars, storeVars, workerVars, TypeOK, WorkerTypeOK
<1>1. ASSUME NEW i \in Jobs, Worker(i)
      PROVE  /\ pc'[j] \in {"steps", "stepping"} =>
                  \/ pc[j] \in {"steps", "stepping"} /\ snap'[j] = snap[j]
                  \/ UNCHANGED step /\ snap'[j] = step
             /\ pc'[j] = "running" =>
                  \/ pc[j] = "running"
                  \/ pc[j] = "snapshot" /\ Materialised = {}
  BY <1>1
     DEF Worker, ProcessJob, LoadTask, StartTask, CallPrepare, Prepared,
         SnapshotSteps, RunStep, ParkTask, StepSucceeds, StepFails, CompleteTask,
         CapabilityFails, CountFailure, WriteVerdict, Rethrow, Return, Leaves,
         Moves, At
<1>2. CASE Faulty
  BY <1>2
     DEF Faulty, WorkerCrash, WorkerDies, ServerCrash, LoseCall, HandlerThrows,
         QueryFails, SuccessThrows, QueryThrows, CreateThrows, ReviewThrows,
         ScanThrows, Moves, Leaves
<1>3. CASE UNCHANGED <<pc, snap>>
  BY <1>3
<1> QED
  BY <1>1, <1>2, <1>3
     DEF Next, Server, Creator, Reviewer, Scanner, Operator, Clock

LEMMA NextCover ==
  ASSUME TypeOK, StepsInRange, OrderInv, FixedInv, CoverInv,
         "completed" \notin PatchTo, [Next]_vars
  PROVE  CoverInv'
<1>1. Grows
  BY NextOrder
<1>2. ASSUME NEW i \in Jobs, MaterialiseStep(i)
      PROVE  ~Fixed
  BY <1>2 DEF MaterialiseStep, Fixed
<1>3. Fixed => \A k \in Steps : step'[k] # "absent" => step[k] # "absent"
  BY <1>1, <1>2 DEF Grows
<1>4. ASSUME NEW j \in Jobs, pc'[j] \in {"steps", "stepping"},
             NEW k \in Steps, step'[k] # "absent"
      PROVE  snap'[j][k] # "absent"
  <2>1. CASE pc[j] \in {"steps", "stepping"} /\ snap'[j] = snap[j]
    BY <1>3, <1>4, <2>1 DEF CoverInv, FixedInv, EarlyInv
  <2>2. CASE UNCHANGED step /\ snap'[j] = step
    BY <1>4, <2>2
  <2> QED
    BY <1>4, <2>1, <2>2, LoopEntered
<1>5. ASSUME NEW j \in Jobs, pc'[j] = "running"
      PROVE  NSteps = 0
  BY <1>5, LoopEntered, StoreAssumption
     DEF CoverInv, FixedInv, EarlyInv, Fixed
<1>6. ASSUME status' = "completed"
      PROVE  Materialised' \subseteq done'
  <2>1. CASE UNCHANGED status
    BY <1>1, <1>3, <1>6, <2>1
       DEF CoverInv, CompletedCoversSteps, FixedInv, Materialised, Grows
  <2>2. ASSUME NEW j \in Jobs, CompleteTask(j)
        PROVE  Materialised' \subseteq done'
    <3>1. UNCHANGED <<step, done>>
      BY <2>2 DEF CompleteTask, StoreExceptTask, historyVars
    <3>2. CASE pc[j] = "steps"
      <4>1. cur[j] = NSteps + 1
        BY <2>2, <3>2 DEF CompleteTask, At
      <4>2. \A k \in Materialised : k < cur[j] /\ snap[j][k] # "absent"
        BY <3>2, <4>1, StoreAssumption DEF CoverInv, Materialised, Steps
      <4> QED
        BY <3>1, <3>2, <4>2 DEF OrderInv, LoopInv, Materialised
    <3>3. CASE pc[j] = "running"
      BY <3>3 DEF CoverInv, Materialised, Steps
    <3> QED
      BY <2>2, <3>2, <3>3 DEF CompleteTask, At
  <2> QED
    BY <1>6, <2>1, <2>2, OnlyCompleteTask
<1> QED
  BY <1>4, <1>5, <1>6 DEF CoverInv, CompletedCoversSteps

\* The invariants that the completion of a task rests on.
PipelineInv ==
    TypeOK /\ StepsInRange /\ GuardInv /\ OrderInv /\ CallInv /\ FixedInv /\ CoverInv

LEMMA PipelineInvariant ==
  ASSUME "completed" \notin PatchTo
  PROVE  Spec => []PipelineInv
<1>1. Init => PipelineInv
  <2> SUFFICES ASSUME Init PROVE PipelineInv
    OBVIOUS
  <2> USE StoreAssumption
      DEF Init, StoreInit, QueueInit, ExecInit, WorkerInit, ReviewInit, ScanInit
  <2>1. TypeOK /\ StepsInRange
    BY InitType DEF StepsInRange, StepOps
  <2>2. GuardInv /\ CallInv
    BY DEF GuardInv, GuardedCalls, CallInv, AwaitInv, AnswerInv
  <2>3. OrderInv
    BY DEF OrderInv, StepsInv, SnapInv, LoopInv, ServeInv, Closed, StepOrder,
           NoSnap, StepOps, Steps
  <2>4. FixedInv
    BY DEF FixedInv, EarlyInv, NoReview, StepOps
  <2>5. CoverInv
    BY DEF CoverInv, CompletedCoversSteps
  <2> QED
    BY <2>1, <2>2, <2>3, <2>4, <2>5 DEF PipelineInv
<1>2. PipelineInv /\ [Next]_vars => PipelineInv'
  BY NextType, NextStepsInRange, NextGuard, NextOrder, NextCall, NextFixed,
     NextCover
     DEF PipelineInv
<1> QED
  BY <1>1, <1>2, PTL DEF Spec

\* Unless an operator sets it so, a task is recorded completed only when every
\* step materialised for it has succeeded: the snapshot an attempt works on is
\* never missing a step (prepareTask ends before taskStep.findMany).
THEOREM CompletionCoversSteps ==
  ASSUME "completed" \notin PatchTo
  PROVE  Spec => []CompletedCoversSteps
<1>1. PipelineInv => CompletedCoversSteps
  BY DEF PipelineInv, CoverInv
<1> QED
  BY <1>1, PipelineInvariant, PTL

(***************************************************************************)
(* Refinement.                                                             *)
(***************************************************************************)
\* A step that changes at most the status completes the workflow, revokes its
\* completion, or is none of its business.
LEMMA StatusRefines ==
  ASSUME CoverInv', UNCHANGED <<called, done, granted>>,
         Materialised' = Materialised
  PROVE  Workflow!Next \/ UNCHANGED Workflow!vars
<1>1. CASE status' = "completed"
  BY <1>1
     DEF CoverInv, CompletedCoversSteps, Workflow!Next, Workflow!Complete
<1>2. CASE status' # "completed"
  BY <1>2 DEF Workflow!Next, Workflow!Revoke
<1> QED
  BY <1>1, <1>2

LEMMA MaterialiseRefines ==
  ASSUME PipelineInv, NEW j \in Jobs, MaterialiseStep(j)
  PROVE  Workflow!Next
<1>1. PICK k \in Steps :
        Materialised = 1..(k - 1) /\ step' = [step EXCEPT ![k] = "pending"]
  BY DEF MaterialiseStep
<1>2. done = {}
  BY DEF PipelineInv, FixedInv, Fixed, MaterialiseStep
<1>3. Materialised' = Materialised \cup {k}
  BY <1>1 DEF Materialised, PipelineInv, TypeOK, StoreTypeOK
<1>4. UNCHANGED <<called, done, granted, status>>
  BY DEF MaterialiseStep, taskVars, historyVars
<1>5. Workflow!Create(k)
  BY <1>1, <1>2, <1>3, <1>4 DEF Workflow!Create, Workflow!Before
<1> QED
  BY <1>5 DEF Workflow!Next, Workflow!Steps, Steps

LEMMA InvokeRefines ==
  ASSUME PipelineInv, NEW j \in Jobs, InvokeTool(j)
  PROVE  Workflow!Next
<1>1. target[j] \in Steps
  BY DEF InvokeTool, PipelineInv, StepsInRange, StepOps
<1>2. step[target[j]] # "absent" /\ 1..(target[j] - 1) \subseteq done
  BY DEF InvokeTool, PipelineInv, OrderInv, ServeInv, StepOps
<1>3. target[j] \in Confirm => granted # {}
  BY DEF InvokeTool, PipelineInv, GuardInv
<1>4. /\ called' = called \cup {target[j]}
      /\ UNCHANGED <<step, done, granted, status>>
  BY DEF InvokeTool, taskVars
<1>5. Workflow!Invoke(target[j])
  BY <1>1, <1>2, <1>3, <1>4
     DEF Workflow!Invoke, Workflow!Before, Materialised
<1> QED
  BY <1>1, <1>5 DEF Workflow!Next, Workflow!Steps, Steps

LEMMA RecordRefines ==
  ASSUME PipelineInv, Grows, Materialised' = Materialised,
         NEW j \in Jobs, pc[j] = "stepping", reply[j] = "ok",
         done' = done \cup {cur[j]}, UNCHANGED <<called, granted, status>>
  PROVE  Workflow!Next
<1>1. cur[j] \in Steps
  BY DEF PipelineInv, StepsInRange
<1>2. 1..(cur[j] - 1) \subseteq done
  BY <1>1, Reached DEF PipelineInv, OrderInv
<1>3. cur[j] \in called \cup Toolless
  BY DEF PipelineInv, CallInv, AnswerInv
<1>4. Workflow!Record(cur[j])
  BY <1>2, <1>3 DEF Workflow!Record, Workflow!Before
<1> QED
  BY <1>1, <1>4 DEF Workflow!Next, Workflow!Steps, Steps

LEMMA NextRefines ==
  ASSUME PipelineInv, PipelineInv', [Next]_vars
  PROVE  Workflow!Next \/ UNCHANGED Workflow!vars
<1> USE DEF vars, storeVars, taskVars, historyVars, StoreExceptTask
<1>1. Grows
  BY NextOrder DEF PipelineInv
<1>2. CASE \E j \in Jobs : MaterialiseStep(j)
  BY <1>2, MaterialiseRefines
<1>3. CASE ~\E j \in Jobs : MaterialiseStep(j)
  <2>1. Materialised' = Materialised
    BY <1>1, <1>3 DEF Grows, Materialised
  <2>2. CASE UNCHANGED <<called, done, granted>>
    BY <2>1, <2>2, StatusRefines DEF PipelineInv
  <2>3. ASSUME NEW j \in Jobs, InvokeTool(j)
        PROVE  Workflow!Next
    BY <2>3, InvokeRefines
  <2>4. ASSUME NEW j \in Jobs, StepSucceeds(j) \/ SuccessThrows(j)
        PROVE  Workflow!Next \/ UNCHANGED <<called, done, granted>>
    BY <1>1, <2>1, <2>4, RecordRefines
       DEF StepSucceeds, SuccessThrows, Receives, At
  <2>5. ASSUME NEW r \in Reviewers, Decide(r)
        PROVE  Workflow!Next \/ UNCHANGED <<called, done, granted>>
    <3>1. UNCHANGED <<called, done, status>> /\ granted \subseteq granted'
      BY <2>5 DEF Decide
    <3> QED
      BY <2>1, <3>1 DEF Workflow!Next, Workflow!Approve
  <2>6. ASSUME NEW j \in Jobs, Worker(j)
        PROVE  StepSucceeds(j) \/ UNCHANGED <<called, done, granted>>
    BY <2>6
       DEF Worker, ProcessJob, LoadTask, StartTask, CallPrepare, Prepared,
           SnapshotSteps, RunStep, ParkTask, StepFails, CompleteTask,
           CapabilityFails, CountFailure, WriteVerdict, Rethrow, Return
  <2>7. ASSUME NEW j \in Jobs, Server(j)
        PROVE  InvokeTool(j) \/ UNCHANGED <<called, done, granted>>
    BY <1>3, <2>7
       DEF Server, ServeCall, PrepareCount, ReadStep, GuardApproved,
           GuardPending, CreateApproval, RunCapability
  <2>8. ASSUME NEW r \in Reviewers, Reviewer(r)
        PROVE  Decide(r) \/ UNCHANGED <<called, done, granted>>
    BY <2>8
       DEF Reviewer, Review, OpenReview, LinkTask, ResumeTask, EnqueueResumed
  <2>9. CASE Creator \/ Operator \/ Clock \/ (\E s \in Scans : Scanner(s))
    BY <2>2, <2>9
       DEF Creator, EnqueueCreated, Operator, Patch, Clock, Elapse, Expire,
           Scanner, Scan, ScanTasks, TimeoutTask, ScanApprovals, MarkExpired,
           LinkExpired
  <2>10. CASE Faulty
    BY <2>2, <2>4, <2>10
       DEF Faulty, WorkerCrash, WorkerDies, ServerCrash, LoseCall,
           HandlerThrows, QueryFails, QueryThrows, CreateThrows, ReviewThrows,
           ScanThrows
  <2>11. CASE UNCHANGED vars
    BY <2>2, <2>11
  <2> HIDE DEF vars
  <2> QED
    BY <2>2, <2>3, <2>4, <2>5, <2>6, <2>7, <2>8, <2>9, <2>10, <2>11 DEF Next
<1> QED
  BY <1>2, <1>3

\* Unless an operator sets the task completed, everything the jobs, handlers,
\* reviews, scans and failures do to one task is an ordered workflow's
\* behaviour: created in order, invoked and recorded in order, behind its
\* approval, completed only when covered.
THEOREM PipelineImplementsWorkflow ==
  ASSUME "completed" \notin PatchTo
  PROVE  Spec => ImplementsWorkflow
<1>1. Init => Workflow!Init
  BY DEF Init, StoreInit, Workflow!Init, Materialised
<1>2. PipelineInv /\ PipelineInv' /\ [Next]_vars
        => [Workflow!Next]_(Workflow!vars)
  BY NextRefines
<1> QED
  BY <1>1, <1>2, PipelineInvariant, PTL
     DEF Spec, ImplementsWorkflow, Workflow!Spec

(***************************************************************************)
(* Jobs, attempts and retries.                                             *)
(***************************************************************************)
Busy == WorkerPc \ {"idle", "start", "verdict", "rethrow", "return"}

\* What a step of an attempt does to its job, the count of failures and the
\* status.
JobStep(j) ==
    \/ /\ jobState[j] = "waiting" /\ status # "pending" /\ JobReturns(j)
       /\ UNCHANGED <<pc, verdict, retryCount, status>>
    \/ /\ pc[j] = "idle" /\ PickUp(j)
       /\ Moves(j, IF status = "pending" THEN "start" ELSE "prepare")
       /\ UNCHANGED <<verdict, retryCount, status>>
    \/ /\ pc[j] \in (Busy \ {"fail"}) \cup {"start"}
       /\ \E there \in Busy : Moves(j, there)
       /\ status' = "pending" => UNCHANGED status /\ pc[j] # "start"
       /\ UNCHANGED <<queueVars, verdict, retryCount>>
    \/ CountFailure(j)
    \/ WriteVerdict(j)
    \/ Rethrow(j)
    \/ Return(j)

LEMMA WorkerJobs ==
  ASSUME TypeOK, NEW j \in Jobs, ProcessJob(j)
  PROVE  JobStep(j) /\ UNCHANGED <<approval, granted, faults>>
<1> USE DEF JobStep, storeVars, taskVars, historyVars, execVars, queueVars, StoreExceptTask, At
<1>1. CASE LoadTask(j)
  BY <1>1 DEF LoadTask
<1>2. CASE CountFailure(j) \/ WriteVerdict(j) \/ Rethrow(j) \/ Return(j)
  BY <1>2 DEF CountFailure, WriteVerdict, Rethrow, Return
<1>3. CASE StartTask(j)
  BY <1>3 DEF StartTask, UpdateTaskStatus, Busy, WorkerPc
<1>4. CASE CallPrepare(j) \/ Prepared(j) \/ SnapshotSteps(j) \/ RunStep(j)
  BY <1>4 DEF CallPrepare, Prepared, SnapshotSteps, RunStep, Busy, WorkerPc
<1>5. CASE ParkTask(j) \/ CompleteTask(j)
  BY <1>5 DEF ParkTask, CompleteTask, UpdateTaskStatus, Busy, WorkerPc
<1>6. CASE StepSucceeds(j) \/ StepFails(j) \/ CapabilityFails(j)
  BY <1>6 DEF StepSucceeds, StepFails, CapabilityFails, Busy, WorkerPc
<1> QED
  BY <1>1, <1>2, <1>3, <1>4, <1>5, <1>6 DEF ProcessJob

\* A job is added for the task when it is created, or resumed.
Adds ==
    \E j \in Jobs :
      /\ jobState[j] = "free" /\ AddJob(j)
      /\ creating \/ \E r \in Reviewers : review[r] = "enqueue"

\* What any other step does to them.
RestStep ==
    /\ UNCHANGED <<verdict, retryCount>>
    /\ \/ UNCHANGED <<pc, queueVars>>
       \/ UNCHANGED pc /\ Adds
       \/ /\ \E j \in Jobs : pc[j] \in Busy /\ Moves(j, "fail")
          /\ UNCHANGED queueVars

\* A fault has struck now, or none has.
FaultsGrow == UNCHANGED faults \/ \E f \in FaultKind : Strikes(f)

LEMMA NextJobs ==
  ASSUME TypeOK, [Next]_vars
  PROVE  /\ \/ \E j \in Jobs : JobStep(j) /\ UNCHANGED faults
            \/ WorkerCrash
            \/ \E j \in Jobs : QueryThrows(j)
            \/ RestStep
         /\ granted \subseteq granted'
         /\ FaultsGrow
<1> USE DEF vars, storeVars, taskVars, historyVars, queueVars, execVars, workerVars, reviewVars,
            FaultsGrow, FaultKind
<1>1. ASSUME NEW j \in Jobs, Worker(j)
      PROVE  JobStep(j) /\ UNCHANGED <<faults, granted>>
  BY <1>1, WorkerJobs DEF Worker
<1>2. ASSUME NEW j \in Jobs, Server(j)
      PROVE  RestStep /\ UNCHANGED <<faults, granted>>
  BY <1>2
     DEF Server, ServeCall, PrepareCount, MaterialiseStep, ReadStep, GuardApproved, GuardPending,
         CreateApproval, InvokeTool, RunCapability, RestStep
<1>3. ASSUME NEW r \in Reviewers, Reviewer(r)
      PROVE  RestStep /\ UNCHANGED faults /\ granted \subseteq granted'
  BY <1>3
     DEF Reviewer, Review, OpenReview, Decide, LinkTask, ResumeTask, EnqueueResumed, Enqueue, Adds,
         RestStep
<1>4. ASSUME NEW s \in Scans, Scanner(s)
      PROVE  RestStep /\ UNCHANGED <<faults, granted>>
  BY <1>4
     DEF Scanner, Scan, ScanTasks, TimeoutTask, ScanApprovals, MarkExpired, LinkExpired, RestStep
<1>5. CASE Creator \/ Operator \/ Clock \/ UNCHANGED vars
  BY <1>5
     DEF Creator, EnqueueCreated, Enqueue, Adds, Operator, Patch, Clock, Elapse, Expire, RestStep
<1>6. CASE Faulty
  <2>1. CASE WorkerCrash
    BY <2>1 DEF WorkerCrash, WorkerDies
  <2>2. ASSUME NEW j \in Jobs, QueryThrows(j)
        PROVE  UNCHANGED granted /\ FaultsGrow
    BY <2>2 DEF QueryThrows
  <2>3. CASE ServerCrash
    BY <2>3 DEF ServerCrash, RestStep
  <2>7. CASE /\ CreateThrows \/ \E r \in Reviewers : ReviewThrows(r)
             /\ UNCHANGED <<execVars, workerVars, scanVars>>
    BY <2>7 DEF CreateThrows, ReviewThrows, RestStep
  <2>4. ASSUME NEW j \in Jobs, LoseCall(j) \/ HandlerThrows(j),
               UNCHANGED <<workerVars, reviewVars, scanVars>>
        PROVE  RestStep /\ UNCHANGED granted /\ FaultsGrow
    BY <2>4 DEF LoseCall, HandlerThrows, RestStep
  <2>5. ASSUME NEW j \in Jobs, QueryFails(j) \/ SuccessThrows(j)
        PROVE  RestStep /\ UNCHANGED granted /\ FaultsGrow
    BY <2>5 DEF QueryFails, SuccessThrows, RestStep, Busy, WorkerPc, At
  <2>6. ASSUME NEW s \in Scans, ScanThrows(s),
               UNCHANGED <<queueVars, execVars, workerVars, reviewVars>>
        PROVE  RestStep /\ UNCHANGED granted /\ FaultsGrow
    BY <2>6 DEF ScanThrows, RestStep
  <2> QED
    BY <1>6, <2>1, <2>2, <2>3, <2>4, <2>5, <2>6, <2>7 DEF Faulty
<1> HIDE DEF vars, FaultKind, storeVars, queueVars, execVars, workerVars, reviewVars
<1> QED
  BY <1>1, <1>2, <1>3, <1>4, <1>5, <1>6 DEF Next

\* Nobody works on a task that has not been queued.
LEMMA NotYetQueued ==
  ASSUME TypeOK, ReviewInv, SingleInv, [Next]_vars, creating'
  PROVE  /\ creating /\ UNCHANGED <<jobState, handler>>
         /\ NoReview => NoReview'
<1> USE DEF vars, storeVars, taskVars, historyVars, queueVars, execVars, workerVars, reviewVars
<1>1. creating
  BY DEF Next, Worker, Server, Creator, EnqueueCreated, Reviewer, Review, OpenReview, Decide,
         LinkTask, ResumeTask, EnqueueResumed, Scanner, Operator, Clock, Faulty, WorkerCrash,
         ServerCrash, RequestsDie, CreateThrows, ReviewThrows
<1>2. /\ NoReview
      /\ \A j \in Jobs : jobState[j] = "free" /\ handler[j] = "idle" /\ pc[j] = "idle"
  BY <1>1 DEF ReviewInv, SingleInv
<1>3. ASSUME NEW j \in Jobs, Worker(j) PROVE FALSE
  BY <1>2, <1>3
     DEF Worker, ProcessJob, LoadTask, StartTask, CallPrepare, Prepared, SnapshotSteps, RunStep,
         ParkTask, StepSucceeds, StepFails, CompleteTask, CapabilityFails, CountFailure,
         WriteVerdict, Rethrow, Return, At
<1>4. ASSUME NEW j \in Jobs, Server(j) PROVE FALSE
  BY <1>2, <1>4
     DEF Server, ServeCall, PrepareCount, MaterialiseStep, ReadStep, GuardApproved, GuardPending,
         CreateApproval, InvokeTool, RunCapability
<1>5. ASSUME NEW r \in Reviewers, Reviewer(r) PROVE FALSE
  BY <1>2, <1>5
     DEF Reviewer, Review, OpenReview, Decide, LinkTask, ResumeTask, EnqueueResumed, NoReview
<1>6. ~Creator
  BY DEF Creator, EnqueueCreated
<1>7. ASSUME NEW s \in Scans, Scanner(s)
      PROVE  UNCHANGED <<jobState, handler, review>> /\ NoReview'
  BY <1>2, <1>7
     DEF Scanner, Scan, ScanTasks, TimeoutTask, ScanApprovals, MarkExpired, LinkExpired, Overdue,
         NoReview
<1>8. CASE Operator \/ Clock \/ UNCHANGED vars
  BY <1>1, <1>8 DEF Operator, Patch, Clock, Elapse, Expire, NoReview
<1>9. CASE Faulty
  <2>1. ~WorkerCrash /\ ~ServerCrash /\ ~CreateThrows
    BY <1>2 DEF WorkerCrash, WorkerDies, ServerCrash, RequestsDie, CreateThrows
  <2>2. \A r \in Reviewers : ~ReviewThrows(r)
    BY <1>2 DEF ReviewThrows, NoReview
  <2>3. \A j \in Jobs : ~QueryFails(j) /\ ~SuccessThrows(j) /\ ~QueryThrows(j) /\ ~HandlerThrows(j)
    BY <1>2 DEF QueryFails, SuccessThrows, QueryThrows, HandlerThrows, At
  <2>4. ASSUME NEW j \in Jobs, LoseCall(j), UNCHANGED <<workerVars, reviewVars, scanVars>>
        PROVE  UNCHANGED <<jobState, handler, review, approval>>
    BY <2>4 DEF LoseCall
  <2>5. ASSUME NEW s \in Scans, ScanThrows(s),
               UNCHANGED <<queueVars, execVars, workerVars, reviewVars>>
        PROVE  UNCHANGED <<jobState, handler, review, approval>>
    BY <2>5 DEF ScanThrows
  <2> QED
    BY <1>1, <1>9, <2>1, <2>2, <2>3, <2>4, <2>5 DEF Faulty, NoReview
<1> HIDE DEF vars
<1> QED
  BY <1>1, <1>3, <1>4, <1>5, <1>6, <1>7, <1>8, <1>9 DEF Next

LEMMA NextReview ==
  ASSUME TypeOK, ReviewInv, SingleInv, [Next]_vars
  PROVE  ReviewInv'
<1> USE DEF vars, storeVars, historyVars, reviewVars
<1> DEFINE Reviewed(r) ==
             /\ review[r] # "idle" => subject[r] # {}
             /\ review[r] \in {"resume", "enqueue"} => granted # {}
             /\ review[r] = "link" /\ decision[r] = "approved" => granted # {}
<1>1. creating' => NoReview' /\ \A j \in Jobs : jobState'[j] = "free" /\ handler'[j] = "idle"
  BY NotYetQueued DEF ReviewInv
<1>2. granted # {} => granted' # {}
  BY NextJobs
<1>3. CASE UNCHANGED <<review, subject, decision>>
  BY <1>1, <1>2, <1>3 DEF ReviewInv
<1>4. ASSUME NEW r \in Reviewers, Reviewer(r)
      PROVE  \A q \in Reviewers : Reviewed(q)'
  <2>1. \A q \in Reviewers : Reviewed(q)
    BY DEF ReviewInv
  <2>2. /\ review \in [Reviewers -> ReviewPc] /\ subject \in [Reviewers -> SUBSET Approvals]
        /\ decision \in [Reviewers -> Decisions]
    BY DEF TypeOK, ReviewTypeOK
  <2>3. ASSUME NEW a \in Approvals, NEW d \in Decisions, OpenReview(r, a, d)
        PROVE  \A q \in Reviewers : Reviewed(q)'
    BY <1>2, <2>1, <2>2, <2>3 DEF OpenReview, ReviewGoes
  <2>4. CASE Decide(r)
    BY <1>2, <2>1, <2>2, <2>4 DEF Decide, ReviewGoes
  <2>5. CASE LinkTask(r)
    BY <1>2, <2>1, <2>2, <2>5 DEF LinkTask, ReviewGoes, ReviewEnds
  <2>6. CASE ResumeTask(r)
    BY <1>2, <2>1, <2>2, <2>6 DEF ResumeTask, ReviewGoes
  <2>7. CASE EnqueueResumed(r)
    BY <1>2, <2>1, <2>2, <2>7 DEF EnqueueResumed, ReviewGoes, ReviewEnds
  <2> QED
    BY <1>4, <2>3, <2>4, <2>5, <2>6, <2>7 DEF Reviewer, Review
<1>5. CASE ServerCrash
  BY <1>1, <1>2, <1>5 DEF ReviewInv, ServerCrash, RequestsDie
<1>6. ASSUME NEW r \in Reviewers, ReviewThrows(r)
      PROVE  \A q \in Reviewers : Reviewed(q)'
  <2>1. /\ review \in [Reviewers -> ReviewPc] /\ subject \in [Reviewers -> SUBSET Approvals]
        /\ decision \in [Reviewers -> Decisions]
    BY DEF TypeOK, ReviewTypeOK
  <2> QED
    BY <1>2, <1>6, <2>1 DEF ReviewInv, ReviewThrows, ReviewGoes, ReviewEnds
<1>7. \/ UNCHANGED <<review, subject, decision>>
      \/ \E r \in Reviewers : Reviewer(r) \/ ReviewThrows(r)
      \/ ServerCrash
  BY DEF Next, Worker, Server, Creator, EnqueueCreated, Scanner, Operator, Clock, Faulty,
         WorkerCrash, CreateThrows
<1> QED
  BY <1>1, <1>3, <1>4, <1>5, <1>6, <1>7 DEF ReviewInv

LEMMA NextSingle ==
  ASSUME TypeOK, ReviewInv, SingleInv, [Next]_vars
  PROVE  SingleInv'
<1> USE DEF queueVars, At, Moves
<1>0. /\ jobState \in [Jobs -> JobState] /\ pc \in [Jobs -> WorkerPc]
      /\ granted' = {} => granted = {}
  BY NextJobs DEF TypeOK, QueueTypeOK, WorkerTypeOK
<1>1. ASSUME NEW j \in Jobs, JobStep(j)
      PROVE  SingleInv'
  BY <1>0, <1>1
     DEF SingleInv, JobStep, JobReturns, PickUp, CountFailure, WriteVerdict, Rethrow, JobThrows,
         Return, Leaves, Busy, WorkerPc
<1>2. CASE WorkerCrash
  BY <1>0, <1>2 DEF SingleInv, WorkerCrash, WorkerDies, JobsStall
<1>3. ASSUME NEW j \in Jobs, QueryThrows(j)
      PROVE  SingleInv'
  BY <1>0, <1>3 DEF SingleInv, QueryThrows, JobThrows, Leaves
<1>4. CASE RestStep
  <2>1. CASE UNCHANGED <<pc, queueVars>>
    BY <1>0, <2>1 DEF SingleInv
  <2>2. CASE UNCHANGED pc /\ Adds
    <3>1. PICK j \in Jobs :
            /\ jobState[j] = "free" /\ AddJob(j)
            /\ creating \/ \E r \in Reviewers : review[r] = "enqueue"
      BY <2>2 DEF Adds
    <3>2. granted = {} => \A i \in Jobs : jobState[i] = "free"
      BY <3>1 DEF ReviewInv
    <3> QED
      BY <1>0, <2>2, <3>1, <3>2 DEF SingleInv, AddJob
  <2>3. CASE (\E j \in Jobs : pc[j] \in Busy /\ Moves(j, "fail")) /\ UNCHANGED queueVars
    BY <1>0, <2>3 DEF SingleInv, Busy
  <2> QED
    BY <1>4, <2>1, <2>2, <2>3 DEF RestStep
<1> QED
  BY <1>1, <1>2, <1>3, <1>4, NextJobs

JobsInv == TypeOK /\ StepsInRange /\ ReviewInv /\ SingleInv

LEMMA InitJobs == Init => JobsInv
BY InitType
   DEF Init, StoreInit, QueueInit, ExecInit, WorkerInit, ReviewInit, JobsInv, StepsInRange, StepOps,
       ReviewInv, NoReview, SingleInv

LEMMA NextJobsInv == JobsInv /\ [Next]_vars => JobsInv'
BY NextType, NextStepsInRange, NextReview, NextSingle DEF JobsInv

LEMMA JobsInvariant == Spec => []JobsInv
BY InitJobs, NextJobsInv, PTL DEF Spec

\* Until somebody has approved, no two jobs of a task are ever at work at once: only a
\* review adds a second one, and a redelivered job is the same job.
THEOREM OneAttempt == Spec => []OneAttemptAtATime
<1>1. JobsInv => OneAttemptAtATime
  BY DEF JobsInv, SingleInv, OneAttemptAtATime
<1> QED
  BY <1>1, JobsInvariant, PTL

\* How the faults that may cost an uncounted attempt go up.
LEMMA FaultCount ==
  ASSUME TypeOK, TypeOK', FaultsGrow
  PROVE  /\ MostRetries \in Nat /\ MostRetries' \in Nat
         /\ MostRetries' >= MostRetries /\ MostRetries > 0
         /\ Strikes("db") \/ Strikes("worker") => MostRetries' > MostRetries
<1> DEFINE most == IF MaxRetries = 0 THEN 1 ELSE MaxRetries
<1>1. most \in Nat /\ most > 0
  BY StoreAssumption
<1>2. "db" \in FaultKind /\ "worker" \in FaultKind
  BY DEF FaultKind
<1>3. faults["db"] \in Nat /\ faults["worker"] \in Nat
  BY <1>2 DEF TypeOK, StoreTypeOK
<1>4. ASSUME NEW f \in FaultKind, Strikes(f)
      PROVE  /\ faults'["db"] = faults["db"] + (IF f = "db" THEN 1 ELSE 0)
             /\ faults'["worker"] = faults["worker"] + (IF f = "worker" THEN 1 ELSE 0)
  BY <1>2, <1>3, <1>4 DEF Strikes, TypeOK, StoreTypeOK
<1>5. /\ faults'["db"] \in Nat /\ faults'["db"] >= faults["db"]
      /\ faults'["worker"] \in Nat /\ faults'["worker"] >= faults["worker"]
  <2>1. CASE UNCHANGED faults
    BY <1>3, <2>1
  <2>2. ASSUME NEW f \in FaultKind, Strikes(f)
        PROVE  /\ faults'["db"] \in Nat /\ faults'["db"] >= faults["db"]
               /\ faults'["worker"] \in Nat /\ faults'["worker"] >= faults["worker"]
    BY <1>3, <1>4, <2>2
  <2> QED
    BY <2>1, <2>2 DEF FaultsGrow
<1>6. /\ Strikes("db") => faults'["db"] = faults["db"] + 1
      /\ Strikes("worker") => faults'["worker"] = faults["worker"] + 1
  BY <1>2, <1>4
<1>7. /\ MostRetries = most + faults["db"] + faults["worker"]
      /\ MostRetries' = most + faults'["db"] + faults'["worker"]
  BY DEF MostRetries
<1> HIDE DEF most
<1> QED
  BY <1>1, <1>3, <1>5, <1>6, <1>7

\* A job that throws or stalls is spent or may run again.
LEMMA NextRetries ==
  ASSUME TypeOK, TypeOK', SingleInv, RetryInv, [Next]_vars
  PROVE  RetryInv'
<1> USE DEF queueVars, At, Moves
<1> SUFFICES ASSUME granted' = {}
             PROVE  /\ retryCount' <= MostRetries'
                    /\ (\A j \in Jobs : ~Spent(j)') => retryCount' < MostRetries'
  BY DEF RetryInv
<1>0. /\ granted = {} /\ retryCount \in Nat /\ FaultsGrow
      /\ jobState \in [Jobs -> JobState] /\ pc \in [Jobs -> WorkerPc]
      /\ verdict \in [Jobs -> {"failed", "pending"}]
  BY NextJobs DEF TypeOK, StoreTypeOK, QueueTypeOK, WorkerTypeOK
<1>1. /\ retryCount <= MostRetries
      /\ (\A j \in Jobs : ~Spent(j)) => retryCount < MostRetries
  BY <1>0 DEF RetryInv
<1>2. /\ MostRetries \in Nat /\ MostRetries' \in Nat
      /\ MostRetries' >= MostRetries /\ MostRetries > 0
      /\ Strikes("db") \/ Strikes("worker") => MostRetries' > MostRetries
  BY <1>0, FaultCount
\* Only one job is not free.
<1>3. ASSUME NEW j \in Jobs, jobState[j] # "free"
      PROVE  \A i \in Jobs : i # j => ~Spent(i)
  BY <1>0, <1>3 DEF SingleInv, Spent
\* A fault that may have cost an attempt, or a step that leaves what is spent as it was.
<1>4. CASE UNCHANGED retryCount /\ (Strikes("db") \/ Strikes("worker"))
  BY <1>0, <1>1, <1>2, <1>4
<1>5. CASE UNCHANGED retryCount /\ \A j \in Jobs : Spent(j) => Spent(j)'
  BY <1>0, <1>1, <1>2, <1>5
<1>6. ASSUME NEW j \in Jobs, JobStep(j), UNCHANGED faults
      PROVE  /\ retryCount' <= MostRetries'
             /\ (\A i \in Jobs : ~Spent(i)') => retryCount' < MostRetries'
  <2>1. CASE CountFailure(j)
    <3>1. /\ pc[j] = "fail" /\ jobState[j] # "free" /\ ~Spent(j)
      BY <1>0, <2>1 DEF CountFailure, SingleInv, Spent
    <3>2. retryCount < MostRetries
      BY <1>1, <1>3, <3>1
    <3>3. /\ retryCount' = retryCount + 1 /\ MostRetries' = MostRetries
      BY <1>6, <2>1 DEF CountFailure, MostRetries
    <3>4. pc'[j] = "verdict"
          /\ verdict'[j] = IF retryCount' >= MaxRetries THEN "failed" ELSE "pending"
      BY <1>0, <2>1 DEF CountFailure
    <3>5. ~Spent(j)' => retryCount' < MaxRetries
      BY <1>0, <3>3, <3>4, StoreAssumption DEF Spent
    <3>6. MaxRetries <= MostRetries
      <4>1. faults["db"] \in Nat /\ faults["worker"] \in Nat
        BY DEF TypeOK, StoreTypeOK, FaultKind
      <4> QED
        BY <4>1, StoreAssumption DEF MostRetries
    <3> QED
      BY <1>0, <1>2, <3>2, <3>3, <3>5, <3>6, StoreAssumption
  <2>2. CASE UNCHANGED retryCount /\ ~CountFailure(j)
    <3>1. Spent(j) => Spent(j)'
      BY <1>0, <1>6, <2>2
         DEF JobStep, JobReturns, PickUp, WriteVerdict, Rethrow, JobThrows, Return, Leaves, Busy,
             WorkerPc, SingleInv, Spent
    <3>2. \A i \in Jobs : i # j => (Spent(i) <=> Spent(i)')
      BY <1>0, <1>6, <2>2
         DEF JobStep, JobReturns, PickUp, WriteVerdict, Rethrow, JobThrows, Return, Leaves, Spent
    <3> QED
      BY <1>5, <2>2, <3>1, <3>2
  <2> QED
    BY <1>6, <2>1, <2>2
       DEF JobStep, WriteVerdict, StoreExceptTask, Rethrow, Return, storeVars, taskVars
<1>7. CASE WorkerCrash
  BY <1>4, <1>7 DEF WorkerCrash, WorkerDies, taskVars
<1>8. ASSUME NEW j \in Jobs, QueryThrows(j)
      PROVE  UNCHANGED retryCount /\ Strikes("db")
  BY <1>8 DEF QueryThrows, taskVars
<1>9. CASE RestStep
  <2>1. UNCHANGED retryCount /\ \A j \in Jobs : Spent(j) => Spent(j)'
    BY <1>0, <1>9 DEF RestStep, Adds, AddJob, Busy, Spent
  <2> QED
    BY <1>5, <2>1
<1> QED
  BY <1>4, <1>6, <1>7, <1>8, <1>9, NextJobs

\* Until somebody has approved, failures are counted at most max_retries times, and
\* once more for each fault that strikes between counting and writing the verdict:
\* no failed task is tried again, whatever is redelivered.
THEOREM RetriesAreBounded == Spec => []RetriesBounded
<1>1. Init => JobsInv /\ RetryInv
  <2> SUFFICES ASSUME Init PROVE RetryInv
    BY InitJobs
  <2>1. retryCount = 0 /\ faults["db"] = 0 /\ faults["worker"] = 0
    BY DEF Init, StoreInit, NoFaultYet, FaultKind
  <2> QED
    BY <2>1, StoreAssumption DEF RetryInv, MostRetries
<1>2. JobsInv /\ RetryInv /\ [Next]_vars => (JobsInv /\ RetryInv)'
  BY NextJobsInv, NextRetries DEF JobsInv
<1>3. RetryInv => RetriesBounded
  BY DEF RetryInv, MostRetries, RetriesBounded
<1> QED
  BY <1>1, <1>2, <1>3, PTL DEF Spec

(***************************************************************************)
(* A pending task has somebody to take it up, or its job has been given    *)
(* up.                                                                     *)
(***************************************************************************)
\* A kind of fault that has not struck yet does not strike now.
LEMMA NotStruck ==
  ASSUME TypeOK, FaultsGrow, NEW f \in FaultKind, faults'[f] = 0
  PROVE  faults[f] = 0 /\ ~Strikes(f)
<1>1. faults \in [FaultKind -> Nat]
  BY DEF TypeOK, StoreTypeOK
<1>2. ASSUME NEW g \in FaultKind, Strikes(g)
      PROVE  faults'[f] = faults[f] + (IF f = g THEN 1 ELSE 0)
  BY <1>1, <1>2 DEF Strikes
<1>3. faults[f] = 0
  <2>1. CASE UNCHANGED faults
    BY <2>1
  <2>2. ASSUME NEW g \in FaultKind, Strikes(g)
        PROVE  faults[f] = 0
    BY <1>1, <1>2, <2>2
  <2> QED
    BY <2>1, <2>2 DEF FaultsGrow
<1> QED
  BY <1>1, <1>2, <1>3

\* A fault that has struck has struck for good.
LEMMA StaysStruck ==
  ASSUME TypeOK, FaultsGrow, NEW f \in FaultKind, faults[f] > 0
  PROVE  faults'[f] > 0
<1>1. faults \in [FaultKind -> Nat]
  BY DEF TypeOK, StoreTypeOK
<1>2. ASSUME NEW g \in FaultKind, Strikes(g)
      PROVE  faults'[f] > 0
  BY <1>1, <1>2 DEF Strikes
<1> QED
  BY <1>2 DEF FaultsGrow

\* What leaves a pending task with whoever is to take it up.
Calm ==
    /\ UNCHANGED <<creating, queueVars>>
    /\ \A r \in Reviewers : review[r] = "enqueue" => review'[r] = "enqueue"
    /\ \A j \in Jobs : pc[j] \in {"start", "rethrow"} => pc'[j] = pc[j]
    /\ status' = "pending" => status = "pending"

LEMMA CalmSteps ==
  ASSUME TypeOK, [Next]_vars, "pending" \notin PatchTo,
         faults'["server"] = 0, faults'["redis"] = 0
  PROVE  \/ \E j \in Jobs : Worker(j)
         \/ Calm
         \/ Creator
         \/ \E r \in Reviewers : Reviewer(r)
         \/ WorkerCrash
         \/ \E j \in Jobs : QueryThrows(j)
<1> USE DEF vars, storeVars, taskVars, queueVars, execVars, workerVars, reviewVars
<1>0. /\ ~Strikes("server") /\ ~Strikes("redis")
      /\ pc \in [Jobs -> WorkerPc] /\ review \in [Reviewers -> ReviewPc]
  BY NextJobs, NotStruck DEF FaultKind, TypeOK, WorkerTypeOK, ReviewTypeOK
<1>2. ASSUME NEW j \in Jobs, Server(j) PROVE Calm
  BY <1>2
     DEF Calm, Server, ServeCall, PrepareCount, MaterialiseStep, ReadStep, GuardApproved,
         GuardPending, CreateApproval, InvokeTool, RunCapability
<1>3. ASSUME NEW s \in Scans, Scanner(s) PROVE Calm
  BY <1>3 DEF Calm, Scanner, Scan, ScanTasks, TimeoutTask, ScanApprovals, MarkExpired, LinkExpired
<1>4. CASE Operator \/ Clock \/ UNCHANGED vars
  BY <1>4 DEF Calm, Operator, Patch, Clock, Elapse, Expire
<1>5. CASE Faulty
  <2>1. CASE ServerCrash \/ CreateThrows
    BY <1>0, <2>1 DEF ServerCrash, CreateThrows
  <2>2. ASSUME NEW r \in Reviewers, ReviewThrows(r), UNCHANGED <<execVars, workerVars, scanVars>>
        PROVE  Calm
    <3>1. review[r] # "enqueue" /\ review' = [review EXCEPT ![r] = "idle"]
      BY <1>0, <2>2 DEF ReviewThrows, ReviewEnds, ReviewGoes
    <3> QED
      BY <1>0, <2>2, <3>1 DEF Calm, ReviewThrows
  <2>3. ASSUME NEW j \in Jobs, LoseCall(j) \/ HandlerThrows(j),
               UNCHANGED <<workerVars, reviewVars, scanVars>>
        PROVE  Calm
    BY <2>3 DEF Calm, LoseCall, HandlerThrows
  <2>4. ASSUME NEW j \in Jobs, QueryFails(j) \/ SuccessThrows(j),
               UNCHANGED <<reviewVars, scanVars>>
        PROVE  Calm
    BY <1>0, <2>4 DEF Calm, QueryFails, SuccessThrows, At, Moves
  <2>5. ASSUME NEW s \in Scans, ScanThrows(s),
               UNCHANGED <<queueVars, execVars, workerVars, reviewVars>>
        PROVE  Calm
    BY <2>5 DEF Calm, ScanThrows
  <2> HIDE DEF vars, storeVars, taskVars, queueVars, execVars, workerVars, reviewVars
  <2> QED
    BY <1>5, <2>1, <2>2, <2>3, <2>4, <2>5 DEF Faulty
<1> HIDE DEF vars, storeVars, taskVars, queueVars, execVars, workerVars, reviewVars
<1>6. \/ \E j \in Jobs : Worker(j) \/ Server(j)
      \/ Creator
      \/ \E r \in Reviewers : Reviewer(r)
      \/ \E s \in Scans : Scanner(s)
      \/ Operator \/ Clock \/ UNCHANGED vars
      \/ Faulty
  BY DEF Next
<1> QED
  BY <1>2, <1>3, <1>4, <1>5, <1>6

LEMMA NextAttempts ==
  ASSUME TypeOK, NEW j \in Jobs, JobStep(j), \A i \in Jobs : AttemptInv(i)
  PROVE  \A i \in Jobs : AttemptInv(i)'
<1> USE DEF queueVars, At, Moves, AttemptInv
<1>1. /\ retryCount \in Nat /\ attemptsMade \in [Jobs -> Nat] /\ pc \in [Jobs -> WorkerPc]
      /\ verdict \in [Jobs -> {"failed", "pending"}]
  BY DEF TypeOK, StoreTypeOK, QueueTypeOK, WorkerTypeOK
<1>2. CASE CountFailure(j)
  BY <1>1, <1>2, StoreAssumption DEF CountFailure
<1>3. CASE WriteVerdict(j)
  BY <1>1, <1>3 DEF WriteVerdict, StoreExceptTask
<1>4. CASE Rethrow(j)
  BY <1>1, <1>4 DEF Rethrow, JobThrows, Leaves, storeVars, taskVars
<1>5. CASE Return(j)
  BY <1>1, <1>5 DEF Return, JobReturns, Leaves, storeVars, taskVars
<1>6. CASE ~CountFailure(j) /\ ~WriteVerdict(j) /\ ~Rethrow(j) /\ ~Return(j)
  BY <1>1, <1>6 DEF JobStep, JobReturns, PickUp, Busy, WorkerPc
<1> QED
  BY <1>2, <1>3, <1>4, <1>5, <1>6

\* The counts stay as AttemptInv says through every step, a death of the worker
\* included, until a query throws.
LEMMA AttemptsCounted ==
  ASSUME TypeOK, \A i \in Jobs : AttemptInv(i), [Next]_vars, faults'["db"] = 0
  PROVE  \A i \in Jobs : AttemptInv(i)'
<1>0. /\ retryCount \in Nat /\ attemptsMade \in [Jobs -> Nat] /\ pc \in [Jobs -> WorkerPc]
      /\ ~Strikes("db")
  BY NextJobs, NotStruck DEF FaultKind, TypeOK, StoreTypeOK, QueueTypeOK, WorkerTypeOK
<1>1. ASSUME NEW j \in Jobs, JobStep(j)
      PROVE  \A i \in Jobs : AttemptInv(i)'
  BY <1>1, NextAttempts
<1>2. CASE WorkerCrash
  BY <1>0, <1>2 DEF WorkerCrash, WorkerDies, JobsStall, AttemptInv, taskVars
<1>3. ASSUME NEW j \in Jobs, QueryThrows(j)
      PROVE  FALSE
  BY <1>0, <1>3 DEF QueryThrows
<1>4. CASE RestStep
  BY <1>0, <1>4 DEF RestStep, Adds, AddJob, Busy, Moves, AttemptInv, queueVars
<1> QED
  BY <1>1, <1>2, <1>3, <1>4, NextJobs

\* A job that is settled and not the one at work keeps its place in the queue.
LEMMA GivenUpForGood ==
  ASSUME TypeOK, SingleInv, [Next]_vars, NEW i \in Jobs, GivenUp(i)
  PROVE  GivenUp(i)'
<1>0. /\ jobState \in [Jobs -> JobState] /\ attemptsMade \in [Jobs -> Nat]
      /\ stalled \in [Jobs -> Nat] /\ jobState[i] = "failed"
      /\ \A j \in Jobs : pc[j] # "idle" <=> jobState[j] = "active"
  BY DEF TypeOK, QueueTypeOK, SingleInv, GivenUp
<1>1. faults["db"] > 0 => faults'["db"] > 0
  BY NextJobs, StaysStruck DEF FaultKind
<1>2. ASSUME jobState'[i] = jobState[i], attemptsMade'[i] = attemptsMade[i],
             stalled'[i] = stalled[i]
      PROVE  GivenUp(i)'
  BY <1>1, <1>2 DEF GivenUp
<1> USE DEF queueVars
<1>3. ASSUME NEW j \in Jobs, JobStep(j)
      PROVE  GivenUp(i)'
  <2>1. CASE CountFailure(j) \/ WriteVerdict(j)
    BY <1>2, <2>1 DEF CountFailure, WriteVerdict
  <2>2. CASE Rethrow(j) \/ Return(j)
    <3>1. i # j
      BY <1>0, <2>2 DEF Rethrow, Return, At
    <3> QED
      BY <1>0, <1>2, <2>2, <3>1 DEF Rethrow, Return, JobThrows, JobReturns
  <2>3. CASE ~CountFailure(j) /\ ~WriteVerdict(j) /\ ~Rethrow(j) /\ ~Return(j)
    BY <1>0, <1>2, <1>3, <2>3 DEF JobStep, PickUp, JobReturns
  <2> QED
    BY <2>1, <2>2, <2>3
<1>4. CASE WorkerCrash
  BY <1>0, <1>2, <1>4 DEF WorkerCrash, WorkerDies, JobsStall
<1>5. ASSUME NEW j \in Jobs, QueryThrows(j)
      PROVE  GivenUp(i)'
  <2>1. i # j
    BY <1>0, <1>5 DEF QueryThrows
  <2> QED
    BY <1>0, <1>2, <1>5, <2>1 DEF QueryThrows, JobThrows
<1>6. CASE RestStep
  BY <1>0, <1>2, <1>6 DEF RestStep, Adds, AddJob
<1> QED
  BY <1>3, <1>4, <1>5, <1>6, NextJobs

LEMMA NextCarried ==
  ASSUME TypeOK, SingleInv, CarryInv, [Next]_vars, "pending" \notin PatchTo
  PROVE  CarryInv'
<1>1. faults'["db"] = 0 => \A j \in Jobs : AttemptInv(j)'
  BY NextJobs, NotStruck, AttemptsCounted DEF FaultKind, CarryInv
<1> SUFFICES ASSUME status' = "pending", ~(\E j \in Jobs : GivenUp(j)'),
                    faults'["server"] = 0, faults'["redis"] = 0
             PROVE  Carried'
  <2>1. faults' \in [FaultKind -> Nat]
    BY NextJobs DEF FaultsGrow, Strikes, TypeOK, StoreTypeOK
  <2>2. ~(faults'["server"] > 0) => faults'["server"] = 0
    BY <2>1 DEF FaultKind
  <2>3. ~(faults'["redis"] > 0) => faults'["redis"] = 0
    BY <2>1 DEF FaultKind
  <2> QED
    BY <1>1, <2>2, <2>3 DEF CarryInv, PendingIsCarried
<1>2. /\ retryCount \in Nat /\ attemptsMade \in [Jobs -> Nat] /\ pc \in [Jobs -> WorkerPc]
      /\ stalled \in [Jobs -> Nat] /\ faults \in [FaultKind -> Nat]
      /\ verdict \in [Jobs -> {"failed", "pending"}] /\ jobState \in [Jobs -> JobState]
      /\ review \in [Reviewers -> ReviewPc]
      /\ \A j \in Jobs : pc[j] # "idle" <=> jobState[j] = "active"
  BY DEF TypeOK, StoreTypeOK, QueueTypeOK, WorkerTypeOK, ReviewTypeOK, SingleInv
<1>3. status = "pending" => Carried
  <2>1. faults["server"] = 0 /\ faults["redis"] = 0
    BY NextJobs, NotStruck DEF FaultKind
  <2> QED
    BY <2>1, GivenUpForGood DEF CarryInv, PendingIsCarried
<1> USE DEF queueVars, Carried
<1>4. ASSUME NEW j \in Jobs, Worker(j)
      PROVE  Carried'
  <2>1. JobStep(j) /\ UNCHANGED <<creating, review, faults>>
    BY <1>4, WorkerJobs DEF Worker, reviewVars
  <2>2. CASE Rethrow(j)
    <3>1. attemptsMade[j] + 1 < Attempts
      <4> SUFFICES ASSUME ~(attemptsMade[j] + 1 < Attempts) PROVE FALSE
        OBVIOUS
      <4>1. jobState'[j] = "failed" /\ attemptsMade'[j] = attemptsMade[j] + 1
        BY <1>2, <2>2 DEF Rethrow, JobThrows
      <4>2. ~(faults["db"] > 0) => attemptsMade[j] + 1 < MaxRetries
        BY <1>2, <2>2 DEF Rethrow, At, CarryInv, AttemptInv, FaultKind
      <4>3. Attempts < MaxRetries \/ faults["db"] > 0
        BY <1>2, <4>2, StoreAssumption, QueueAssumption
      <4> QED
        BY <1>2, <2>1, <4>1, <4>3, QueueAssumption DEF GivenUp
    <3>2. jobState'[j] = "waiting"
      BY <1>2, <2>2, <3>1 DEF Rethrow, JobThrows
    <3> QED
      BY <3>2
  <2>3. CASE WriteVerdict(j)
    BY <1>2, <1>3, <2>1, <2>3 DEF WriteVerdict, UpdateTaskStatus, Moves
  <2>4. CASE CountFailure(j)
    BY <1>2, <1>3, <2>1, <2>4 DEF CountFailure, Moves, At
  <2>5. CASE Return(j)
    BY <1>2, <1>3, <2>1, <2>5 DEF Return, JobReturns, Leaves, Moves, storeVars, taskVars
  <2>6. CASE ~CountFailure(j) /\ ~WriteVerdict(j) /\ ~Rethrow(j) /\ ~Return(j)
    BY <1>2, <1>3, <2>1, <2>6 DEF JobStep, JobReturns, PickUp, Moves, Busy, WorkerPc
  <2> QED
    BY <2>2, <2>3, <2>4, <2>5, <2>6
<1>5. CASE Calm
  BY <1>2, <1>3, <1>5 DEF Calm
<1>6. CASE Creator
  BY <1>2, <1>6 DEF Creator, EnqueueCreated, Enqueue, AddJob
<1>7. ASSUME NEW r \in Reviewers, Reviewer(r)
      PROVE  Carried'
  <2>1. UNCHANGED pc
    BY <1>7 DEF Reviewer, workerVars
  <2>2. ASSUME NEW a \in Approvals, NEW d \in Decisions, OpenReview(r, a, d)
        PROVE  Carried'
    BY <1>2, <1>3, <2>1, <2>2 DEF OpenReview, ReviewGoes, storeVars, taskVars
  <2>3. CASE Decide(r)
    BY <1>2, <1>3, <2>1, <2>3 DEF Decide, ReviewGoes, taskVars
  <2>4. CASE LinkTask(r)
    BY <2>4 DEF LinkTask
  <2>5. CASE ResumeTask(r)
    BY <1>2, <2>5 DEF ResumeTask, ReviewGoes
  <2>6. CASE EnqueueResumed(r)
    BY <1>2, <2>6 DEF EnqueueResumed, Enqueue, AddJob
  <2> QED
    BY <1>7, <2>2, <2>3, <2>4, <2>5, <2>6 DEF Reviewer, Review
<1>8. CASE WorkerCrash
  <2>1. UNCHANGED <<status, creating, review>>
    BY <1>8 DEF WorkerCrash, WorkerDies, taskVars, reviewVars
  <2>2. ASSUME NEW j \in Jobs, jobState[j] \in {"waiting", "active"}
        PROVE  Carried'
    <3>1. jobState'[j] = "failed" => stalled'[j] > MaxStalled
      BY <1>2, <1>8, <2>2, QueueAssumption DEF WorkerCrash, WorkerDies, JobsStall
    <3>2. jobState'[j] \in {"waiting", "failed"}
      BY <1>2, <1>8, <2>2 DEF WorkerCrash, WorkerDies, JobsStall
    <3> QED
      BY <3>1, <3>2 DEF GivenUp
  <2> QED
    BY <1>2, <1>3, <2>1, <2>2
<1>9. ASSUME NEW j \in Jobs, QueryThrows(j)
      PROVE  Carried'
  <2>1. \/ jobState'[j] = "waiting"
        \/ jobState'[j] = "failed" /\ attemptsMade'[j] >= Attempts
    BY <1>2, <1>9, QueueAssumption DEF QueryThrows, JobThrows
  <2>2. faults'["db"] > 0
    BY <1>2, <1>9 DEF QueryThrows, Strikes, FaultKind
  <2> QED
    BY <2>1, <2>2 DEF GivenUp
<1> QED
  BY <1>4, <1>5, <1>6, <1>7, <1>8, <1>9, CalmSteps

\* A pending task has a job, or a process about to add or retry one, whatever the worker,
\* the reviews and the scan do, unless BullMQ has given a job of it up (the worker died too
\* often, a query threw, or max_retries exceeds the attempts of the job) or the process
\* that was to add one died or found no Redis - provided no operator sets the task pending
\* by hand.
THEOREM PendingHasCarrier ==
  ASSUME "pending" \notin PatchTo
  PROVE  Spec => []PendingIsCarried
<1>1. Init => JobsInv /\ CarryInv
  <2> SUFFICES ASSUME Init PROVE CarryInv
    BY InitJobs
  <2> QED
    BY DEF Init, StoreInit, QueueInit, WorkerInit, ReviewInit, CarryInv, PendingIsCarried, Carried,
           AttemptInv
<1>2. JobsInv /\ CarryInv /\ [Next]_vars => (JobsInv /\ CarryInv)'
  BY NextJobsInv, NextCarried DEF JobsInv
<1>3. CarryInv => PendingIsCarried
  BY DEF CarryInv
<1> QED
  BY <1>1, <1>2, <1>3, PTL DEF Spec

(***************************************************************************)
(* A decision is final.                                                    *)
(***************************************************************************)
\* The scan marks an approval as timed out only if it is pending as it marks it, so a
\* decision a reviewer has recorded meanwhile is never lost (markExpiredApprovals).
THEOREM DecisionsBeatTimeouts == Spec => DecisionBeatsTimeout
<1> DEFINE Kept == \A a \in Approvals : approval[a] \in Decisions => approval'[a] # "timeout"
<1>1. ASSUME TypeOK, Next
      PROVE  Kept
  <2> USE DEF storeVars, Decisions
  <2>0. approval \in [Approvals -> ApprovalStatus] /\ \A r \in Reviewers : decision[r] \in Decisions
    BY <1>1 DEF TypeOK, StoreTypeOK, ReviewTypeOK
  <2>1. ASSUME NEW j \in Jobs, Worker(j) PROVE Kept
    <3>1. UNCHANGED approval
      BY <1>1, <2>1, WorkerJobs DEF Worker
    <3> QED
      BY <3>1
  <2>2. ASSUME NEW j \in Jobs, Server(j) PROVE Kept
    BY <2>0, <2>2
       DEF Server, ServeCall, PrepareCount, MaterialiseStep, ReadStep, GuardApproved, GuardPending,
           CreateApproval, NewApproval, InvokeTool, RunCapability
  <2>3. ASSUME NEW r \in Reviewers, Reviewer(r) PROVE Kept
    BY <2>0, <2>3
       DEF Reviewer, Review, OpenReview, Decide, LinkTask, ResumeTask, EnqueueResumed
  <2>4. ASSUME NEW s \in Scans, Scanner(s) PROVE Kept
    BY <2>4
       DEF Scanner, Scan, ScanTasks, TimeoutTask, ScanApprovals, MarkExpired, LinkExpired, Overdue
  <2>5. CASE Creator \/ Operator \/ Clock
    BY <2>5 DEF Creator, EnqueueCreated, Operator, Patch, Clock, Elapse, Expire
  <2>6. CASE Faulty
    BY <2>0, <2>6
       DEF Faulty, WorkerCrash, WorkerDies, ServerCrash, LoseCall, HandlerThrows, NewApproval,
           QueryFails, SuccessThrows, QueryThrows, CreateThrows, ReviewThrows, ScanThrows
  <2> HIDE DEF Kept
  <2> QED
    BY <1>1, <2>1, <2>2, <2>3, <2>4, <2>5, <2>6 DEF Next
<1>2. TypeOK /\ [Next]_vars => [Kept]_vars
  BY <1>1
<1>3. Spec => []TypeOK
  BY TypeCorrect, PTL
<1>4. [Kept]_vars => [\A a \in Approvals : approval[a] \in Decisions => approval'[a] # "timeout"]_vars
  OBVIOUS
<1> QED
  BY <1>2, <1>3, <1>4, PTL DEF Spec, DecisionBeatsTimeout
=============================================================================
