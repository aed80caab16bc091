----------------------------- MODULE ChatSession -----------------------------
(***************************************************************************)
(* One chat session with several requests in flight: their orchestration,  *)
(* the confirmations they park the session for, the reviews of those, the  *)
(* handlers that run on after their time is up, the workflow tasks they    *)
(* create, tasks the task API has created for the session, the steps of    *)
(* both that the worker has confirmed, and its scan of expired approvals.  *)
(* What one request does on its way to the handler is in ChatRequest; here *)
(* its way through the session's shared rows is taken await by await.      *)
(***************************************************************************)
EXTENDS Faults, Sequences, FiniteSets

CONSTANTS
    Requests,   \* messages of the session
    Errands,    \* tasks the task API creates with the id of the session
    Reviews,    \* reviews of its approvals (bound)
    Updates,    \* the statuses somebody sets by hand
    None

Runners == Requests \cup Reviews
Tasks == Runners \cup Errands   \* a handler's task goes by who runs the handler

\* The approval a step of a task asks for; a task asks for one at most (bound).
Step(x) == <<x>>
Steps == {<<x>> : x \in Tasks}
Approvals == Requests \cup Steps

ASSUME RunnersAssumption ==
    /\ Requests \cap Reviews = {} /\ Runners \cap Errands = {}
    /\ Requests \cap Steps = {}
    /\ None \notin Tasks \cup Approvals
ASSUME ReviewsAssumption == IsFiniteSet(Reviews)

\* completed and cancelled are both "closed".
SessionStatus == {"active", "pending_confirm", "failed", "closed"}
ASSUME UpdatesAssumption == Updates \subseteq SessionStatus

TaskStatus == {"pending", "running", "pending_confirm", "completed", "failed"}
ApprovalStatus == {"pending", "approved", "rejected", "timeout"}
RequestPc == {"new", "route", "park", "find", "mark", "ask", "handle", "wait", "reply",
              "catch", "over"}
ReviewPc == {"idle", "decide", "session", "task", "resume", "enqueue", "handle", "wait",
             "settle", "settleTask", "fail", "failTask", "over"}
JobPc == {"idle", "run", "guard", "park", "parked", "failed"}

VARIABLES
    session,    \* session.status
    request,    \* where the orchestration of each message is
    approval,   \* what each message or step has asked for, "none" if nothing yet
    linked,     \* the task of each approval
    review, subject, verdict,   \* where each review is, of what, how it ends
    work,       \* the handler each request and each review runs
    task,       \* the status of each task, "none" if it has not been created
    order,      \* in the order of their creation
    jobs,       \* the tasks queued for the worker
    serving,    \* where the worker is with each task
    scan, hits, \* the scan of expired approvals, and what it has read
    \* History, read by properties only.
    grants, ran,    \* how often each was approved, and each handler run
    stray       \* parked only by hand, or for a step decided meanwhile

sessionVars == <<session, stray>>
requestVars == <<request, approval, linked>>
reviewVars == <<review, subject, verdict>>
taskVars == <<task, order, jobs, serving>>
scanVars == <<scan, hits>>
vars == <<sessionVars, requestVars, reviewVars, work, taskVars, scanVars, grants, ran, faults>>

TypeOK ==
    /\ session \in SessionStatus /\ stray \in BOOLEAN
    /\ request \in [Requests -> RequestPc]
    /\ approval \in [Approvals -> ApprovalStatus \cup {"none"}]
    /\ linked \in [Approvals -> Tasks \cup {None}]
    /\ review \in [Reviews -> ReviewPc]
    /\ subject \in [Reviews -> Approvals \cup {None}]
    /\ verdict \in [Reviews -> {"approved", "rejected", "active", "failed"}]
    /\ work \in [Runners -> {"none", "live", "late", "done"}]
    /\ task \in [Tasks -> TaskStatus \cup {"none"}]
    /\ order \in Seq(Tasks)
    /\ jobs \subseteq Tasks /\ serving \in [Tasks -> JobPc]
    /\ scan \in {"idle", "mark", "session", "task"} /\ hits \subseteq Approvals
    /\ grants \in [Approvals -> Nat] /\ ran \in [Requests -> Nat]
    /\ faults \in [FaultKind -> Nat]

Init ==
    /\ session = "active" /\ stray = FALSE
    /\ request = [r \in Requests |-> "new"]
    /\ approval = [a \in Approvals |-> "none"]
    /\ linked = [a \in Approvals |-> IF a \in Requests THEN None ELSE a[1]]
    /\ review = [v \in Reviews |-> "idle"]
    /\ subject = [v \in Reviews |-> None]
    /\ verdict = [v \in Reviews |-> "rejected"]
    /\ work = [x \in Runners |-> "none"]
    /\ task = [x \in Tasks |-> "none"]
    /\ order = <<>> /\ jobs = {} /\ serving = [x \in Tasks |-> "idle"]
    /\ scan = "idle" /\ hits = {}
    /\ grants = [a \in Approvals |-> 0]
    /\ ran = [r \in Requests |-> 0]
    /\ faults = NoFaultYet

RequestGoes(r, from, to) ==
    /\ request[r] = from
    /\ request' = [request EXCEPT ![r] = to]

ReviewGoes(v, from, to) ==
    /\ review[v] = from
    /\ review' = [review EXCEPT ![v] = to]

\* What a review that is over has read and decided is of no interest any more.
ReviewEnds(v, from) ==
    /\ ReviewGoes(v, from, "over")
    /\ subject' = [subject EXCEPT ![v] = None]
    /\ verdict' = [verdict EXCEPT ![v] = "rejected"]

RequestOnly == UNCHANGED <<reviewVars, scanVars, grants>>
ReviewOnly == UNCHANGED <<requestVars, scanVars>>

SetSession(status) == session' = status /\ stray' = FALSE

SetTask(x, status) == task' = IF x = None THEN task ELSE [task EXCEPT ![x] = status]

-----------------------------------------------------------------------------
\* A message: sendMessage and executeOrchestration.

SendMessage(r) ==
    /\ session \in {"active", "failed"}
    /\ RequestGoes(r, "new", "route")
    /\ RequestOnly
    /\ UNCHANGED <<sessionVars, approval, linked, work, taskVars, ran, faults>>

\* Routing and the policy lead to the handler, a confirmation or a refusal.
Decide(r) ==
    /\ \E there \in {"handle", "park", "reply"} : RequestGoes(r, "route", there)
    /\ RequestOnly
    /\ UNCHANGED <<sessionVars, approval, linked, work, taskVars, ran, faults>>

\* handleConfirmInterrupt: the session is parked, ...
Park(r) ==
    /\ RequestGoes(r, "park", "find")
    /\ SetSession("pending_confirm")
    /\ RequestOnly
    /\ UNCHANGED <<approval, linked, work, taskVars, ran, faults>>

Open == {i \in DOMAIN order : task[order[i]] \in {"pending", "running"}}

\* ... its latest open task is found, whoever has created it, ...
FindTask(r) ==
    /\ RequestGoes(r, "find", "mark")
    /\ \/ Open = {} /\ linked' = [linked EXCEPT ![r] = None]
       \/ \E i \in Open : /\ \A j \in Open : j <= i
                         /\ linked' = [linked EXCEPT ![r] = order[i]]
    /\ RequestOnly
    /\ UNCHANGED <<sessionVars, approval, work, taskVars, ran, faults>>

\* ... is parked too, whatever has become of it, ...
MarkTask(r) ==
    /\ RequestGoes(r, "mark", "ask")
    /\ SetTask(linked[r], "pending_confirm")
    /\ RequestOnly
    /\ UNCHANGED <<sessionVars, approval, linked, work, order, jobs, serving, ran, faults>>

\* ... and the approval is created; that it fails is only logged.
Ask(r) ==
    /\ RequestGoes(r, "ask", "over")
    /\ \/ approval' = [approval EXCEPT ![r] = "pending"] /\ UNCHANGED faults
       \/ Strikes("db") /\ UNCHANGED approval
    /\ RequestOnly
    /\ UNCHANGED <<sessionVars, linked, work, taskVars, ran>>

\* A handler begins; that of a workflow creates a task.
Begins(x, r) ==
    /\ work' = [work EXCEPT ![x] = "live"]
    /\ ran' = [ran EXCEPT ![r] = @ + 1]
    /\ \/ UNCHANGED <<task, order>>
       \/ task' = [task EXCEPT ![x] = "running"] /\ order' = Append(order, x)
    /\ UNCHANGED <<jobs, serving>>

Handle(r) ==
    /\ RequestGoes(r, "handle", "wait")
    /\ Begins(r, r)
    /\ RequestOnly
    /\ UNCHANGED <<sessionVars, approval, linked, faults>>

\* The time of the handler is up: it runs on, the request fails.
TimeOut(r) ==
    /\ RequestGoes(r, "wait", "catch")
    /\ work' = [work EXCEPT ![r] = "late"]
    /\ RequestOnly
    /\ UNCHANGED <<sessionVars, approval, linked, taskVars, ran, faults>>

\* The session keeps the status it has.
Reply(r) ==
    /\ RequestGoes(r, "reply", "over")
    /\ RequestOnly
    /\ UNCHANGED <<sessionVars, approval, linked, work, taskVars, ran, faults>>

\* A query of the orchestration throws.
RequestThrows(r) ==
    /\ \E from \in {"route", "park", "find", "mark", "handle", "reply"} :
         RequestGoes(r, from, "catch")
    /\ Strikes("db")
    /\ RequestOnly
    /\ UNCHANGED <<sessionVars, approval, linked, work, taskVars, ran>>

\* The catch block fails the session, whatever it is waiting for.
Catch(r) ==
    /\ RequestGoes(r, "catch", "over")
    /\ SetSession("failed")
    /\ RequestOnly
    /\ UNCHANGED <<approval, linked, work, taskVars, ran, faults>>

-----------------------------------------------------------------------------
\* A handler ends, whether somebody waits for it still or not.

HandlerEnds(x) ==
    /\ work[x] \in {"live", "late"}
    /\ work' = [work EXCEPT ![x] = "done"]
    /\ \E ending \in {"completed", "failed"} :
         /\ SetTask(IF task[x] = "none" THEN None ELSE x, ending)
         /\ IF x \in Requests
            THEN /\ request' = [request EXCEPT ![x] = IF work[x] = "live" THEN "reply" ELSE @]
                 /\ UNCHANGED <<review, verdict>>
            ELSE /\ review' = [review EXCEPT ![x] = IF work[x] = "live" THEN "settle" ELSE @]
                 /\ verdict' = [verdict EXCEPT ![x] =
                      IF work[x] = "late" THEN @
                      ELSE IF ending = "completed" THEN "active" ELSE "failed"]
                 /\ UNCHANGED request
    /\ UNCHANGED <<sessionVars, approval, linked, subject, order, jobs, serving, scanVars,
                   grants, ran, faults>>

-----------------------------------------------------------------------------
\* A review: submitConfirmation and resumeFromApproval.

OpenReview(v) ==
    /\ ReviewGoes(v, "idle", "decide")
    /\ \E a \in Approvals :
         /\ approval[a] = "pending"
         /\ subject' = [subject EXCEPT ![v] = a]
    /\ \E decision \in {"approved", "rejected"} : verdict' = [verdict EXCEPT ![v] = decision]
    /\ ReviewOnly
    /\ UNCHANGED <<sessionVars, work, taskVars, grants, ran, faults>>

\* approval.update: by id, whatever the status is by now.
Submit(v) ==
    LET a == subject[v] IN
    /\ ReviewGoes(v, "decide", "session")
    /\ approval' = [approval EXCEPT ![a] = verdict[v]]
    /\ grants' = IF verdict[v] = "approved" THEN [grants EXCEPT ![a] = @ + 1] ELSE grants
    /\ UNCHANGED <<sessionVars, request, linked, subject, verdict, work, taskVars, scanVars,
                   ran, faults>>

\* Mutant of LinkSession: a rejection leaves the session alone.
LinkSessionApproved(v) ==
    /\ ReviewGoes(v, "session", "task")
    /\ IF verdict[v] = "approved" THEN SetSession("active") ELSE UNCHANGED sessionVars
    /\ ReviewOnly
    /\ UNCHANGED <<subject, verdict, work, taskVars, grants, ran, faults>>

\* Mutant of LinkSession: the session takes the status of the approval.
LinkSessionVerdict(v) ==
    /\ ReviewGoes(v, "session", "task")
    /\ SetSession(verdict[v])
    /\ ReviewOnly
    /\ UNCHANGED <<subject, verdict, work, taskVars, grants, ran, faults>>

\* onApprovedLinkage and onRejectedLinkage: first the session, ...
LinkSession(v) ==
    /\ ReviewGoes(v, "session", "task")
    /\ SetSession(IF verdict[v] = "approved" THEN "active" ELSE "failed")
    /\ ReviewOnly
    /\ UNCHANGED <<subject, verdict, work, taskVars, grants, ran, faults>>

\* Mutant of LinkTask: a rejection goes on to resume the request.
LinkTaskNoReturn(v) ==
    /\ ReviewGoes(v, "task", "resume")
    /\ SetTask(linked[subject[v]], IF verdict[v] = "approved" THEN "running" ELSE "failed")
    /\ ReviewOnly
    /\ UNCHANGED <<sessionVars, subject, verdict, work, order, jobs, serving, grants, ran, faults>>

\* ... then the task; a rejection ends here.
LinkTask(v) ==
    /\ \/ verdict[v] = "approved" /\ ReviewGoes(v, "task", "resume") /\ UNCHANGED <<subject, verdict>>
       \/ verdict[v] = "rejected" /\ ReviewEnds(v, "task")
    /\ SetTask(linked[subject[v]], IF verdict[v] = "approved" THEN "running" ELSE "failed")
    /\ ReviewOnly
    /\ UNCHANGED <<sessionVars, work, order, jobs, serving, grants, ran, faults>>

\* Mutant of Resume: without a task to hand over the review is over.
ResumeSteps(v) ==
    /\ \/ ReviewGoes(v, "resume", "enqueue") /\ linked[subject[v]] # None
          /\ SetTask(linked[subject[v]], "pending") /\ UNCHANGED <<subject, verdict>>
       \/ ReviewEnds(v, "resume") /\ linked[subject[v]] = None /\ UNCHANGED task
    /\ ReviewOnly
    /\ UNCHANGED <<sessionVars, work, order, jobs, serving, grants, ran, faults>>

\* tryResumeWorkerTask: the task of a step, and a linked one that has a step,
\* go to the worker; only without one the request itself is resumed.
Resume(v) ==
    LET x == linked[subject[v]] IN
    /\ \/ /\ ReviewGoes(v, "resume", "enqueue")
          /\ x # None
          /\ SetTask(x, "pending")
       \/ /\ ReviewGoes(v, "resume", "handle")
          /\ subject[v] \in Requests
          /\ x \in Runners => work[x] # "done"   \* a handler that is done has had a step
          /\ UNCHANGED task
    /\ ReviewOnly
    /\ UNCHANGED <<sessionVars, subject, verdict, work, order, jobs, serving, grants, ran, faults>>

Enqueue(v) ==
    /\ ReviewEnds(v, "enqueue")
    /\ jobs' = jobs \cup {linked[subject[v]]}
    /\ ReviewOnly
    /\ UNCHANGED <<sessionVars, work, task, order, serving, grants, ran, faults>>

ResumeHandler(v) ==
    /\ ReviewGoes(v, "handle", "wait")
    /\ Begins(v, subject[v])
    /\ ReviewOnly
    /\ UNCHANGED <<sessionVars, subject, verdict, grants, faults>>

ResumeTimesOut(v) ==
    /\ ReviewGoes(v, "wait", "fail")
    /\ work' = [work EXCEPT ![v] = "late"]
    /\ verdict' = [verdict EXCEPT ![v] = "failed"]
    /\ ReviewOnly
    /\ UNCHANGED <<sessionVars, subject, taskVars, grants, ran, faults>>

\* The end of the resumption, or its catch block: the session, then the task.
SettleSession(v) ==
    /\ ReviewGoes(v, "settle", "settleTask") \/ ReviewGoes(v, "fail", "failTask")
    /\ SetSession(verdict[v])
    /\ ReviewOnly
    /\ UNCHANGED <<subject, verdict, work, taskVars, grants, ran, faults>>

SettleTask(v) ==
    /\ ReviewEnds(v, "settleTask") \/ ReviewEnds(v, "failTask")
    /\ SetTask(linked[subject[v]], IF verdict[v] = "active" THEN "completed" ELSE "failed")
    /\ ReviewOnly
    /\ UNCHANGED <<sessionVars, work, order, jobs, serving, grants, ran, faults>>

\* A query, or queue.add, throws.
ReviewThrows(v) ==
    /\ \/ \E from \in {"decide", "session", "task", "resume", "enqueue", "fail", "failTask"} :
            ReviewEnds(v, from)
       \/ \E from \in {"handle", "settle", "settleTask"} :
            ReviewGoes(v, from, "fail") /\ verdict' = [verdict EXCEPT ![v] = "failed"]
            /\ UNCHANGED subject
    /\ Strikes("db")
    /\ ReviewOnly
    /\ UNCHANGED <<sessionVars, work, taskVars, grants, ran>>

-----------------------------------------------------------------------------
\* The worker: its queue (external here, TaskSystem has the whole of it), the
\* server's guard of a step that needs a confirmation, and markExpiredApprovals.

JobLeaves == UNCHANGED <<request, linked, reviewVars, work, order, scanVars, grants, ran>>

JobGoes(x, from, to) ==
    /\ serving[x] = from
    /\ serving' = [serving EXCEPT ![x] = to]

\* TaskController.create: an asynchronous task goes to the queue.
CreateErrand(x) ==
    /\ task[x] = "none"
    /\ SetTask(x, "pending") /\ order' = Append(order, x)
    /\ jobs' = jobs \cup {x}
    /\ UNCHANGED <<sessionVars, requestVars, reviewVars, work, serving, scanVars, grants, ran,
                   faults>>

ServeJob(x) ==
    /\ x \in jobs
    /\ jobs' = jobs \ {x}
    /\ IF task[x] \in {"pending", "running"}
       THEN SetTask(x, "running") /\ JobGoes(x, "idle", "run")
       ELSE UNCHANGED <<task, serving>>
    /\ JobLeaves /\ UNCHANGED <<sessionVars, approval, faults>>

\* guardStepConfirmation: no approval of the task is approved, ...
GuardStep(x) ==
    /\ JobGoes(x, "run", "guard")
    /\ ~\E a \in Approvals : linked[a] = x /\ approval[a] = "approved"
    /\ JobLeaves /\ UNCHANGED <<sessionVars, approval, task, jobs, faults>>

\* ... one that is pending is waited for, otherwise one is created, ...
AskForStep(x) ==
    /\ IF \E a \in Approvals : linked[a] = x /\ approval[a] = "pending"
       THEN JobGoes(x, "guard", "parked") /\ UNCHANGED approval
       ELSE /\ JobGoes(x, "guard", "park")
            /\ approval[Step(x)] = "none"
            /\ approval' = [approval EXCEPT ![Step(x)] = "pending"]
    /\ JobLeaves /\ UNCHANGED <<sessionVars, task, jobs, faults>>

\* ... and the session is parked, whatever has become of the approval.
ParkForStep(x) ==
    /\ JobGoes(x, "park", "parked")
    /\ session' = "pending_confirm"
    /\ stray' = (approval[Step(x)] # "pending" /\ (session = "pending_confirm" => stray))
    /\ JobLeaves /\ UNCHANGED <<approval, task, jobs, faults>>

\* A query of the guard throws: the step has failed.
GuardThrows(x) ==
    /\ \E from \in {"guard", "park"} : JobGoes(x, from, "failed")
    /\ Strikes("db")
    /\ JobLeaves /\ UNCHANGED <<sessionVars, approval, task, jobs>>

\* The worker records how the job has ended; a failed one may be tried again.
EndJob(x) ==
    /\ \/ JobGoes(x, "run", "idle") /\ SetTask(x, "completed") /\ UNCHANGED jobs
       \/ JobGoes(x, "parked", "idle") /\ SetTask(x, "pending_confirm") /\ UNCHANGED jobs
       \/ /\ \E from \in {"run", "failed"} : JobGoes(x, from, "idle")
          /\ \/ SetTask(x, "failed") /\ UNCHANGED jobs
             \/ SetTask(x, "pending") /\ jobs' = jobs \cup {x}
    /\ JobLeaves /\ UNCHANGED <<sessionVars, approval, faults>>

Pending == {a \in Approvals : approval[a] = "pending"}

\* Approvals expire one by one.
ScanExpired ==
    /\ scan = "idle"
    /\ hits' \in (SUBSET Pending) \ {{}}
    /\ scan' = "mark"
    /\ UNCHANGED <<sessionVars, requestVars, reviewVars, work, taskVars, grants, ran, faults>>

MarkExpired ==
    /\ scan = "mark" /\ scan' = "session"
    /\ approval' = [a \in Approvals |-> IF a \in hits \cap Pending THEN "timeout" ELSE approval[a]]
    /\ UNCHANGED <<sessionVars, request, linked, reviewVars, work, taskVars, hits, grants, ran, faults>>

\* Mutant of FailSession: only the task is failed.
FailSessionNot ==
    /\ scan = "session" /\ scan' = "task"
    /\ UNCHANGED <<sessionVars, requestVars, reviewVars, work, taskVars, hits, grants, ran, faults>>

\* For each approval read, whatever it is by now: the session, ...
FailSession ==
    /\ scan = "session" /\ scan' = "task"
    /\ SetSession("failed")
    /\ UNCHANGED <<requestVars, reviewVars, work, taskVars, hits, grants, ran, faults>>

\* ... and the task.
FailTask ==
    /\ scan = "task"
    /\ \E a \in hits : hits' = hits \ {a} /\ SetTask(linked[a], "failed")
    /\ scan' = IF hits' = {} THEN "idle" ELSE "session"
    /\ UNCHANGED <<sessionVars, requestVars, reviewVars, work, order, jobs, serving, grants, ran, faults>>

ScanThrows ==
    /\ scan # "idle" /\ scan' = "idle" /\ hits' = {}
    /\ Strikes("db")
    /\ UNCHANGED <<sessionVars, requestVars, reviewVars, work, taskVars, grants, ran>>

\* SessionService.update: any status is set by hand, whatever is under way.
Update ==
    /\ session' \in Updates \ {session}
    /\ stray' = (session' = "pending_confirm")
    /\ UNCHANGED <<requestVars, reviewVars, work, taskVars, scanVars, grants, ran, faults>>

\* The API server dies with its requests, its reviews and its handlers.
ServerDies ==
    /\ Strikes("server")
    /\ request' = [r \in Requests |-> IF request[r] = "new" THEN "new" ELSE "over"]
    /\ review' = [v \in Reviews |-> IF review[v] = "idle" THEN "idle" ELSE "over"]
    /\ subject' = [v \in Reviews |-> None]
    /\ verdict' = [v \in Reviews |-> "rejected"]
    /\ work' = [x \in Runners |-> IF work[x] \in {"live", "late"} THEN "done" ELSE work[x]]
    /\ serving' = [x \in Tasks |-> IF serving[x] \in {"guard", "park"} THEN "failed" ELSE serving[x]]
    /\ UNCHANGED <<sessionVars, approval, linked, task, order, jobs, scanVars, grants, ran>>

-----------------------------------------------------------------------------
OfRequest(r) ==
    \/ Decide(r) \/ Park(r) \/ FindTask(r) \/ MarkTask(r) \/ Ask(r)
    \/ Handle(r) \/ TimeOut(r) \/ Reply(r) \/ Catch(r)

OfReview(v) ==
    \/ Submit(v) \/ LinkSession(v) \/ LinkTask(v) \/ Resume(v) \/ Enqueue(v)
    \/ ResumeHandler(v) \/ ResumeTimesOut(v) \/ SettleSession(v) \/ SettleTask(v)

OfJob(x) == ServeJob(x) \/ GuardStep(x) \/ AskForStep(x) \/ ParkForStep(x) \/ EndJob(x)

OfScan == ScanExpired \/ MarkExpired \/ FailSession \/ FailTask

Next ==
    \/ \E r \in Requests : SendMessage(r) \/ OfRequest(r) \/ RequestThrows(r)
    \/ \E v \in Reviews : OpenReview(v) \/ OfReview(v) \/ ReviewThrows(v)
    \/ \E x \in Runners : HandlerEnds(x)
    \/ \E x \in Errands : CreateErrand(x)
    \/ \E x \in Tasks : OfJob(x) \/ GuardThrows(x)
    \/ OfScan \/ ScanThrows \/ Update \/ ServerDies

\* What the server has begun it carries on, and the worker scans every minute.
\* Nobody has to send, review or close anything, and no job has to be served.
Fairness ==
    /\ \A r \in Requests : WF_vars(OfRequest(r))
    /\ \A v \in Reviews : WF_vars(OfReview(v))
    /\ WF_vars(OfScan)

Spec == Init /\ [][Next]_vars /\ Fairness

-----------------------------------------------------------------------------
Asked(a) == approval[a] # "none"

\* A request that was to be confirmed runs no oftener than it was approved:
\* no timeout, rejection or failure on the way lets it through.
RunsAreGranted ==
    \A r \in Requests : Asked(r) => ran[r] <= grants[r]

\* A parked session has an approval that can release it, unless a request, a
\* review or the scan is about to see to that.  The code parks it without one in
\* two ways only: by hand, and for a step whose approval was decided before the
\* guard got to the session.
ParkedHasApproval ==
    session = "pending_confirm" /\ ~stray =>
      \/ \E a \in Approvals : approval[a] = "pending" \/ a \in hits
      \/ \E r \in Requests : request[r] \in {"find", "mark", "ask"}
      \/ \E v \in Reviews : review[v] = "session"
      \/ faults # NoFaultYet

\* And such a session does not stay parked.
ParkedIsReleased ==
    session = "pending_confirm" /\ ~stray
      ~> session # "pending_confirm" \/ stray \/ faults # NoFaultYet

IsApproved(r) ==
    \E v \in Reviews : subject[v] = r /\ verdict[v] = "approved" /\ review[v] = "session"

\* A request that is approved runs, or at least the task its approval was
\* linked to goes back to the worker.
ApprovedIsCarried ==
    \A r \in Requests :
      IsApproved(r) ~> \/ ran[r] > 0
                       \/ \E x \in Tasks : linked[r] = x /\ (x \in jobs \/ serving[x] # "idle")
                       \/ faults # NoFaultYet
=============================================================================
