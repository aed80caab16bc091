---------------------------- MODULE SessionProofs ----------------------------
(***************************************************************************)
(* Theorems of ChatSession, for any number of requests, errands and        *)
(* reviews that interleave with each other, with late handlers, with the   *)
(* worker's jobs and with the scan.                                        *)
(***************************************************************************)
EXTENDS ChatSession, FiniteSetTheorems, TLAPS

\* Whoever waits for a handler is known to; nobody waits for a late one.
Waited ==
    /\ \A r \in Requests : work[r] = "live" => request[r] = "wait"
    /\ \A v \in Reviews : work[v] = "live" => review[v] = "wait"

\* A review is about an approval there is, and its verdict fits how far it is.
Reviewed ==
    \A v \in Reviews :
      /\ review[v] \notin {"idle", "over"} => subject[v] \in Approvals /\ Asked(subject[v])
      /\ review[v] \in {"decide", "session", "task"} => verdict[v] \in {"approved", "rejected"}
      /\ review[v] \in {"resume", "enqueue", "handle"} => verdict[v] = "approved"
      /\ review[v] \in {"settle", "fail"} => verdict[v] \in {"active", "failed"}
      /\ review[v] = "enqueue" => linked[subject[v]] \in Tasks
      /\ review[v] = "handle" => subject[v] \in Requests

\* Until a message has been orchestrated its handler has not run, and when an
\* approval has been asked for that is over.
AskedAtTheEnd ==
    \A r \in Requests :
      /\ Asked(r) => request[r] = "over"
      /\ request[r] \in {"new", "route", "park", "find", "mark", "ask", "handle"} => ran[r] = 0

\* Reviews that have granted a run of a request that is still to come.
Credit(r) ==
    {v \in Reviews : /\ subject[v] = r /\ verdict[v] = "approved"
                     /\ review[v] \in {"session", "task", "resume", "handle"}}

Granted == \A r \in Requests : Asked(r) => ran[r] + Cardinality(Credit(r)) <= grants[r]

ScanHasHits == scan # "idle" => hits # {}

\* Once the scan has failed the session, whoever parks it anew has a reason of
\* his own, not those the scan is still going through.
SomeoneReleases ==
    \/ \E a \in Approvals : approval[a] = "pending"
    \/ \E r \in Requests : request[r] \in {"find", "mark", "ask"}
    \/ \E v \in Reviews : review[v] = "session"

ParkedForAReason ==
    session = "pending_confirm" /\ ~stray /\ scan \in {"idle", "task"} /\ faults = NoFaultYet
      => SomeoneReleases

IInv == /\ TypeOK /\ Waited /\ Reviewed /\ AskedAtTheEnd /\ Granted
        /\ ScanHasHits /\ ParkedForAReason

LEMMA Names ==
  /\ Requests \subseteq Approvals /\ Runners \subseteq Tasks /\ Errands \subseteq Tasks
  /\ \A x \in Tasks : Step(x) \in Approvals /\ Step(x) \notin Requests
BY RunnersAssumption DEF Approvals, Steps, Step, Tasks

LEMMA StrikesType ==
  ASSUME faults \in [FaultKind -> Nat], NEW f \in FaultKind, Strikes(f)
  PROVE  faults' \in [FaultKind -> Nat] /\ faults' # NoFaultYet
BY DEF Strikes, NoFaultYet

LEMMA SetTaskType ==
  ASSUME TypeOK, NEW x, NEW status \in TaskStatus, SetTask(x, status)
  PROVE  task' \in [Tasks -> TaskStatus \cup {"none"}]
BY DEF TypeOK, SetTask

LEMMA BeginsType ==
  ASSUME TypeOK, NEW x \in Runners, NEW r \in Requests, Begins(x, r)
  PROVE  /\ work' \in [Runners -> {"none", "live", "late", "done"}]
         /\ task' \in [Tasks -> TaskStatus \cup {"none"}]
         /\ order' \in Seq(Tasks) /\ ran' \in [Requests -> Nat]
         /\ UNCHANGED <<jobs, serving>>
<1>1. work' \in [Runners -> {"none", "live", "late", "done"}] /\ ran' \in [Requests -> Nat]
  BY DEF TypeOK, Begins
<1>2. task' \in [Tasks -> TaskStatus \cup {"none"}]
  BY Names DEF TypeOK, Begins, TaskStatus
<1>3. order \in Seq(Tasks) /\ Append(order, x) \in Seq(Tasks)
  BY Names DEF TypeOK
<1> QED
  BY <1>1, <1>2, <1>3 DEF Begins

(***************************************************************************)
(* Type correctness.                                                       *)
(***************************************************************************)
LEMMA RequestType ==
  ASSUME TypeOK, NEW r \in Requests, SendMessage(r) \/ OfRequest(r) \/ RequestThrows(r)
  PROVE  TypeOK'
<1> USE DEF sessionVars, RequestOnly, requestVars, reviewVars, scanVars, taskVars
<1>1. request' \in [Requests -> RequestPc]
  <2>1. \E from, to \in RequestPc : RequestGoes(r, from, to)
    <3>1. CASE SendMessage(r) \/ Decide(r) \/ Park(r) \/ FindTask(r) \/ MarkTask(r) \/ Ask(r)
      BY <3>1 DEF SendMessage, Decide, Park, FindTask, MarkTask, Ask, RequestPc
    <3>2. CASE Handle(r) \/ TimeOut(r) \/ Reply(r) \/ Catch(r)
      BY <3>2 DEF Handle, TimeOut, Reply, Catch, RequestPc
    <3>3. CASE RequestThrows(r)
      BY <3>3 DEF RequestThrows, RequestPc
    <3> QED
      BY <3>1, <3>2, <3>3 DEF OfRequest
  <2> QED
    BY <2>1 DEF RequestGoes, TypeOK
<1>2. CASE SendMessage(r) \/ Decide(r) \/ Park(r) \/ Reply(r) \/ Catch(r)
  BY <1>1, <1>2 DEF TypeOK, SendMessage, Decide, Park, Reply, Catch, SetSession, SessionStatus
<1>3. CASE FindTask(r)
  <2>1. \A i \in Open : order[i] \in Tasks
    BY DEF Open, TypeOK
  <2>2. linked' \in [Approvals -> Tasks \cup {None}]
    BY <1>3, <2>1 DEF FindTask, TypeOK
  <2> QED
    BY <1>1, <1>3, <2>2 DEF FindTask, TypeOK
<1>4. CASE MarkTask(r)
  BY <1>1, <1>4, SetTaskType DEF MarkTask, TypeOK, TaskStatus
<1>5. CASE Ask(r)
  <2>1. faults' \in [FaultKind -> Nat]
    BY <1>5, StrikesType DEF Ask, TypeOK, FaultKind
  <2> QED
    BY <1>1, <1>5, <2>1 DEF Ask, TypeOK, ApprovalStatus
<1>6. CASE Handle(r)
  <2>1. r \in Runners
    BY DEF Runners
  <2> QED
    BY <1>1, <1>6, <2>1, BeginsType DEF Handle, TypeOK
<1>7. CASE TimeOut(r)
  BY <1>1, <1>7 DEF TimeOut, TypeOK
<1>8. CASE RequestThrows(r)
  <2>1. faults' \in [FaultKind -> Nat]
    BY <1>8, StrikesType DEF RequestThrows, TypeOK, FaultKind
  <2> QED
    BY <1>1, <1>8, <2>1 DEF RequestThrows, TypeOK
<1> QED
  BY <1>2, <1>3, <1>4, <1>5, <1>6, <1>7, <1>8 DEF OfRequest

LEMMA ReviewType ==
  ASSUME TypeOK, Reviewed, NEW v \in Reviews, OpenReview(v) \/ OfReview(v) \/ ReviewThrows(v)
  PROVE  TypeOK'
<1> USE DEF sessionVars, ReviewOnly, requestVars, scanVars, taskVars
<1>0. v \in Runners
  BY DEF Runners
<1>1. /\ review' \in [Reviews -> ReviewPc] /\ subject' \in [Reviews -> Approvals \cup {None}]
      /\ verdict' \in [Reviews -> {"approved", "rejected", "active", "failed"}]
  <2> USE DEF TypeOK, ReviewPc, ReviewGoes, ReviewEnds
  <2>1. CASE OpenReview(v)
    BY <2>1 DEF OpenReview
  <2>2. CASE OfReview(v)
    BY <2>2 DEF OfReview, Submit, LinkSession, LinkTask, Resume, Enqueue, ResumeHandler,
                ResumeTimesOut, SettleSession, SettleTask
  <2>3. CASE ReviewThrows(v)
    BY <2>3 DEF ReviewThrows
  <2> QED
    BY <2>1, <2>2, <2>3
<1>2. CASE OpenReview(v)
  BY <1>1, <1>2 DEF OpenReview, TypeOK
<1>3. CASE Submit(v)
  <2>1. subject[v] \in Approvals /\ verdict[v] \in {"approved", "rejected"}
    BY <1>3 DEF Submit, ReviewGoes, Reviewed
  <2>2. approval' \in [Approvals -> ApprovalStatus \cup {"none"}]
    BY <1>3, <2>1 DEF Submit, TypeOK, ApprovalStatus
  <2>3. grants' \in [Approvals -> Nat]
    BY <1>3, <2>1 DEF Submit, TypeOK
  <2> QED
    BY <1>1, <1>3, <2>2, <2>3 DEF Submit, TypeOK
<1>4. CASE LinkSession(v)
  BY <1>1, <1>4 DEF LinkSession, SetSession, TypeOK, SessionStatus
<1>5. CASE LinkTask(v)
  BY <1>1, <1>5, SetTaskType DEF LinkTask, TypeOK, TaskStatus
<1>6. CASE Resume(v)
  <2>1. task' \in [Tasks -> TaskStatus \cup {"none"}]
    BY <1>6, SetTaskType DEF Resume, TypeOK, TaskStatus
  <2> QED
    BY <1>1, <1>6, <2>1 DEF Resume, TypeOK
<1>7. CASE Enqueue(v)
  <2>1. linked[subject[v]] \in Tasks
    BY <1>7 DEF Enqueue, ReviewEnds, ReviewGoes, Reviewed
  <2> QED
    BY <1>1, <1>7, <2>1 DEF Enqueue, TypeOK
<1>8. CASE ResumeHandler(v)
  <2>1. subject[v] \in Requests
    BY <1>8 DEF ResumeHandler, ReviewGoes, Reviewed
  <2> QED
    BY <1>0, <1>1, <1>8, <2>1, BeginsType DEF ResumeHandler, TypeOK
<1>9. CASE ResumeTimesOut(v)
  BY <1>1, <1>9 DEF ResumeTimesOut, TypeOK
<1>10. CASE SettleSession(v)
  BY <1>1, <1>10 DEF SettleSession, SetSession, ReviewGoes, Reviewed, TypeOK, SessionStatus
<1>11. CASE SettleTask(v)
  BY <1>1, <1>11, SetTaskType DEF SettleTask, TypeOK, TaskStatus
<1>12. CASE ReviewThrows(v)
  <2>1. faults' \in [FaultKind -> Nat]
    BY <1>12, StrikesType DEF ReviewThrows, TypeOK, FaultKind
  <2> QED
    BY <1>1, <1>12, <2>1 DEF ReviewThrows, TypeOK
<1> QED
  BY <1>2, <1>3, <1>4, <1>5, <1>6, <1>7, <1>8, <1>9, <1>10, <1>11, <1>12 DEF OfReview

LEMMA WorkerType ==
  ASSUME TypeOK,
         \/ \E x \in Runners : HandlerEnds(x)
         \/ \E x \in Errands : CreateErrand(x)
         \/ \E x \in Tasks : OfJob(x) \/ GuardThrows(x)
         \/ OfScan \/ ScanThrows \/ Update \/ ServerDies \/ UNCHANGED vars
  PROVE  TypeOK'
<1> USE DEF sessionVars, requestVars, reviewVars, scanVars, taskVars
<1>1. ASSUME NEW x \in Runners, HandlerEnds(x)
      PROVE  TypeOK'
  <2>1. task' \in [Tasks -> TaskStatus \cup {"none"}]
    BY <1>1, SetTaskType DEF HandlerEnds, TypeOK, TaskStatus
  <2>2. request' \in [Requests -> RequestPc]
    BY <1>1 DEF HandlerEnds, TypeOK, RequestPc
  <2>3. review' \in [Reviews -> ReviewPc]
    BY <1>1 DEF HandlerEnds, TypeOK, ReviewPc
  <2>4. verdict' \in [Reviews -> {"approved", "rejected", "active", "failed"}]
    BY <1>1 DEF HandlerEnds, TypeOK
  <2>5. work' \in [Runners -> {"none", "live", "late", "done"}]
    BY <1>1 DEF HandlerEnds, TypeOK
  <2> QED
    BY <1>1, <2>1, <2>2, <2>3, <2>4, <2>5 DEF HandlerEnds, TypeOK
<1>2. ASSUME NEW x \in Errands, CreateErrand(x)
      PROVE  TypeOK'
  <2>1. task' \in [Tasks -> TaskStatus \cup {"none"}]
    BY <1>2, SetTaskType DEF CreateErrand, TaskStatus
  <2>2. order' \in Seq(Tasks) /\ jobs' \subseteq Tasks
    BY <1>2, Names DEF CreateErrand, TypeOK
  <2> QED
    BY <1>2, <2>1, <2>2 DEF CreateErrand, TypeOK
<1>8. ASSUME NEW x \in Tasks, OfJob(x) \/ GuardThrows(x)
      PROVE  TypeOK'
  <2> USE DEF JobLeaves
  <2>1. serving' \in [Tasks -> JobPc] /\ jobs' \subseteq Tasks
    BY <1>8 DEF OfJob, ServeJob, GuardStep, AskForStep, ParkForStep, EndJob, GuardThrows, JobGoes,
                TypeOK, JobPc
  <2>2. CASE ServeJob(x) \/ EndJob(x)
    <3>1. task' \in [Tasks -> TaskStatus \cup {"none"}]
      BY <2>2, SetTaskType DEF ServeJob, EndJob, TypeOK, TaskStatus
    <3> QED
      BY <2>1, <2>2, <3>1 DEF ServeJob, EndJob, TypeOK
  <2>3. CASE GuardStep(x) \/ AskForStep(x)
    <3>1. approval' \in [Approvals -> ApprovalStatus \cup {"none"}]
      BY <2>3 DEF GuardStep, AskForStep, TypeOK, ApprovalStatus
    <3> QED
      BY <2>1, <2>3, <3>1 DEF GuardStep, AskForStep, TypeOK
  <2>4. CASE ParkForStep(x)
    BY <2>1, <2>4 DEF ParkForStep, TypeOK, SessionStatus
  <2>5. CASE GuardThrows(x)
    <3>1. faults' \in [FaultKind -> Nat]
      BY <2>5, StrikesType DEF GuardThrows, TypeOK, FaultKind
    <3> QED
      BY <2>1, <2>5, <3>1 DEF GuardThrows, TypeOK
  <2> QED
    BY <1>8, <2>2, <2>3, <2>4, <2>5 DEF OfJob
<1>3. CASE ScanExpired \/ MarkExpired \/ FailSession
  BY <1>3 DEF ScanExpired, MarkExpired, FailSession, SetSession, Pending, TypeOK, SessionStatus,
              ApprovalStatus
<1>4. CASE FailTask
  <2>1. task' \in [Tasks -> TaskStatus \cup {"none"}]
    BY <1>4, SetTaskType DEF FailTask, TaskStatus
  <2>2. hits' \subseteq Approvals /\ scan' \in {"idle", "mark", "session", "task"}
    BY <1>4 DEF FailTask, TypeOK
  <2> QED
    BY <1>4, <2>1, <2>2 DEF FailTask, TypeOK
<1>5. CASE ScanThrows
  <2>1. faults' \in [FaultKind -> Nat]
    BY <1>5, StrikesType DEF ScanThrows, TypeOK, FaultKind
  <2> QED
    BY <1>5, <2>1 DEF ScanThrows, TypeOK
<1>6. CASE Update \/ UNCHANGED vars
  BY <1>6, UpdatesAssumption DEF Update, vars, TypeOK
<1>7. CASE ServerDies
  <2>1. faults' \in [FaultKind -> Nat]
    BY <1>7, StrikesType DEF ServerDies, TypeOK, FaultKind
  <2>4. serving' \in [Tasks -> JobPc]
    BY <1>7 DEF ServerDies, TypeOK, JobPc
  <2>2. /\ request' \in [Requests -> RequestPc] /\ review' \in [Reviews -> ReviewPc]
        /\ work' \in [Runners -> {"none", "live", "late", "done"}]
    BY <1>7 DEF ServerDies, TypeOK, RequestPc, ReviewPc
  <2>3. /\ subject' \in [Reviews -> Approvals \cup {None}]
        /\ verdict' \in [Reviews -> {"approved", "rejected", "active", "failed"}]
    BY <1>7 DEF ServerDies
  <2> QED
    BY <1>7, <2>1, <2>2, <2>3, <2>4 DEF ServerDies, TypeOK
<1> QED
  BY <1>1, <1>2, <1>3, <1>4, <1>5, <1>6, <1>7, <1>8 DEF OfScan

LEMMA NextType ==
  ASSUME TypeOK, Reviewed, [Next]_vars
  PROVE  TypeOK'
BY RequestType, ReviewType, WorkerType DEF Next

(***************************************************************************)
(* The initial states, and who is waited for.                              *)
(***************************************************************************)
LEMMA InitInvariant == Init => IInv
<1> SUFFICES ASSUME Init PROVE IInv
  OBVIOUS
<1>1. TypeOK
  <2>1. /\ session \in SessionStatus /\ request \in [Requests -> RequestPc]
        /\ review \in [Reviews -> ReviewPc] /\ faults \in [FaultKind -> Nat]
    BY DEF Init, SessionStatus, RequestPc, ReviewPc, NoFaultYet
  <2>2. /\ approval \in [Approvals -> ApprovalStatus \cup {"none"}]
        /\ subject \in [Reviews -> Approvals \cup {None}]
        /\ verdict \in [Reviews -> {"approved", "rejected", "active", "failed"}]
        /\ task \in [Tasks -> TaskStatus \cup {"none"}]
        /\ serving \in [Tasks -> JobPc]
    BY DEF Init, JobPc
  <2>3. linked \in [Approvals -> Tasks \cup {None}]
    <3>1. \A a \in Approvals : a \in Requests \/ a[1] \in Tasks
      BY DEF Approvals, Steps
    <3> QED
      BY <3>1 DEF Init
  <2>4. grants \in [Approvals -> Nat] /\ ran \in [Requests -> Nat]
    BY DEF Init
  <2>5. order \in Seq(Tasks) /\ jobs \subseteq Tasks /\ hits \subseteq Approvals
    BY DEF Init
  <2>7. stray \in BOOLEAN
    BY Zenon DEF Init
  <2>6. /\ work \in [Runners -> {"none", "live", "late", "done"}]
        /\ scan \in {"idle", "mark", "session", "task"}
    BY DEF Init
  <2> QED
    BY <2>1, <2>2, <2>3, <2>4, <2>5, <2>6, <2>7 DEF TypeOK
<1>2. /\ \A r \in Requests : request[r] = "new" /\ approval[r] = "none" /\ ran[r] = 0
      /\ \A v \in Reviews : review[v] = "idle"
      /\ \A x \in Runners : work[x] = "none"
  BY Names DEF Init
<1>3. session = "active" /\ scan = "idle"
  BY DEF Init
<1> QED
  BY <1>1, <1>2, <1>3 DEF IInv, Waited, Reviewed, AskedAtTheEnd, Granted, ScanHasHits,
                          ParkedForAReason, Asked, Runners

\* The steps that leave requests, reviews and handlers where they are.
OfOthers ==
    \/ \E x \in Errands : CreateErrand(x)
    \/ \E x \in Tasks : OfJob(x) \/ GuardThrows(x)
    \/ OfScan \/ ScanThrows \/ Update \/ UNCHANGED vars

LEMMA OthersLeave ==
  ASSUME OfOthers
  PROVE  UNCHANGED <<request, linked, review, subject, verdict, work, grants, ran>>
BY DEF OfOthers, CreateErrand, OfJob, ServeJob, GuardStep, AskForStep, ParkForStep, EndJob,
       GuardThrows, JobLeaves, OfScan, ScanExpired, MarkExpired, FailSession, FailTask,
       ScanThrows, Update, vars, requestVars, reviewVars

\* Of the approvals they only let some expire, or create one for a step.
LEMMA OthersAsk ==
  ASSUME TypeOK, OfOthers
  PROVE  \A a \in Approvals : \/ approval'[a] = approval[a]
                              \/ approval[a] = "pending" /\ approval'[a] = "timeout"
                              \/ approval'[a] = "pending" /\ a \notin Requests
<1>1. ASSUME NEW x \in Tasks, AskForStep(x)
      PROVE  \A a \in Approvals : \/ approval'[a] = approval[a]
                                  \/ approval'[a] = "pending" /\ a \notin Requests
  BY <1>1, Names DEF AskForStep, TypeOK
<1>2. CASE MarkExpired
  BY <1>2 DEF MarkExpired, Pending
<1>3. CASE ~MarkExpired /\ ~\E x \in Tasks : AskForStep(x)
  <2>1. UNCHANGED approval
    BY <1>3 DEF OfOthers, CreateErrand, OfJob, ServeJob, GuardStep, ParkForStep, EndJob, GuardThrows,
                OfScan, ScanExpired, FailSession, FailTask, ScanThrows, Update, vars, requestVars
  <2> QED
    BY <2>1
<1> QED
  BY <1>1, <1>2, <1>3

LEMMA NextCases ==
  ASSUME [Next]_vars
  PROVE  \/ \E r \in Requests : SendMessage(r) \/ OfRequest(r) \/ RequestThrows(r)
         \/ \E v \in Reviews : OpenReview(v) \/ OfReview(v) \/ ReviewThrows(v)
         \/ \E x \in Runners : HandlerEnds(x)
         \/ ServerDies
         \/ OfOthers
BY DEF Next, OfOthers

LEMMA WaitedStep ==
  ASSUME TypeOK, Waited, [Next]_vars
  PROVE  Waited'
<1> USE DEF Waited, TypeOK
<1>0. Requests \subseteq Runners /\ Reviews \subseteq Runners /\ Requests \cap Reviews = {}
  BY RunnersAssumption DEF Runners
<1>1. ASSUME NEW r \in Requests, SendMessage(r) \/ OfRequest(r) \/ RequestThrows(r)
      PROVE  Waited'
  <2>1. UNCHANGED review
    BY <1>1 DEF SendMessage, OfRequest, Decide, Park, FindTask, MarkTask, Ask, Handle, TimeOut,
                Reply, Catch, RequestThrows, RequestOnly, reviewVars
  <2>2. CASE Handle(r) \/ TimeOut(r)
    <3>1. request'[r] = "wait" \/ work'[r] # "live"
      BY <1>0, <2>2 DEF Handle, Begins, TimeOut, RequestGoes
    <3>2. /\ \A y \in Runners \ {r} : work'[y] = work[y]
          /\ \A k \in Requests \ {r} : request'[k] = request[k]
      BY <2>2 DEF Handle, Begins, TimeOut, RequestGoes
    <3> QED
      BY <1>0, <2>1, <3>1, <3>2
  <2>3. CASE ~(Handle(r) \/ TimeOut(r))
    <3>1. UNCHANGED work /\ request[r] # "wait"
      BY <1>1, <2>3 DEF SendMessage, OfRequest, Decide, Park, FindTask, MarkTask, Ask, Reply, Catch,
                        RequestThrows, RequestGoes
    <3>2. \A k \in Requests \ {r} : request'[k] = request[k]
      BY <1>1, <2>3 DEF SendMessage, OfRequest, Decide, Park, FindTask, MarkTask, Ask, Reply, Catch,
                        RequestThrows, RequestGoes
    <3> QED
      BY <2>1, <3>1, <3>2
  <2> QED
    BY <2>2, <2>3
<1>2. ASSUME NEW v \in Reviews, OpenReview(v) \/ OfReview(v) \/ ReviewThrows(v)
      PROVE  Waited'
  <2> USE DEF ReviewGoes, ReviewEnds
  <2>1. UNCHANGED request
    BY <1>2 DEF OpenReview, OfReview, Submit, LinkSession, LinkTask, Resume, Enqueue, ResumeHandler,
                ResumeTimesOut, SettleSession, SettleTask, ReviewThrows, ReviewOnly, requestVars
  <2>2. CASE ResumeHandler(v) \/ ResumeTimesOut(v)
    <3>1. review'[v] = "wait" \/ work'[v] # "live"
      BY <1>0, <2>2 DEF ResumeHandler, Begins, ResumeTimesOut
    <3>2. /\ \A y \in Runners \ {v} : work'[y] = work[y]
          /\ \A k \in Reviews \ {v} : review'[k] = review[k]
      BY <2>2 DEF ResumeHandler, Begins, ResumeTimesOut
    <3> QED
      BY <1>0, <2>1, <3>1, <3>2
  <2>3. CASE ~(ResumeHandler(v) \/ ResumeTimesOut(v))
    <3>1. UNCHANGED work /\ review[v] # "wait"
      BY <1>2, <2>3 DEF OpenReview, OfReview, Submit, LinkSession, LinkTask, Resume, Enqueue,
                        SettleSession, SettleTask, ReviewThrows
    <3>2. \A k \in Reviews \ {v} : review'[k] = review[k]
      BY <1>2, <2>3 DEF OpenReview, OfReview, Submit, LinkSession, LinkTask, Resume, Enqueue,
                        SettleSession, SettleTask, ReviewThrows
    <3> QED
      BY <2>1, <3>1, <3>2
  <2> QED
    BY <2>2, <2>3
<1>3. ASSUME NEW x \in Runners, HandlerEnds(x)
      PROVE  Waited'
  <2>1. work'[x] # "live" /\ \A y \in Runners \ {x} : work'[y] = work[y]
    BY <1>3 DEF HandlerEnds
  <2>2. /\ \A r \in Requests \ {x} : request'[r] = request[r]
        /\ \A v \in Reviews \ {x} : review'[v] = review[v]
    BY <1>3 DEF HandlerEnds
  <2> QED
    BY <1>0, <2>1, <2>2
<1>4. CASE ServerDies
  <2>1. \A x \in Runners : work'[x] # "live"
    BY <1>4 DEF ServerDies
  <2> QED
    BY <1>0, <2>1
<1>5. CASE OfOthers
  BY <1>5, OthersLeave
<1> QED
  BY <1>1, <1>2, <1>3, <1>4, <1>5, NextCases

(***************************************************************************)
(* What a review is about, and how far it is.                              *)
(***************************************************************************)

\* An approval that has been asked for is not taken back.
LEMMA AskedStays ==
  ASSUME TypeOK, Reviewed, [Next]_vars
  PROVE  \A a \in Approvals : Asked(a) => Asked(a)'
<1> USE DEF Asked, TypeOK
<1>1. ASSUME NEW r \in Requests, SendMessage(r) \/ OfRequest(r) \/ RequestThrows(r)
      PROVE  \A k \in Approvals : Asked(k) => Asked(k)'
  BY <1>1 DEF SendMessage, OfRequest, Decide, Park, FindTask, MarkTask, Ask, Handle, TimeOut,
              Reply, Catch, RequestThrows
<1>2. ASSUME NEW v \in Reviews, OpenReview(v) \/ OfReview(v) \/ ReviewThrows(v)
      PROVE  \A k \in Approvals : Asked(k) => Asked(k)'
  <2>1. CASE Submit(v)
    <3>1. verdict[v] # "none" /\ approval' = [approval EXCEPT ![subject[v]] = verdict[v]]
      BY <2>1 DEF Submit, ReviewGoes, Reviewed
    <3> QED
      BY <3>1
  <2>2. CASE ~Submit(v)
    BY <1>2, <2>2 DEF OpenReview, OfReview, LinkSession, LinkTask, Resume, Enqueue, ResumeHandler,
                      ResumeTimesOut, SettleSession, SettleTask, ReviewThrows, ReviewOnly, requestVars
  <2> QED
    BY <2>1, <2>2
<1>3. CASE ServerDies \/ \E x \in Runners : HandlerEnds(x)
  BY <1>3 DEF HandlerEnds, ServerDies
<1>4. CASE OfOthers
  BY <1>4, OthersAsk
<1> QED
  BY <1>1, <1>2, <1>3, <1>4, NextCases

LEMMA ReviewedStep ==
  ASSUME TypeOK, Waited, Reviewed, AskedAtTheEnd, [Next]_vars
  PROVE  Reviewed'
<1> USE DEF TypeOK
<1>0. \A a \in Approvals : Asked(a) => Asked(a)'
  BY AskedStays
<1>1. ASSUME NEW r \in Requests, SendMessage(r) \/ OfRequest(r) \/ RequestThrows(r)
      PROVE  Reviewed'
  <2>1. UNCHANGED <<review, subject, verdict>>
    BY <1>1 DEF SendMessage, OfRequest, Decide, Park, FindTask, MarkTask, Ask, Handle, TimeOut,
                Reply, Catch, RequestThrows, RequestOnly, reviewVars
  <2>2. \A k \in Approvals : Asked(k) => linked'[k] = linked[k]
    BY <1>1, Names DEF SendMessage, OfRequest, Decide, Park, FindTask, MarkTask, Ask, Handle, TimeOut,
                Reply, Catch, RequestThrows, RequestGoes, AskedAtTheEnd
  <2> QED
    BY <1>0, <2>1, <2>2 DEF Reviewed
<1>2. ASSUME NEW v \in Reviews, OpenReview(v) \/ OfReview(v) \/ ReviewThrows(v)
      PROVE  Reviewed'
  <2> USE DEF ReviewGoes, ReviewEnds
  <2>1. UNCHANGED linked
    BY <1>2 DEF OpenReview, OfReview, Submit, LinkSession, LinkTask, Resume, Enqueue, ResumeHandler,
                ResumeTimesOut, SettleSession, SettleTask, ReviewThrows, ReviewOnly, requestVars
  <2>2. \A k \in Reviews \ {v} : /\ review'[k] = review[k] /\ subject'[k] = subject[k]
                                 /\ verdict'[k] = verdict[k]
    BY <1>2 DEF OpenReview, OfReview, Submit, LinkSession, LinkTask, Resume, Enqueue, ResumeHandler,
                ResumeTimesOut, SettleSession, SettleTask, ReviewThrows
  <2> DEFINE Fits ==
        /\ review[v] \notin {"idle", "over"} => subject[v] \in Approvals /\ Asked(subject[v])
        /\ review[v] \in {"decide", "session", "task"} => verdict[v] \in {"approved", "rejected"}
        /\ review[v] \in {"resume", "enqueue", "handle"} => verdict[v] = "approved"
        /\ review[v] \in {"settle", "fail"} => verdict[v] \in {"active", "failed"}
        /\ review[v] = "enqueue" => linked[subject[v]] \in Tasks
        /\ review[v] = "handle" => subject[v] \in Requests
  <2>3. Fits
    BY DEF Reviewed
  <2>4. CASE OpenReview(v)
    <3>1. subject'[v] \in Approvals /\ Asked(subject'[v]) /\ review'[v] = "decide"
          /\ verdict'[v] \in {"approved", "rejected"}
      BY <2>4 DEF OpenReview, Asked
    <3>2. Fits'
      BY <1>0, <2>4, <3>1 DEF OpenReview, ReviewOnly, requestVars, Asked
    <3> QED
      BY <1>0, <2>1, <2>2, <3>2 DEF Reviewed
  <2>5. CASE Submit(v) \/ LinkSession(v) \/ LinkTask(v) \/ Enqueue(v) \/ ResumeHandler(v)
             \/ ResumeTimesOut(v)
    <3>1. Fits'
      BY <1>0, <2>1, <2>3, <2>5 DEF Submit, LinkSession, LinkTask, Enqueue, ResumeHandler, ResumeTimesOut
    <3> QED
      BY <1>0, <2>1, <2>2, <3>1 DEF Reviewed
  <2>6. CASE Resume(v)
    <3>1. Fits'
      BY <1>0, <2>1, <2>3, <2>6 DEF Resume
    <3> QED
      BY <1>0, <2>1, <2>2, <3>1 DEF Reviewed
  <2>7. CASE SettleSession(v) \/ SettleTask(v) \/ ReviewThrows(v)
    <3>1. Fits'
      BY <1>0, <2>1, <2>3, <2>7 DEF SettleSession, SettleTask, ReviewThrows
    <3> QED
      BY <1>0, <2>1, <2>2, <3>1 DEF Reviewed
  <2> QED
    BY <1>2, <2>4, <2>5, <2>6, <2>7 DEF OfReview
<1>3. ASSUME NEW x \in Runners, HandlerEnds(x)
      PROVE  Reviewed'
  <2>1. UNCHANGED <<linked, subject>>
    BY <1>3 DEF HandlerEnds
  <2>2. \A v \in Reviews \ {x} : review'[v] = review[v] /\ verdict'[v] = verdict[v]
    BY <1>3 DEF HandlerEnds
  <2>3. ASSUME x \in Reviews
        PROVE  \/ review'[x] = review[x] /\ verdict'[x] = verdict[x]
               \/ /\ review[x] = "wait" /\ review'[x] = "settle"
                  /\ verdict'[x] \in {"active", "failed"}
    <3>1. x \notin Requests
      BY <2>3, RunnersAssumption
    <3> QED
      BY <1>3, <2>3, <3>1 DEF HandlerEnds, Waited
  <2> QED
    BY <1>0, <2>1, <2>2, <2>3 DEF Reviewed
<1>4. CASE ServerDies
  BY <1>4 DEF ServerDies, Reviewed
<1>5. CASE OfOthers
  BY <1>0, <1>5, OthersLeave DEF Reviewed
<1> QED
  BY <1>1, <1>2, <1>3, <1>4, <1>5, NextCases

(***************************************************************************)
(* Runs and grants.                                                        *)
(***************************************************************************)
LEMMA AskedAtTheEndStep ==
  ASSUME TypeOK, Waited, Reviewed, AskedAtTheEnd, [Next]_vars
  PROVE  AskedAtTheEnd'
<1> USE DEF TypeOK, Asked
<1> DEFINE Early == {"new", "route", "park", "find", "mark", "ask", "handle"}
           Ends(k) == /\ approval[k] # "none" => request[k] = "over"
                      /\ request[k] \in Early => ran[k] = 0
<1>0. \A k \in Requests : Ends(k)
  BY DEF AskedAtTheEnd
<1>1. ASSUME NEW r \in Requests, SendMessage(r) \/ OfRequest(r) \/ RequestThrows(r)
      PROVE  \A k \in Requests : Ends(k)'
  <2> USE DEF RequestGoes
  <2>1. \A k \in Requests \ {r} : approval'[k] = approval[k] /\ request'[k] = request[k]
                                  /\ ran'[k] = ran[k]
    BY <1>1, Names DEF SendMessage, OfRequest, Decide, Park, FindTask, MarkTask, Ask, Handle, Begins,
                TimeOut, Reply, Catch, RequestThrows
  <2>2. request[r] # "over"
    BY <1>1 DEF SendMessage, OfRequest, Decide, Park, FindTask, MarkTask, Ask, Handle,
                TimeOut, Reply, Catch, RequestThrows
  <2>3. approval'[r] # "none" => request'[r] = "over"
    BY <1>0, <1>1, <2>2 DEF SendMessage, OfRequest, Decide, Park, FindTask, MarkTask, Ask, Handle,
                TimeOut, Reply, Catch, RequestThrows
  <2>4. request'[r] \in Early => request[r] \in Early /\ ran'[r] = ran[r]
    BY <1>1 DEF SendMessage, OfRequest, Decide, Park, FindTask, MarkTask, Ask, Handle,
                TimeOut, Reply, Catch, RequestThrows
  <2> QED
    BY <1>0, <2>1, <2>3, <2>4
<1>2. ASSUME NEW v \in Reviews, OpenReview(v) \/ OfReview(v) \/ ReviewThrows(v)
      PROVE  \A k \in Requests : Ends(k)'
  <2>1. UNCHANGED request
    BY <1>2 DEF OpenReview, OfReview, Submit, LinkSession, LinkTask, Resume, Enqueue, ResumeHandler,
                ResumeTimesOut, SettleSession, SettleTask, ReviewThrows, ReviewOnly, requestVars
  <2>2. \A k \in Requests : ran'[k] = ran[k] \/ request[k] = "over"
    <3>1. CASE ResumeHandler(v)
      <4>1. request[subject[v]] = "over"
        BY <1>0, <3>1 DEF ResumeHandler, ReviewGoes, Reviewed
      <4> QED
        BY <3>1, <4>1 DEF ResumeHandler, Begins
    <3>2. CASE ~ResumeHandler(v)
      BY <1>2, <3>2 DEF OpenReview, OfReview, Submit, LinkSession, LinkTask, Resume, Enqueue,
                        ResumeTimesOut, SettleSession, SettleTask, ReviewThrows
    <3> QED
      BY <3>1, <3>2
  <2>3. \A k \in Requests : approval'[k] = approval[k] \/ request[k] = "over"
    <3>1. CASE Submit(v)
      <4>1. subject[v] \in Requests => request[subject[v]] = "over"
        BY <1>0, <3>1 DEF Submit, ReviewGoes, Reviewed
      <4> QED
        BY <3>1, <4>1, Names DEF Submit
    <3>2. CASE ~Submit(v)
      BY <1>2, <3>2 DEF OpenReview, OfReview, LinkSession, LinkTask, Resume, Enqueue, ResumeHandler,
                        ResumeTimesOut, SettleSession, SettleTask, ReviewThrows, ReviewOnly, requestVars
    <3> QED
      BY <3>1, <3>2
  <2> QED
    BY <1>0, <2>1, <2>2, <2>3
<1>3. ASSUME NEW x \in Runners, HandlerEnds(x)
      PROVE  \A k \in Requests : Ends(k)'
  <2>1. UNCHANGED <<approval, ran>>
    BY <1>3 DEF HandlerEnds
  <2>2. ASSUME NEW k \in Requests, request'[k] # request[k]
        PROVE  request[k] = "wait" /\ request'[k] = "reply"
    <3>1. x = k /\ work[k] = "live" /\ request'[k] = "reply"
      BY <1>3, <2>2 DEF HandlerEnds
    <3> QED
      BY <3>1 DEF Waited
  <2> QED
    BY <1>0, <2>1, <2>2
<1>4. CASE ServerDies
  <2>1. approval' = approval /\ ran' = ran
    BY <1>4 DEF ServerDies
  <2>2. \A k \in Requests : request'[k] = IF request[k] = "new" THEN "new" ELSE "over"
    BY <1>4 DEF ServerDies
  <2>3. \A k \in Requests : Ends(k)'
    BY <1>0, <2>1, <2>2
  <2> QED
    BY <2>3 DEF AskedAtTheEnd
<1>5. CASE OfOthers
  <2>1. \A k \in Requests : approval'[k] = approval[k] \/ approval[k] = "pending"
    BY <1>5, OthersAsk, Names
  <2>2. request' = request /\ ran' = ran
    BY <1>5, OthersLeave
  <2>3. \A k \in Requests : Ends(k)'
    BY <1>0, <2>1, <2>2
  <2> QED
    BY <2>3 DEF AskedAtTheEnd
<1> QED
  BY <1>1, <1>2, <1>3, <1>4, <1>5, NextCases DEF AskedAtTheEnd

LEMMA CreditIsFinite == \A r : IsFiniteSet(Credit(r)) /\ Cardinality(Credit(r)) \in Nat
<1> TAKE r
<1>1. Credit(r) \in SUBSET Reviews
  BY DEF Credit
<1>2. IsFiniteSet(Credit(r))
  BY <1>1, ReviewsAssumption, FS_Subset
<1> QED
  BY <1>2, FS_CardinalityType

\* Where no credit is gained and nothing runs, nothing has to be granted.
LEMMA NothingGranted ==
  ASSUME TypeOK, TypeOK', NEW r \in Requests, Credit(r)' \subseteq Credit(r),
         ran'[r] <= ran[r], grants[r] <= grants'[r],
         ran[r] + Cardinality(Credit(r)) <= grants[r]
  PROVE  ran'[r] + Cardinality(Credit(r)') <= grants'[r]
<1>1. Cardinality(Credit(r)') <= Cardinality(Credit(r)) /\ Cardinality(Credit(r)') \in Nat
      /\ Cardinality(Credit(r)) \in Nat
  BY CreditIsFinite, FS_Subset, FS_CardinalityType
<1>2. ran[r] \in Nat /\ ran'[r] \in Nat /\ grants[r] \in Nat /\ grants'[r] \in Nat
  BY Names DEF TypeOK
<1> QED
  BY <1>1, <1>2

LEMMA GrantedStep ==
  ASSUME TypeOK, TypeOK', Waited, Reviewed, AskedAtTheEnd, Granted, [Next]_vars
  PROVE  Granted'
<1> SUFFICES ASSUME NEW k \in Requests, Asked(k)'
             PROVE  ran'[k] + Cardinality(Credit(k)') <= grants'[k]
  BY DEF Granted
<1> DEFINE Within == ran'[k] + Cardinality(Credit(k)') <= grants'[k]
<1>0. Asked(k) => ran[k] + Cardinality(Credit(k)) <= grants[k]
  BY DEF Granted
<1>n. ran[k] \in Nat /\ grants[k] \in Nat /\ grants'[k] \in Nat /\ ran'[k] \in Nat
  BY Names DEF TypeOK
<1>1. ASSUME NEW r \in Requests, SendMessage(r) \/ OfRequest(r) \/ RequestThrows(r)
      PROVE  Within
  <2>1. UNCHANGED <<review, subject, verdict, grants>>
    BY <1>1 DEF SendMessage, OfRequest, Decide, Park, FindTask, MarkTask, Ask, Handle, TimeOut,
                Reply, Catch, RequestThrows, RequestOnly, reviewVars
  <2>2. Credit(k)' = Credit(k)
    BY <2>1 DEF Credit
  <2>3. CASE Asked(k)
    <3>1. ran'[k] = ran[k]
      BY <1>1, <2>3 DEF SendMessage, OfRequest, Decide, Park, FindTask, MarkTask, Ask, Handle, Begins,
                        TimeOut, Reply, Catch, RequestThrows, RequestGoes, AskedAtTheEnd, TypeOK
    <3> QED
      BY <1>0, <1>n, <2>1, <2>2, <2>3, <3>1
  <2>4. CASE ~Asked(k)
    <3>1. Ask(r) /\ k = r
      BY <1>1, <2>4, Names DEF SendMessage, OfRequest, Decide, Park, FindTask, MarkTask, Ask, Handle,
                        TimeOut, Reply, Catch, RequestThrows, Asked, TypeOK
    <3>2. ran[k] = 0 /\ ran'[k] = 0
      BY <3>1 DEF Ask, RequestGoes, AskedAtTheEnd
    <3>3. Credit(k) = {}
      BY <2>4 DEF Credit, Reviewed
    <3> QED
      BY <1>n, <2>2, <3>2, <3>3, FS_EmptySet
  <2> QED
    BY <2>3, <2>4
<1>2. ASSUME NEW v \in Reviews, OpenReview(v) \/ OfReview(v) \/ ReviewThrows(v)
      PROVE  Within
  <2> USE DEF ReviewGoes, ReviewEnds
  <2>1. Asked(k)
    <3>1. CASE Submit(v)
      <4>1. Asked(subject[v]) /\ approval' = [approval EXCEPT ![subject[v]] = verdict[v]]
        BY <3>1 DEF Submit, Reviewed
      <4> QED
        BY <4>1 DEF Asked, TypeOK
    <3>2. CASE ~Submit(v)
      BY <1>2, <3>2 DEF OpenReview, OfReview, LinkSession, LinkTask, Resume, Enqueue, ResumeHandler,
                        ResumeTimesOut, SettleSession, SettleTask, ReviewThrows, ReviewOnly,
                        requestVars, Asked
    <3> QED
      BY <3>1, <3>2
  <2>2. \A w \in Reviews \ {v} : /\ review'[w] = review[w] /\ subject'[w] = subject[w]
                                 /\ verdict'[w] = verdict[w]
    BY <1>2 DEF OpenReview, OfReview, Submit, LinkSession, LinkTask, Resume, Enqueue, ResumeHandler,
                ResumeTimesOut, SettleSession, SettleTask, ReviewThrows, TypeOK
  <2>3. CASE Submit(v)
    <3>1. subject[v] \in Approvals /\ UNCHANGED <<subject, verdict, ran>>
      BY <2>3 DEF Submit, Reviewed
    <3>2. CASE subject[v] = k /\ verdict[v] = "approved"
      <4>1. grants'[k] = grants[k] + 1
        BY <2>3, <3>2, Names DEF Submit, TypeOK
      <4>2. Credit(k)' \subseteq Credit(k) \cup {v}
        BY <2>2 DEF Credit
      <4>3. /\ IsFiniteSet(Credit(k) \cup {v})
            /\ Cardinality(Credit(k) \cup {v}) <= Cardinality(Credit(k)) + 1
        BY CreditIsFinite, FS_AddElement
      <4>4. /\ Cardinality(Credit(k)') <= Cardinality(Credit(k) \cup {v})
            /\ Cardinality(Credit(k) \cup {v}) \in Nat /\ Cardinality(Credit(k)') \in Nat
            /\ Cardinality(Credit(k)) \in Nat
        BY <4>2, <4>3, CreditIsFinite, FS_Subset, FS_CardinalityType
      <4> QED
        BY <1>0, <1>n, <2>1, <3>1, <4>1, <4>3, <4>4
    <3>3. CASE ~(subject[v] = k /\ verdict[v] = "approved")
      <4>1. Credit(k)' \subseteq Credit(k)
        BY <2>2, <3>1, <3>3 DEF Credit
      <4>2. grants'[k] = grants[k]
        BY <2>3, <3>1, <3>3, Names DEF Submit, TypeOK
      <4> QED
        BY <1>0, <1>n, <2>1, <3>1, <4>1, <4>2, NothingGranted
    <3> QED
      BY <3>2, <3>3
  <2>4. CASE ResumeHandler(v)
    <3>1. subject[v] \in Requests /\ verdict[v] = "approved"
      BY <2>4 DEF ResumeHandler, Reviewed
    <3>2. UNCHANGED <<subject, verdict, grants>> /\ review[v] = "handle" /\ review'[v] = "wait"
      BY <2>4 DEF ResumeHandler, TypeOK
    <3>3. CASE subject[v] = k
      <4>1. ran'[k] = ran[k] + 1
        BY <2>4, <3>3 DEF ResumeHandler, Begins, TypeOK
      <4>2. v \in Credit(k) /\ Credit(k)' \subseteq Credit(k) \ {v}
        BY <2>2, <3>1, <3>2, <3>3 DEF Credit
      <4>3. /\ IsFiniteSet(Credit(k) \ {v})
            /\ Cardinality(Credit(k) \ {v}) = Cardinality(Credit(k)) - 1
        BY <4>2, CreditIsFinite, FS_RemoveElement
      <4>4. /\ Cardinality(Credit(k)') <= Cardinality(Credit(k) \ {v})
            /\ Cardinality(Credit(k)') \in Nat /\ Cardinality(Credit(k)) \in Nat
        BY <4>2, <4>3, CreditIsFinite, FS_Subset, FS_CardinalityType
      <4> QED
        BY <1>0, <1>n, <2>1, <3>2, <4>1, <4>3, <4>4
    <3>4. CASE subject[v] # k
      <4>1. Credit(k)' \subseteq Credit(k)
        BY <2>2, <3>2, <3>4 DEF Credit
      <4>2. ran'[k] = ran[k]
        BY <2>4, <3>4 DEF ResumeHandler, Begins, TypeOK
      <4> QED
        BY <1>0, <1>n, <2>1, <3>2, <4>1, <4>2, NothingGranted
    <3> QED
      BY <3>3, <3>4
  <2>5. CASE ~(Submit(v) \/ ResumeHandler(v))
    <3>1. UNCHANGED <<grants, ran>>
      BY <1>2, <2>5 DEF OpenReview, OfReview, LinkSession, LinkTask, Resume, Enqueue, ResumeTimesOut,
                        SettleSession, SettleTask, ReviewThrows
    <3>2. v \in Credit(k)' => v \in Credit(k)
      BY <1>2, <2>5 DEF OpenReview, OfReview, LinkSession, LinkTask, Resume, Enqueue, ResumeTimesOut,
                        SettleSession, SettleTask, ReviewThrows, Credit, TypeOK
    <3>3. Credit(k)' \subseteq Credit(k)
      BY <2>2, <3>2 DEF Credit
    <3> QED
      BY <1>0, <1>n, <2>1, <3>1, <3>3, NothingGranted
  <2> QED
    BY <2>3, <2>4, <2>5
<1>3. ASSUME NEW x \in Runners, HandlerEnds(x)
      PROVE  Within
  <2>1. UNCHANGED <<approval, subject, grants, ran>>
    BY <1>3 DEF HandlerEnds
  <2>2. \A v \in Reviews : \/ review'[v] = review[v] /\ verdict'[v] = verdict[v]
                           \/ review'[v] = "settle"
    BY <1>3 DEF HandlerEnds, TypeOK
  <2>3. Credit(k)' \subseteq Credit(k)
    BY <2>1, <2>2 DEF Credit
  <2> QED
    BY <1>0, <1>n, <2>1, <2>3, NothingGranted DEF Asked
<1>4. CASE ServerDies
  <2>1. UNCHANGED <<approval, grants, ran>> /\ Credit(k)' = {}
    BY <1>4 DEF ServerDies, Credit
  <2>2. Asked(k) /\ Credit(k)' \subseteq Credit(k) /\ ran'[k] = ran[k] /\ grants'[k] = grants[k]
    BY <2>1 DEF Asked
  <2> QED
    BY <1>0, <1>n, <2>2, NothingGranted
<1>5. CASE OfOthers
  <2>1. Asked(k)
    BY <1>5, OthersAsk, Names DEF Asked
  <2>2. UNCHANGED <<review, subject, verdict, grants, ran>>
    BY <1>5, OthersLeave
  <2>3. Credit(k)' = Credit(k)
    BY <2>2 DEF Credit
  <2> QED
    BY <1>0, <2>1, <2>2, <2>3
<1> QED
  BY <1>1, <1>2, <1>3, <1>4, <1>5, NextCases

(***************************************************************************)
(* The parked session.                                                     *)
(***************************************************************************)
LEMMA ScanHasHitsStep ==
  ASSUME TypeOK, ScanHasHits, [Next]_vars
  PROVE  ScanHasHits'
<1> USE DEF ScanHasHits
<1>1. CASE OfScan
  <2>1. CASE ScanExpired
    BY <2>1 DEF ScanExpired
  <2>2. CASE MarkExpired \/ FailSession
    BY <2>2 DEF MarkExpired, FailSession
  <2>3. CASE FailTask
    BY <2>3 DEF FailTask
  <2> QED
    BY <1>1, <2>1, <2>2, <2>3 DEF OfScan
<1>2. CASE ~OfScan
  <2>1. UNCHANGED scanVars \/ scan' = "idle"
    <3>1. ASSUME NEW r \in Requests, SendMessage(r) \/ OfRequest(r) \/ RequestThrows(r)
          PROVE  UNCHANGED scanVars
      BY <3>1 DEF SendMessage, OfRequest, Decide, Park, FindTask, MarkTask, Ask, Handle, TimeOut,
                  Reply, Catch, RequestThrows, RequestOnly
    <3>2. ASSUME NEW v \in Reviews, OpenReview(v) \/ OfReview(v) \/ ReviewThrows(v)
          PROVE  UNCHANGED scanVars
      BY <3>2 DEF OpenReview, OfReview, Submit, LinkSession, LinkTask, Resume, Enqueue, ResumeHandler,
                  ResumeTimesOut, SettleSession, SettleTask, ReviewThrows, ReviewOnly
    <3>3. CASE ServerDies \/ \E x \in Runners : HandlerEnds(x)
      BY <3>3 DEF ServerDies, HandlerEnds
    <3>4. CASE OfOthers
      BY <1>2, <3>4 DEF OfOthers, CreateErrand, OfJob, ServeJob, GuardStep, AskForStep, ParkForStep,
                        EndJob, GuardThrows, JobLeaves, ScanThrows, Update, vars, scanVars
    <3> QED
      BY <3>1, <3>2, <3>3, <3>4, NextCases
  <2> QED
    BY <2>1 DEF scanVars
<1> QED
  BY <1>1, <1>2

LEMMA ParkedForAReasonStep ==
  ASSUME TypeOK, Waited, Reviewed, ParkedForAReason, [Next]_vars
  PROVE  ParkedForAReason'
<1> SUFFICES ASSUME session' = "pending_confirm", ~stray', scan' \in {"idle", "task"}, faults' = NoFaultYet
             PROVE  SomeoneReleases'
  BY DEF ParkedForAReason
<1>0. session = "pending_confirm" /\ ~stray /\ scan \in {"idle", "task"} /\ faults = NoFaultYet
        => SomeoneReleases
  BY DEF ParkedForAReason
<1>s. /\ Strikes("db") => FALSE
      /\ Strikes("server") => FALSE
  BY StrikesType DEF TypeOK, FaultKind
<1> USE DEF SomeoneReleases, sessionVars
<1>1. ASSUME NEW r \in Requests, SendMessage(r) \/ OfRequest(r) \/ RequestThrows(r)
      PROVE  SomeoneReleases'
  <2> USE DEF RequestGoes, TypeOK
  <2>1. CASE Park(r)
    <3>1. request'[r] = "find"
      BY <2>1 DEF Park
    <3> QED
      BY <3>1
  <2>2. CASE SendMessage(r) \/ Decide(r) \/ FindTask(r) \/ MarkTask(r) \/ Handle(r) \/ TimeOut(r)
             \/ Reply(r)
    <3>1. UNCHANGED <<session, stray, approval, review, scan, faults>>
      BY <2>2 DEF SendMessage, Decide, FindTask, MarkTask, Handle, TimeOut, Reply, RequestOnly,
                  reviewVars, scanVars
    <3>2. \A k \in Requests : request[k] \in {"find", "mark", "ask"}
                                => request'[k] \in {"find", "mark", "ask"}
      BY <2>2 DEF SendMessage, Decide, FindTask, MarkTask, Handle, TimeOut, Reply
    <3> QED
      BY <1>0, <3>1, <3>2
  <2>3. CASE Ask(r)
    <3>1. approval'[r] = "pending"
      BY <1>s, <2>3, Names DEF Ask
    <3> QED
      BY <3>1, Names
  <2>4. CASE Catch(r)
    BY <2>4 DEF Catch, SetSession
  <2>5. CASE RequestThrows(r)
    BY <1>s, <2>5 DEF RequestThrows
  <2> QED
    BY <1>1, <2>1, <2>2, <2>3, <2>4, <2>5 DEF OfRequest
<1>2. ASSUME NEW v \in Reviews, OpenReview(v) \/ OfReview(v) \/ ReviewThrows(v)
      PROVE  SomeoneReleases'
  <2> USE DEF ReviewGoes, ReviewEnds
  <2>1. CASE Submit(v)
    <3>1. review'[v] = "session"
      BY <2>1 DEF Submit, TypeOK
    <3> QED
      BY <3>1
  <2>2. CASE LinkSession(v)
    BY <2>2 DEF LinkSession, SetSession
  <2>3. CASE SettleSession(v)
    BY <2>3 DEF SettleSession, SetSession, Reviewed
  <2>4. CASE ReviewThrows(v)
    BY <1>s, <2>4 DEF ReviewThrows
  <2>5. CASE OpenReview(v) \/ LinkTask(v) \/ Resume(v) \/ Enqueue(v) \/ ResumeHandler(v)
             \/ ResumeTimesOut(v) \/ SettleTask(v)
    <3>1. UNCHANGED <<session, stray, approval, request, scan, faults>>
      BY <2>5 DEF OpenReview, LinkTask, Resume, Enqueue, ResumeHandler, ResumeTimesOut, SettleTask,
                  ReviewOnly, requestVars, scanVars
    <3>2. \A w \in Reviews : review[w] = "session" => review'[w] = "session"
      BY <2>5 DEF OpenReview, LinkTask, Resume, Enqueue, ResumeHandler, ResumeTimesOut, SettleTask, TypeOK
    <3> QED
      BY <1>0, <3>1, <3>2
  <2> QED
    BY <1>2, <2>1, <2>2, <2>3, <2>4, <2>5 DEF OfReview
<1>3. ASSUME NEW x \in Runners, HandlerEnds(x)
      PROVE  SomeoneReleases'
  <2>1. UNCHANGED <<session, stray, approval, scan, faults>>
    BY <1>3 DEF HandlerEnds, scanVars
  <2>2. ASSUME NEW r \in Requests, request[r] \in {"find", "mark", "ask"}
        PROVE  request'[r] = request[r]
    BY <1>3, <2>2 DEF HandlerEnds, Waited, TypeOK
  <2>3. ASSUME NEW w \in Reviews, review[w] = "session"
        PROVE  review'[w] = "session"
    BY <1>3, <2>3 DEF HandlerEnds, Waited, TypeOK
  <2> QED
    BY <1>0, <2>1, <2>2, <2>3
<1>4. CASE ServerDies
  BY <1>4, <1>s DEF ServerDies
<1>5. CASE OfOthers
  <2>1. UNCHANGED <<request, review>>
    BY <1>5, OthersLeave
  <2>2. CASE ScanExpired \/ MarkExpired \/ FailSession \/ ScanThrows \/ Update
    BY <1>s, <2>2 DEF ScanExpired, MarkExpired, FailSession, SetSession, ScanThrows, Update
  <2>3. ASSUME NEW x \in Tasks, ParkForStep(x)
        PROVE  SomeoneReleases'
    <3>1. UNCHANGED <<approval, scan, faults>>
      BY <2>3 DEF ParkForStep, JobLeaves, scanVars
    <3>2. approval[Step(x)] = "pending" \/ (session = "pending_confirm" /\ ~stray)
      BY <2>3 DEF ParkForStep
    <3> QED
      BY <1>0, <2>1, <3>1, <3>2, Names
  <2>4. CASE ~(ScanExpired \/ MarkExpired \/ FailSession \/ ScanThrows \/ Update)
             /\ ~\E x \in Tasks : ParkForStep(x)
    <3>1. UNCHANGED <<session, stray, faults>> \/ \E x \in Tasks : GuardThrows(x)
      BY <1>5, <2>4 DEF OfOthers, OfScan, FailTask, CreateErrand, OfJob, ServeJob, GuardStep, AskForStep,
                        EndJob, vars
    <3>2. scan' = scan \/ scan = "task"
      BY <1>5, <2>4 DEF OfOthers, OfScan, FailTask, CreateErrand, OfJob, ServeJob, GuardStep, AskForStep,
                        EndJob, GuardThrows, JobLeaves, vars, scanVars
    <3>3. ~\E x \in Tasks : GuardThrows(x)
      BY <1>s DEF GuardThrows
    <3>4. \A a \in Approvals : approval[a] = "pending" => approval'[a] = "pending"
      <4>1. UNCHANGED approval \/ \E x \in Tasks : AskForStep(x)
        BY <1>5, <2>4, <3>3 DEF OfOthers, OfScan, FailTask, CreateErrand, OfJob, ServeJob, GuardStep,
                                EndJob, vars, requestVars
      <4> QED
        BY <4>1 DEF AskForStep, TypeOK
    <3> QED
      BY <1>0, <2>1, <3>1, <3>2, <3>3, <3>4
  <2> QED
    BY <2>2, <2>3, <2>4
<1> QED
  BY <1>1, <1>2, <1>3, <1>4, <1>5, NextCases

(***************************************************************************)
(* The theorems.                                                           *)
(***************************************************************************)
LEMMA Inductive == Spec => []IInv
<1>1. IInv /\ [Next]_vars => IInv'
  BY NextType, WaitedStep, ReviewedStep, AskedAtTheEndStep, GrantedStep, ScanHasHitsStep,
     ParkedForAReasonStep DEF IInv
<1> QED
  BY <1>1, InitInvariant, PTL DEF Spec

\* Every variable keeps its type; above all a session never takes the status of
\* an approval, which a review carries along until it ends.
THEOREM SessionTypeCorrect == Spec => []TypeOK
<1>1. IInv => TypeOK
  BY DEF IInv
<1> QED
  BY <1>1, Inductive, PTL

\* A request that needs a confirmation runs no oftener than it was approved,
\* however reviews, scans, timeouts and failures interleave.
THEOREM ApprovalsAreNeeded == Spec => []RunsAreGranted
<1>1. ASSUME IInv, NEW r \in Requests, Asked(r)
      PROVE  ran[r] <= grants[r]
  <2>1. ran[r] + Cardinality(Credit(r)) <= grants[r]
    BY <1>1 DEF IInv, Granted
  <2>2. ran[r] \in Nat /\ grants[r] \in Nat
    BY <1>1, Names DEF IInv, TypeOK
  <2> QED
    BY <2>1, <2>2, CreditIsFinite
<1>2. IInv => RunsAreGranted
  BY <1>1 DEF RunsAreGranted
<1> QED
  BY <1>2, Inductive, PTL

\* Whoever finds the session parked finds an approval that can release it, or
\* somebody is about to see to that, but for what a fault has cut short, what was
\* set by hand, and a step whose approval was decided before the guard parked.
THEOREM ParkedSessionsAreReleased == Spec => []ParkedHasApproval
<1>1. ASSUME IInv, session = "pending_confirm", ~stray, faults = NoFaultYet
      PROVE  \/ SomeoneReleases
             \/ \E a \in Approvals : a \in hits
  <2>1. CASE scan \in {"idle", "task"}
    BY <1>1, <2>1 DEF IInv, ParkedForAReason
  <2>2. CASE scan \notin {"idle", "task"}
    BY <1>1, <2>2 DEF IInv, ScanHasHits, TypeOK
  <2> QED
    BY <2>1, <2>2
<1>2. IInv => ParkedHasApproval
  BY <1>1 DEF ParkedHasApproval, SomeoneReleases
<1> QED
  BY <1>2, Inductive, PTL
=============================================================================
