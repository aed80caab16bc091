---------------------------- MODULE Notification -----------------------------
(***************************************************************************)
(* Asynchronous notifications.  The API server announces that an approval  *)
(* is pending and, called by the worker, that a task completed or failed:  *)
(* it adds a job whose id is made of the event's type and the task, or,    *)
(* for an approval that belongs to no task, the approval.  The worker's    *)
(* NotificationProcessor sends the job's message and writes what came of   *)
(* it to the task's log, which is how it knows a message it has sent.      *)
(*                                                                         *)
(* Left out: alreadySent reads the last 30 notification entries of the     *)
(* task; a task is taken to have fewer.                                    *)
(***************************************************************************)
EXTENDS BullQueue, Faults

CONSTANTS
    Events,     \* things that happen once and are announced
    Topic,      \* buildJobId: the job id of each event
    AboutTask   \* the job ids that are made of a task

\* Approvals without a task have ids of their own.
ASSUME TopicAssumption ==
    /\ Topic \in [Events -> Jobs]
    /\ AboutTask \subseteq Jobs
    /\ \A d, e \in Events : Topic[d] = Topic[e] /\ d # e => Topic[e] \in AboutTask

NotifyPc == {"idle", "check", "send", "log", "settle"}

VARIABLES
    announced,  \* the events whose enqueue was called
    pc,         \* where process(job) is
    result,     \* sendStatus, as far as it matters: sent (or mock), failed
    logged,     \* the jobs with a success in the task's log
    \* History, read by properties only.
    delivered   \* how often each job's message was delivered

notifyVars == <<announced, pc, result, logged>>
vars == <<queueVars, faults, notifyVars, delivered>>

TypeOK ==
    /\ QueueTypeOK
    /\ faults \in [FaultKind -> Nat]
    /\ announced \subseteq Events
    /\ pc \in [Jobs -> NotifyPc]
    /\ result \in [Jobs -> {"sent", "failed"}]
    /\ logged \subseteq AboutTask
    /\ delivered \in [Jobs -> Nat]

Init ==
    /\ QueueInit
    /\ faults = NoFaultYet
    /\ announced = {}
    /\ pc = [j \in Jobs |-> "idle"]
    /\ result = [j \in Jobs |-> "failed"]
    /\ logged = {}
    /\ delivered = [j \in Jobs |-> 0]

Goes(j, there) == pc' = [pc EXCEPT ![j] = there]

-----------------------------------------------------------------------------
\* NotificationQueueService.enqueue: the job of this id, if the queue still
\* knows one, is left as it is.
Announce(e) ==
    LET j == Topic[e]
    IN  /\ e \notin announced
        /\ announced' = announced \cup {e}
        /\ AddJob(j)
        /\ UNCHANGED <<faults, pc, result, logged, delivered>>

\* The call to the server or queue.add throws, which the callers swallow.
AnnounceThrows(e) ==
    /\ e \notin announced
    /\ Strikes("redis")
    /\ announced' = announced \cup {e}
    /\ UNCHANGED <<queueVars, pc, result, logged, delivered>>

Start(j) ==
    /\ PickUp(j)
    /\ Goes(j, "check")
    /\ UNCHANGED <<faults, announced, result, logged, delivered>>

\* Mutant of CheckSent: the log is not consulted.
CheckNothing(j) ==
    /\ pc[j] = "check"
    /\ Goes(j, "send")
    /\ UNCHANGED <<queueVars, faults, announced, result, logged, delivered>>

\* alreadySent: only a message about a task can be known to be sent.
CheckSent(j) ==
    /\ pc[j] = "check"
    /\ \/ /\ j \in logged
          /\ JobReturns(j)
          /\ Goes(j, "idle")
       \/ /\ j \notin logged
          /\ Goes(j, "send")
          /\ UNCHANGED queueVars
    /\ UNCHANGED <<faults, announced, result, logged, delivered>>

Delivers(j) ==
    /\ delivered' = [delivered EXCEPT ![j] = @ + 1]

\* NotificationSenderService.send: logged as a mock or accepted by the
\* connector; or no enabled template, no valid connector, an HTTP error.
Send(j) ==
    /\ pc[j] = "send"
    /\ \/ Delivers(j) /\ result' = [result EXCEPT ![j] = "sent"]
       \/ result' = [result EXCEPT ![j] = "failed"] /\ UNCHANGED delivered
    /\ Goes(j, IF j \in AboutTask THEN "log" ELSE "settle")
    /\ UNCHANGED <<queueVars, faults, announced, logged>>

\* The connector has delivered, but its answer comes too late or not at all.
SendUnanswered(j) ==
    /\ pc[j] = "send"
    /\ Strikes("net")
    /\ Delivers(j)
    /\ result' = [result EXCEPT ![j] = "failed"]
    /\ Goes(j, IF j \in AboutTask THEN "log" ELSE "settle")
    /\ UNCHANGED <<queueVars, announced, logged>>

\* Mutant of Log: a failure counts as sent.
LogAnything(j) ==
    /\ pc[j] = "log"
    /\ logged' = logged \cup {j}
    /\ Goes(j, "settle")
    /\ UNCHANGED <<queueVars, faults, announced, result, delivered>>

\* taskLog.create.
Log(j) ==
    /\ pc[j] = "log"
    /\ logged' = IF result[j] = "sent" THEN logged \cup {j} ELSE logged
    /\ Goes(j, "settle")
    /\ UNCHANGED <<queueVars, faults, announced, result, delivered>>

\* Mutant of Settle: a failure is not thrown on to BullMQ.
SettleSwallowing(j) ==
    /\ pc[j] = "settle"
    /\ JobReturns(j)
    /\ Goes(j, "idle")
    /\ UNCHANGED <<faults, announced, result, logged, delivered>>

\* process returns, or throws when the message was not sent.
Settle(j) ==
    /\ pc[j] = "settle"
    /\ IF result[j] = "sent" THEN JobReturns(j) ELSE JobThrows(j)
    /\ Goes(j, "idle")
    /\ UNCHANGED <<faults, announced, result, logged, delivered>>

\* A query of process or send throws, the log entry's after the sending.
QueryThrows(j) ==
    /\ pc[j] \in {"check", "send", "log"}
    /\ Strikes("db")
    /\ JobThrows(j)
    /\ Goes(j, "idle")
    /\ UNCHANGED <<announced, result, logged, delivered>>

WorkerDies ==
    /\ \E j \in Jobs : jobState[j] = "active"
    /\ Strikes("worker")
    /\ JobsStall
    /\ pc' = [j \in Jobs |-> "idle"]
    /\ UNCHANGED <<announced, result, logged, delivered>>

Forgotten(j) ==
    /\ Forget(j)
    /\ UNCHANGED <<faults, announced, pc, result, logged, delivered>>

-----------------------------------------------------------------------------
Process(j) == Start(j) \/ CheckSent(j) \/ Send(j) \/ Log(j) \/ Settle(j)

Next ==
    \/ \E e \in Events : Announce(e) \/ AnnounceThrows(e)
    \/ \E j \in Jobs :
         Process(j) \/ SendUnanswered(j) \/ QueryThrows(j) \/ Forgotten(j)
    \/ WorkerDies

Spec == Init /\ [][Next]_vars

\* The worker goes on with its jobs.
FairSpec == Spec /\ \A j \in Jobs : WF_vars(Process(j))

-----------------------------------------------------------------------------
\* A message is delivered again only because of a fault between its delivery
\* and the record of it: neither the queue's retries, nor the same event of
\* the task later on, repeat it (jobId and alreadySent together).
DuplicatesNeedFaults ==
    \A j \in Jobs :
      delivered[j] <= 1 + faults["worker"] + faults["net"] + faults["db"]

\* A job ends completed only if its message was delivered, by this attempt or
\* an earlier job of the same id: a failed sending is retried or fails the job.
CompletedIsDelivered ==
    \A j \in Jobs : jobState[j] = "completed" => delivered[j] > 0

\* What was added is delivered, or fails after all its attempts.
AnnouncementsSettle ==
    \A j \in Jobs :
      jobState[j] = "waiting" ~> delivered[j] > 0 \/ jobState[j] = "failed"
=============================================================================
