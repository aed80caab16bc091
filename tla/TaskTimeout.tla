----------------------------- MODULE TaskTimeout -----------------------------
(***************************************************************************)
(* The worker's TaskTimeoutProcessor, run every minute: it times out the   *)
(* tasks that have run too long and the approvals nobody decided in time.  *)
(* Both halves read first and write later by id.                           *)
(***************************************************************************)
EXTENDS TaskStore

CONSTANT Scans  \* scans that may be running at a time (bound)

ScanPc == {"idle", "timeout", "approvals", "mark", "link"}

VARIABLES
    scan,  \* where each scan is
    hits   \* the expired approvals it has read and not yet linked

scanVars == <<scan, hits>>

ScanTypeOK ==
    /\ scan \in [Scans -> ScanPc]
    /\ hits \in [Scans -> SUBSET Approvals]

ScanInit ==
    /\ scan = [s \in Scans |-> "idle"]
    /\ hits = [s \in Scans |-> {}]

ScanGoes(s, there) == scan' = [scan EXCEPT ![s] = there]

Overdue == {a \in expired : approval[a] = "pending"}

\* task.findMany of the running tasks; one without started_at is passed over.
ScanTasks(s) ==
    /\ scan[s] = "idle"
    /\ ScanGoes(s, IF status = "running" /\ startedAt = "elapsed"
                   THEN "timeout" ELSE "approvals")
    /\ UNCHANGED <<storeVars, hits>>

TimeoutTask(s) ==
    /\ scan[s] = "timeout"
    /\ status' = "timeout"
    /\ ScanGoes(s, "approvals")
    /\ UNCHANGED <<startedAt, retryCount, step, approval, expired,
                   historyVars, faults, hits>>

\* markExpiredApprovals: approval.findMany of the pending, expired ones ...
ScanApprovals(s) ==
    /\ scan[s] = "approvals"
    /\ hits' = [hits EXCEPT ![s] = Overdue]
    /\ ScanGoes(s, IF Overdue = {} THEN "idle" ELSE "mark")
    /\ UNCHANGED storeVars

\* Mutant of MarkExpired: marks the approvals read, whatever they are by now.
MarkExpiredRead(s) ==
    /\ scan[s] = "mark"
    /\ approval' = [a \in Approvals |->
                      IF a \in hits[s] THEN "timeout" ELSE approval[a]]
    /\ ScanGoes(s, "link")
    /\ UNCHANGED <<taskVars, step, expired, historyVars, faults, hits>>

\* ... updateMany under the same condition, evaluated again ...
MarkExpired(s) ==
    /\ scan[s] = "mark"
    /\ approval' = [a \in Approvals |->
                      IF a \in Overdue THEN "timeout" ELSE approval[a]]
    /\ ScanGoes(s, "link")
    /\ UNCHANGED <<taskVars, step, expired, historyVars, faults, hits>>

\* ... and the task of each approval read above fails.
LinkExpired(s) ==
    /\ scan[s] = "link"
    /\ \E a \in hits[s] : hits' = [hits EXCEPT ![s] = @ \ {a}]
    /\ status' = "failed"
    /\ ScanGoes(s, IF hits'[s] = {} THEN "idle" ELSE "link")
    /\ UNCHANGED <<startedAt, retryCount, step, approval, expired,
                   historyVars, faults>>

Scan(s) ==
    \/ ScanTasks(s) \/ TimeoutTask(s) \/ ScanApprovals(s)
    \/ MarkExpired(s) \/ LinkExpired(s)

\* A query of the scan throws: the next scan starts anew.
ScanThrows(s) ==
    /\ scan[s] # "idle"
    /\ Strikes("db")
    /\ ScanGoes(s, "idle")
    /\ hits' = [hits EXCEPT ![s] = {}]
    /\ UNCHANGED <<taskVars, step, approval, expired, historyVars>>

\* The scan dies with the worker process that runs it.
ScansDie ==
    /\ scan' = [s \in Scans |-> "idle"]
    /\ hits' = [s \in Scans |-> {}]
=============================================================================
