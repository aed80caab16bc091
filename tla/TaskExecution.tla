---------------------------- MODULE TaskExecution ----------------------------
(***************************************************************************)
(* agent-server /internal/tasks/*: the handlers the worker calls to        *)
(* materialise a workflow's steps, to execute one step behind its          *)
(* confirmation guard, and to run a capability that has no steps.  A       *)
(* handler is a process of its own, one per job: it outlives a lost        *)
(* connection or a dead worker, and answers only a caller still waiting.   *)
(* (Bound: a job's next call is not served before its orphan has ended.)   *)
(***************************************************************************)
EXTENDS TaskQueue

HandlerPc == {"idle", "count", "materialise", "readStep", "guardApproved",
              "guardPending", "create", "invoke", "capability"}

\* The handler is executing a step.
StepOps == {"readStep", "guardApproved", "guardPending", "create", "invoke"}

\* "none": no call is open; "awaited": the worker waits for the answer.
Reply == {"none", "awaited", "ok", "failed", "confirm", "error"}

VARIABLES
    handler,  \* where the handler serving the job is
    target,   \* the step the handler was asked to execute (0: none)
    reply     \* what the worker's open call has returned

execVars == <<handler, target, reply>>

ExecTypeOK ==
    /\ handler \in [Jobs -> HandlerPc]
    /\ target \in [Jobs -> 0..NSteps]
    /\ reply \in [Jobs -> Reply]

ExecInit ==
    /\ handler = [j \in Jobs |-> "idle"]
    /\ target = [j \in Jobs |-> 0]
    /\ reply = [j \in Jobs |-> "none"]

\* TaskExecutionClient.post: the request reaches the server.
Call(j, entry, k) ==
    /\ handler[j] = "idle"
    /\ handler' = [handler EXCEPT ![j] = entry]
    /\ target' = [target EXCEPT ![j] = k]
    /\ reply' = [reply EXCEPT ![j] = "awaited"]

\* The handler ends; an error is an HTTP status post() turns into a throw.
Answer(j, r) ==
    /\ handler' = [handler EXCEPT ![j] = "idle"]
    /\ target' = [target EXCEPT ![j] = 0]
    /\ reply' = [reply EXCEPT ![j] = IF @ = "awaited" THEN r ELSE @]

Goto(j, there) ==
    /\ handler' = [handler EXCEPT ![j] = there]
    /\ UNCHANGED <<target, reply>>

-----------------------------------------------------------------------------
\* prepareTask: existing steps are taken as they are; a task without workflow
\* steps gets none; an invalid or empty workflow tool is an error.
PrepareCount(j) ==
    /\ handler[j] = "count"
    /\ \/ /\ Materialised # {} \/ NSteps = 0
          /\ Answer(j, "ok")
       \/ /\ Materialised = {} /\ NSteps > 0
          /\ Goto(j, "materialise")
       \/ /\ Materialised = {} /\ NSteps > 0
          /\ Answer(j, "error")
    /\ UNCHANGED <<storeVars, queueVars>>

\* materializeWorkflowSteps: one INSERT per step, not in a transaction.
MaterialiseStep(j) ==
    /\ handler[j] = "materialise"
    /\ \E k \in Steps :
         /\ Materialised = 1..(k - 1)
         /\ step' = [step EXCEPT ![k] = "pending"]
         /\ IF k = NSteps THEN Answer(j, "ok")
                          ELSE UNCHANGED <<handler, target, reply>>
    /\ UNCHANGED <<taskVars, approval, expired, historyVars, faults, queueVars>>

\* Mutant of ReadStep: the confirmation guard is left out.
ReadStepUnguarded(j) ==
    /\ handler[j] = "readStep"
    /\ IF step[target[j]] = "completed" \/ target[j] \in Toolless
       THEN Answer(j, "ok")
       ELSE Goto(j, "invoke") \/ Answer(j, "error")
    /\ UNCHANGED <<storeVars, queueVars>>

\* executeStep: a step already completed, or without a tool, is answered at
\* once; only a tool that needs confirmation goes through the guard; a tool
\* that no longer exists is an error.
ReadStep(j) ==
    /\ handler[j] = "readStep"
    /\ IF step[target[j]] = "completed" \/ target[j] \in Toolless
       THEN Answer(j, "ok")
       ELSE \/ Goto(j, IF target[j] \in Confirm THEN "guardApproved"
                                                ELSE "invoke")
            \/ Answer(j, "error")
    /\ UNCHANGED <<storeVars, queueVars>>

\* guardStepConfirmation, first query: any approved approval of the task.
GuardApproved(j) ==
    /\ handler[j] = "guardApproved"
    /\ Goto(j, IF \E a \in Approvals : approval[a] = "approved"
               THEN "invoke" ELSE "guardPending")
    /\ UNCHANGED <<storeVars, queueVars>>

\* Second query: an approval already pending is waited for.
GuardPending(j) ==
    /\ handler[j] = "guardPending"
    /\ IF \E a \in Approvals : approval[a] = "pending"
       THEN Answer(j, "confirm") ELSE Goto(j, "create")
    /\ UNCHANGED <<storeVars, queueVars>>

NewApproval ==
    \E a \in Approvals :
      /\ approval[a] = "none"
      /\ approval' = [approval EXCEPT ![a] = "pending"]

\* approvalService.create, which throws when the tenant is gone.
CreateApproval(j) ==
    /\ handler[j] = "create"
    /\ \/ /\ NewApproval
          /\ Answer(j, "confirm")
       \/ /\ Answer(j, "error")
          /\ UNCHANGED approval
    /\ UNCHANGED <<taskVars, step, expired, historyVars, faults, queueVars>>

\* executeSubTool: the tool runs, and succeeds or reports an error.
InvokeTool(j) ==
    /\ handler[j] = "invoke"
    /\ called' = called \cup {target[j]}
    /\ \E r \in {"ok", "failed"} : Answer(j, r)
    /\ UNCHANGED <<taskVars, step, approval, expired, done, granted, faults,
                   queueVars>>

\* executeCapability: the handler of the task's capability type runs.
RunCapability(j) ==
    /\ handler[j] = "capability"
    /\ \E r \in {"ok", "failed", "error"} : Answer(j, r)
    /\ UNCHANGED <<storeVars, queueVars>>

-----------------------------------------------------------------------------
\* A query of the handler throws: what it has written stays, and the call
\* fails.
HandlerThrows(j) ==
    /\ handler[j] # "idle"
    /\ Strikes("db")
    /\ Answer(j, "error")
    /\ \/ UNCHANGED approval
       \/ handler[j] = "create" /\ NewApproval
    /\ UNCHANGED <<taskVars, step, expired, historyVars, queueVars>>

\* The connection breaks: the call throws in the worker while the handler,
\* if it still runs, goes on.
LoseCall(j) ==
    /\ reply[j] = "awaited"
    /\ Strikes("net")
    /\ reply' = [reply EXCEPT ![j] = "error"]
    /\ UNCHANGED <<handler, target, taskVars, step, approval, expired,
                   historyVars, queueVars>>

\* The API server dies: its handlers stop where they are, open calls throw.
HandlersDie ==
    /\ handler' = [j \in Jobs |-> "idle"]
    /\ target' = [j \in Jobs |-> 0]
    /\ reply' = [j \in Jobs |->
                   IF reply[j] = "awaited" THEN "error" ELSE reply[j]]

ServeCall(j) ==
    \/ PrepareCount(j) \/ MaterialiseStep(j) \/ ReadStep(j)
    \/ GuardApproved(j) \/ GuardPending(j) \/ CreateApproval(j)
    \/ InvokeTool(j) \/ RunCapability(j)
=============================================================================
