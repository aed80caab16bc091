------------------------- MODULE CapabilityHandlers --------------------------
(***************************************************************************)
(* The four capability handlers.  Each uses the first of the tools it is   *)
(* given; a workflow keeps a task and runs its steps one after another,    *)
(* with the same tools but without asking the policy about them.           *)
(***************************************************************************)
EXTENDS QueryTool

VARIABLES
    flow,     \* status of the workflow's task, "none" without one
    steps,    \* status of its steps so far
    visited   \* tools it has used

flowVars == <<flow, steps, visited>>

HandlerTypeOK ==
    /\ QueryTypeOK
    /\ flow \in {"none", "running", "completed", "failed"}
    /\ steps \in Seq({"running", "completed", "failed"})
    /\ visited \subseteq Tools

HandlerInit ==
    /\ QueryInit
    /\ flow = "none"
    /\ steps = <<>>
    /\ visited = {}

HandlerOnly == UNCHANGED <<configVars, ctxVars, approval, cleared, queryVars>>

Given == toolIds # <<>>
Chosen == toolIds[1]

\* validateToolReady, validateTool
Ready(t) == Enabled(t) /\ config.tools[t].linked

Uses(t, to) ==
    /\ Goes("handle", to)
    /\ tool' = t
    /\ UNCHANGED <<outcome, flowVars>>

Gives(result) ==
    /\ Goes("handle", "reply")
    /\ outcome' = result
    /\ UNCHANGED <<tool, flowVars>>

\* QaCapabilityHandler: recall and a model's answer; no tool of the tenant.
HandleQa ==
    /\ capability = "qa"
    /\ \E result \in {"ok", "failed"} : Gives(result)

HandleQuery ==
    /\ capability = "query"
    /\ IF Given /\ TypeOf(Chosen) = "query" /\ Ready(Chosen)
       THEN Uses(Chosen, "scope") ELSE Gives("failed")

\* A message that names a tool runs it when no tool is given.
FromSignal ==
    /\ ~Given
    /\ config.signal \in Tools
    /\ Enabled(config.signal) /\ TypeOf(config.signal) = "http_query"

\* Mutant of HandleAction: validateToolReady forgets the status of the tool.
HandleActionDisabled ==
    /\ capability = "action"
    /\ IF FromSignal THEN Uses(config.signal, "invoke")
       ELSE IF Given /\ TypeOf(Chosen) \in ActionTools /\ config.tools[Chosen].linked
       THEN Uses(Chosen, "invoke") ELSE Gives("failed")

HandleAction ==
    /\ capability = "action"
    /\ IF FromSignal THEN Uses(config.signal, "invoke")
       ELSE IF Given /\ TypeOf(Chosen) \in ActionTools /\ Ready(Chosen)
       THEN Uses(Chosen, "invoke") ELSE Gives("failed")

StepsOf(t) == config.tools[t].steps

\* The workflow's task is created running; it is not queued.
HandleWorkflow ==
    /\ capability = "workflow"
    /\ IF Given /\ TypeOf(Chosen) = "workflow" /\ Enabled(Chosen) /\ StepsOf(Chosen) # <<>>
       THEN /\ Goes("handle", "step")
            /\ flow' = "running"
            /\ UNCHANGED <<tool, outcome, steps, visited>>
       ELSE Gives("failed")

Handle ==
    /\ HandleQa \/ HandleQuery \/ HandleAction \/ HandleWorkflow
    /\ at' = IF pc' = "step" THEN 1 ELSE 0
    /\ HandlerOnly /\ UNCHANGED <<answer, runs, faults>>

-----------------------------------------------------------------------------
\* ToolInvocationService.invoke with skipPolicy: parameters that do not fit
\* the schema, or the external system's answer, whatever it has done.
InvokeTool ==
    /\ \/ \E result \in {"ok", "failed"} : Returns("invoke", result) /\ runs' = Append(runs, tool)
       \/ Returns("invoke", "failed") /\ UNCHANGED runs
    /\ HandlerOnly /\ UNCHANGED <<at, answer, tool, flowVars, faults>>

\* A row for the step, and the task's current node.
StartStep ==
    /\ Goes("step", "subtool")
    /\ steps' = Append(steps, "running")
    /\ HandlerOnly /\ UNCHANGED <<at, answer, runVars, flow, visited, faults>>

SubTool == StepsOf(Chosen)[at]

\* WorkflowToolInvoker.executeSubTool
RunSubTool ==
    /\ pc = "subtool"
    /\ \/ SubTool = NoTool /\ Returns("subtool", "ok") /\ UNCHANGED <<tool, visited>>
       \/ /\ SubTool \in visited
          /\ Returns("subtool", "failed") /\ UNCHANGED <<tool, visited>>
       \/ /\ SubTool \in Tools \ visited
          /\ visited' = visited \cup {SubTool}
          /\ IF \/ ~Enabled(SubTool) \/ TypeOf(SubTool) = "workflow"
                \/ TypeOf(SubTool) = "query" /\ ~config.tools[SubTool].linked
             THEN Returns("subtool", "failed") /\ UNCHANGED tool
             ELSE /\ Goes("subtool", IF TypeOf(SubTool) = "query" THEN "scope" ELSE "invoke")
                  /\ tool' = SubTool /\ UNCHANGED outcome
    /\ HandlerOnly /\ UNCHANGED <<at, answer, runs, flow, steps, faults>>

Marked(status) == steps' = [steps EXCEPT ![at] = status]

\* Mutant of RecordStep: a failed step does not end the loop.
RecordStepGoingOn ==
    /\ Goes("record", IF at < Len(StepsOf(Chosen)) THEN "step" ELSE "settle")
    /\ Marked(IF outcome = "ok" THEN "completed" ELSE "failed")
    /\ at' = at + 1
    /\ HandlerOnly /\ UNCHANGED <<answer, runVars, flow, visited, faults>>

\* The loop ends with the last step, or the first that fails.
RecordStep ==
    /\ pc = "record"
    /\ IF outcome = "ok"
       THEN /\ Marked("completed")
            /\ Goes("record", IF at < Len(StepsOf(Chosen)) THEN "step" ELSE "settle")
            /\ at' = IF at < Len(StepsOf(Chosen)) THEN at + 1 ELSE at
       ELSE /\ Marked("failed")
            /\ Goes("record", "settle")
            /\ UNCHANGED at
    /\ HandlerOnly /\ UNCHANGED <<answer, runVars, flow, visited, faults>>

\* Mutant of SettleWorkflow: a failed workflow leaves its task as it is.
SettleWorkflowDone ==
    /\ Goes("settle", "reply")
    /\ flow' = IF outcome = "ok" THEN "completed" ELSE flow
    /\ HandlerOnly /\ UNCHANGED <<at, answer, runVars, steps, visited, faults>>

SettleWorkflow ==
    /\ Goes("settle", "reply")
    /\ flow' = IF outcome = "ok" THEN "completed" ELSE "failed"
    /\ HandlerOnly /\ UNCHANGED <<at, answer, runVars, steps, visited, faults>>

\* A query throws: while a step's success is recorded, which fails the step,
\* or outside the try block, which ends the handler and leaves the task.
WorkflowThrows ==
    /\ Strikes("db")
    /\ \/ /\ pc = "record" /\ outcome = "ok"
          /\ outcome' = "failed"
          /\ UNCHANGED <<pc, answer>>
       \/ /\ \/ \E from \in {"handle", "step", "settle"} : Goes(from, "over")
             \/ outcome = "failed" /\ Goes("record", "over")
          /\ answer' = IF answer = "none" THEN "failed" ELSE answer
          /\ UNCHANGED outcome
    /\ HandlerOnly /\ UNCHANGED <<at, tool, runs, flowVars>>

RunHandler ==
    \/ Handle \/ InvokeTool \/ StartStep \/ RunSubTool \/ RecordStep \/ SettleWorkflow
    \/ WorkflowThrows
    \/ RunQuery /\ UNCHANGED flowVars
=============================================================================
