----------------------------- MODULE ChatRequest -----------------------------
(***************************************************************************)
(* One message of a chat, from routing to the reply: executeOrchestration, *)
(* its interruption for a confirmation and its resumption after a review,  *)
(* while an administrator may change the tenant's configuration.           *)
(***************************************************************************)
EXTENDS CapabilityRouting, CapabilityHandlers

vars == <<contextVars, routingVars, queryVars, flowVars, faults>>

TypeOK ==
    /\ ContextTypeOK /\ RoutingTypeOK /\ HandlerTypeOK
    /\ faults \in [FaultKind -> Nat]

Init ==
    /\ ContextInit /\ RoutingInit /\ HandlerInit
    /\ faults = NoFaultYet

RuntimeOnly ==
    UNCHANGED <<configVars, ctxVars, runVars, routingVars, queryVars, flowVars>>

\* Mutant of CheckPolicy: a need for confirmation is passed over.
CheckPolicyDenials ==
    /\ pc = "policy"
    /\ IF at > Len(toolIds) THEN Goes("policy", "handle") /\ UNCHANGED <<at, answer, cleared>>
       ELSE IF Decision(toolIds[at]).allow
       THEN /\ pc = "policy" /\ at' = at + 1
            /\ cleared' = IF Decision(toolIds[at]).needConfirm THEN cleared
                          ELSE cleared \cup {toolIds[at]}
            /\ UNCHANGED <<pc, answer>>
       ELSE Goes("policy", "over") /\ answer' = "denied" /\ UNCHANGED <<at, cleared>>
    /\ RuntimeOnly /\ UNCHANGED <<approval, faults>>

\* The policy is asked about one tool after another.
CheckPolicy ==
    /\ pc = "policy"
    /\ IF at > Len(toolIds) THEN Goes("policy", "handle") /\ UNCHANGED <<at, answer, cleared>>
       ELSE LET decision == Decision(toolIds[at]) IN
            \/ /\ ~decision.allow
               /\ Goes("policy", "over") /\ answer' = "denied"
               /\ UNCHANGED <<at, cleared>>
            \/ /\ decision.allow /\ decision.needConfirm
               /\ Goes("policy", "interrupt")
               /\ UNCHANGED <<at, answer, cleared>>
            \/ /\ decision.allow /\ ~decision.needConfirm
               /\ pc = "policy" /\ at' = at + 1
               /\ cleared' = cleared \cup {toolIds[at]}
               /\ UNCHANGED <<pc, answer>>
    /\ RuntimeOnly /\ UNCHANGED <<approval, faults>>

\* handleConfirmInterrupt; that no approval can be created is only logged.
Interrupt ==
    /\ Goes("interrupt", "parked")
    /\ answer' = "confirm"
    /\ \/ approval' = "pending" /\ UNCHANGED faults
       \/ Strikes("db") /\ UNCHANGED approval
    /\ RuntimeOnly /\ UNCHANGED <<at, cleared>>

\* resumeFromApproval: the handler runs with the tools of the approval.
Approve ==
    /\ approval = "pending" /\ Goes("parked", "handle")
    /\ approval' = "approved"
    /\ answer' = "none"
    /\ RuntimeOnly /\ UNCHANGED <<at, cleared, faults>>

Reject ==
    /\ approval = "pending" /\ Goes("parked", "over")
    /\ approval' = "rejected"
    /\ RuntimeOnly /\ UNCHANGED <<at, answer, cleared, faults>>

\* The handler is not stopped when its time is up.
TimeOut ==
    /\ pc \in (HandlerPc \cup QueryPc) \ {"handle", "reply"}
    /\ answer = "none" /\ answer' = "failed"
    /\ RuntimeOnly /\ UNCHANGED <<pc, at, approval, cleared, faults>>

Reply ==
    /\ Goes("reply", "over")
    /\ answer' = IF answer = "none" THEN "done" ELSE answer
    /\ RuntimeOnly /\ UNCHANGED <<at, approval, cleared, faults>>

\* A query of the orchestration itself throws.
OrchestrationThrows ==
    /\ \E from \in RoutingPc \cup {"policy", "interrupt", "reply"} : Goes(from, "over")
    /\ Strikes("db")
    /\ answer' = "failed"
    /\ RuntimeOnly /\ UNCHANGED <<at, approval, cleared>>

Route == RouteCapability \/ ScoreRule \/ ConcludeRouting \/ ResolveToolIds

Next ==
    \/ Route /\ UNCHANGED <<queryVars, flowVars>>
    \/ RunHandler /\ UNCHANGED routingVars
    \/ CheckPolicy \/ Interrupt \/ Approve \/ Reject \/ TimeOut \/ Reply \/ OrchestrationThrows
    \/ Edit /\ UNCHANGED <<routingVars, queryVars, flowVars, faults>>

Spec == Init /\ [][Next]_vars

-----------------------------------------------------------------------------
\* Stage 2 takes the first of the best rules that have a tool to offer.
RoutedByBestRule ==
    LET contenders == {i \in DOMAIN Rules : Rules[i].score > 0 /\ Eligible(Rules[i])}
    IN  pc = "resolve" /\ edits = 0
          => IF contenders = {} THEN best.rule = 0
             ELSE /\ best.rule \in contenders
                  /\ \A i \in contenders :
                       \/ Rules[i].score < Rules[best.rule].score
                       \/ Rules[i].score = Rules[best.rule].score /\ best.rule <= i

\* A step of the workflow the policy has let pass; nobody asks it about the
\* step's own tool (skipPolicy).
StepOfCleared(t) ==
    /\ capability = "workflow" /\ toolIds # <<>> /\ Chosen \in cleared
    /\ \E k \in DOMAIN StepsOf(Chosen) : StepsOf(Chosen)[k] = t

\* A tool the message itself names; nobody asks the policy about it either.
NamedByMessage(t) == capability = "action" /\ toolIds = <<>> /\ t = config.signal

\* A tool that has run though nobody was asked is one the policy let pass
\* without a confirmation, a step of such a workflow, or the one the message
\* named: no other way leads around the policy, which is meant to be asked
\* before every tool; and no rule wanted a confirmation.
UnaskedAreCleared ==
    runs # <<>> /\ approval = "none" =>
      /\ ~confirm
      /\ \A i \in DOMAIN runs :
           runs[i] \in cleared \/ StepOfCleared(runs[i]) \/ NamedByMessage(runs[i])

\* Whatever the candidates and fallbacks have offered, only enabled tools run,
\* and of the type the capability is for.
RightTools ==
    edits = 0 => \A i \in DOMAIN runs :
        /\ Enabled(runs[i])
        /\ capability = "query" => TypeOf(runs[i]) = "query"
        /\ capability = "action" => TypeOf(runs[i]) \in ActionTools
        /\ capability # "qa"

\* The tools that ran are those of the first k steps of the list, in its order.
Covers(ran, list, k) ==
    \E f \in [DOMAIN ran -> 1..k] :
      /\ \A i \in DOMAIN ran : ran[i] = list[f[i]]
      /\ \A i, j \in DOMAIN ran : i < j => f[i] < f[j]
      /\ \A n \in 1..k : list[n] = NoTool \/ \E i \in DOMAIN ran : f[i] = n

\* A workflow runs its steps in order and each tool once, none after one has
\* failed, and is completed only when all have run.
StepsRunInSequence ==
    LET list == StepsOf(Chosen) IN
    flow # "none" =>
      /\ \E k \in 0..Len(list) : Covers(runs, list, k)
      /\ \A i, j \in DOMAIN runs : runs[i] = runs[j] => i = j
      /\ flow = "completed" => Covers(runs, list, Len(list))

\* The task of a workflow that is over is settled, unless a query has thrown.
WorkflowTaskSettles ==
    pc = "over" /\ flow = "running" => faults # NoFaultYet

\* Every table the model lists for a statement is filtered in every dimension
\* its user is limited in, though the diagram may be published anew meanwhile,
\* and is in the diagram if it is not; and no table the statement names is
\* blacklisted.  A table it names and the model does not list is not filtered.
ListedTablesAreConfined ==
    \A s \in sent :
      /\ s.named \cap config.blacklist = {}
      /\ s.listed \X config.principal \subseteq s.filters
      /\ edits = 0 => s.listed \subseteq config.er.tables

=============================================================================
