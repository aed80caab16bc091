--------------------------- MODULE RequestContext ----------------------------
(***************************************************************************)
(* What the parts of the agent runtime share while they serve one message  *)
(* of a chat: the tenant's configuration, which an administrator may       *)
(* change meanwhile, and the context handed from routing to the handlers.  *)
(***************************************************************************)
EXTENDS Policy, Faults, FiniteSets

CONSTANTS
    Tools,
    Tables,     \* tables of the databases behind query tools
    NoTool,
    Configs,    \* configurations, with the request as they see it
    Diagrams,   \* ER diagrams an administrator may publish
    RuleLists,  \* lists of policy rules an administrator may save
    MaxEdits    \* changes of the configuration during the request (bound)

ASSUME ConfigAssumption == NoTool \notin Tools /\ MaxEdits \in Nat

CapabilityType == {"qa", "query", "action", "workflow"}
ActionTools == {"action", "notification", "http_query"}
ToolType == ActionTools \cup {"query", "workflow"}
ToolKind == ActionTools \cup {"any"}
Dimension == {"scope", "user"}

\* tables with a data-scope binding, and the dimensions it binds
Diagram == [tables : SUBSET Tables, binds : [Tables -> SUBSET Dimension]]

RoutingRule == [score : Nat, kind : ToolKind, toolIds : Seq(Tools), confirm : BOOLEAN]

Capability == [type : CapabilityType, rules : Seq(RoutingRule), dependentTools : Seq(Tools)]

Tool == [type : ToolType, enabled : BOOLEAN, linked : BOOLEAN,
         steps : Seq(Tools \cup {NoTool})]

\* allowedTypes, capabilities, policies, tools and er belong to the tenant;
\* pinned (the session's type), signal (the tool a message names), principal
\* (the dimensions its user is limited in) and holds, bare (the clauses that
\* hold of a tool, of no tool) come with the request.
Config ==
    [allowedTypes : SUBSET CapabilityType, capabilities : Seq(Capability),
     policies : Seq(PolicyRule), tools : [Tools -> Tool], er : Diagram,
     blacklist : SUBSET Tables, llm : BOOLEAN,
     pinned : CapabilityType \cup {"none"}, signal : {"none", "unknown"} \cup Tools,
     principal : SUBSET Dimension, holds : [Tools -> SUBSET Clauses], bare : SUBSET Clauses]

ASSUME ConfigsAssumption ==
    /\ Configs \subseteq Config
    /\ Diagrams \subseteq Diagram
    /\ RuleLists \subseteq Seq(PolicyRule)

RoutingPc == {"route", "rules", "match", "resolve"}
HandlerPc == {"handle", "invoke", "step", "subtool", "record", "settle", "reply"}
QueryPc == {"scope", "clip", "ask", "check", "filter", "execute", "summarize"}
Pc == RoutingPc \cup HandlerPc \cup QueryPc \cup {"policy", "interrupt", "parked", "over"}

VARIABLES
    config,
    edits,       \* changes of the configuration so far
    pc,          \* where the runtime is
    at,          \* index of the loop it is in
    capability,  \* ctx.capabilityType
    toolIds,     \* ctx.toolIds
    confirm,     \* ctx.needConfirmation
    approval,    \* "none", "pending", "approved", "rejected"
    answer,      \* what the caller was told
    tool,        \* the tool being run
    outcome,     \* its outcome
    \* History, read by properties only.
    cleared,     \* tools the policy has let pass without a confirmation
    runs         \* tools that ran, in order

ctxVars == <<capability, toolIds, confirm>>
configVars == <<config, edits>>
runVars == <<tool, outcome, runs>>
contextVars == <<configVars, pc, at, ctxVars, approval, answer, runVars, cleared>>

ContextTypeOK ==
    /\ config \in Config
    /\ edits \in Nat
    /\ pc \in Pc
    /\ at \in Nat
    /\ capability \in CapabilityType
    /\ toolIds \in Seq(Tools)
    /\ confirm \in BOOLEAN
    /\ approval \in {"none", "pending", "approved", "rejected"}
    /\ answer \in {"none", "confirm", "denied", "done", "failed"}
    /\ tool \in Tools \cup {NoTool}
    /\ outcome \in {"none", "ok", "failed"}
    /\ cleared \subseteq Tools
    /\ runs \in Seq(Tools)

ContextInit ==
    /\ config \in Configs
    /\ edits = 0
    /\ pc = "route"
    /\ at = 1
    /\ capability = "qa" /\ toolIds = <<>> /\ confirm = FALSE
    /\ approval = "none"
    /\ answer = "none"
    /\ tool = NoTool /\ outcome = "none"
    /\ cleared = {}
    /\ runs = <<>>

Goes(from, to) == pc = from /\ pc' = to

\* The tool being run ends: a step of a workflow (at > 0), or the whole handler.
Returns(from, result) ==
    /\ Goes(from, IF at > 0 THEN "record" ELSE "reply")
    /\ outcome' = result

Enabled(t) == config.tools[t].enabled
TypeOf(t) == config.tools[t].type

\* The policy on one tool.
Decision(t) == Evaluate(config.policies, config.holds[t])

\* toolIds that are enabled and of a kind; the database returns them in any
\* order.
OfKind(ids, kind) ==
    LET fits == {ids[i] : i \in DOMAIN ids} \cap
                  {t \in Tools : Enabled(t) /\ TypeOf(t) = kind}
    IN  IF kind = "any" \/ ids = <<>> THEN {ids}
        ELSE {s \in [1..Cardinality(fits) -> fits] :
                \A i, j \in DOMAIN s : s[i] = s[j] => i = j}

-----------------------------------------------------------------------------
\* An administrator enables or disables a tool, publishes an ER diagram, or
\* saves other policy rules.
Edit ==
    /\ edits < MaxEdits
    /\ pc # "over"
    /\ edits' = edits + 1
    /\ \/ \E t \in Tools : config' = [config EXCEPT !.tools[t].enabled = ~@]
       \/ \E d \in Diagrams : config' = [config EXCEPT !.er = d]
       \/ \E rules \in RuleLists : config' = [config EXCEPT !.policies = rules]
    /\ UNCHANGED <<pc, at, ctxVars, approval, answer, runVars, cleared>>
=============================================================================
