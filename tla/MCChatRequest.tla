---------------------------- MODULE MCChatRequest ----------------------------
(***************************************************************************)
(* Instances of ChatRequest for TLC: families of configurations that each  *)
(* vary one part of the system, two tools a and b and a workflow w.        *)
(***************************************************************************)
EXTENDS ChatRequest, TLC

CONSTANTS a, b, w, x, y, c1, c2

MCTools == {a, b, w}
MCTables == {x, y}
MCClauses == {c1, c2}

NoBinds == [t \in MCTables |-> {}]
ScopeBinds == [t \in MCTables |-> {"scope"}]
PartBinds == [t \in MCTables |-> IF t = x THEN Dimension ELSE {"user"}]

ToolRow(type) == [type |-> type, enabled |-> TRUE, linked |-> TRUE, steps |-> <<>>]

RowOf(t) == IF t = w THEN [ToolRow("workflow") EXCEPT !.steps = <<a, NoTool, b>>]
            ELSE ToolRow(IF t = a THEN "action" ELSE "http_query")

CapOf(type, rules, dependent) == [type |-> type, rules |-> rules, dependentTools |-> dependent]
RuleOf(score, kind, ids, ask) == [score |-> score, kind |-> kind, toolIds |-> ids, confirm |-> ask]
PolicyOf(action, match, clauses) == [action |-> action, match |-> match, clauses |-> clauses]

\* One action capability with one rule for tool a, and nothing special.
Plain ==
    [allowedTypes |-> CapabilityType,
     capabilities |-> <<CapOf("action", <<RuleOf(10, "any", <<a>>, FALSE)>>, <<>>)>>,
     policies |-> <<>>, tools |-> [t \in MCTools |-> RowOf(t)],
     er |-> [tables |-> MCTables, binds |-> NoBinds], blacklist |-> {}, llm |-> FALSE,
     pinned |-> "none", signal |-> "none", principal |-> {},
     holds |-> [t \in MCTools |-> {}], bare |-> {}]

\* Two rules of one capability, in every order of score and kind.
RuleChoices ==
    {RuleOf(s, k, ids, ask) : s \in {0, 10, 20}, k \in {"any", "http_query"},
                              ids \in {<<>>, <<a>>, <<a, b>>}, ask \in BOOLEAN}
RuleFamily ==
    {[Plain EXCEPT !.capabilities = <<CapOf("action", <<r, s>>, dependent)>>,
                   !.tools[b].enabled = on] :
       r \in RuleChoices, s \in {q \in RuleChoices : q.confirm = FALSE},
       dependent \in {<<>>, <<b>>}, on \in BOOLEAN}

\* Two policy rules and the clauses that hold of the request's two tools.
PolicyChoices ==
    {PolicyOf(action, match, clauses) : action \in {"deny", "need_confirm", "allow"},
                                        match \in {"all", "any"}, clauses \in SUBSET MCClauses}
PolicyFamily ==
    {[Plain EXCEPT !.capabilities = <<CapOf("action", <<RuleOf(10, "any", <<a, b>>, ask)>>, <<>>)>>,
                   !.policies = <<p, q>>, !.holds[a] = h, !.holds[b] = {c1}] :
       p \in PolicyChoices, q \in {r \in PolicyChoices : r.match = "all"},
       h \in {{}, {c1}, {c2}}, ask \in BOOLEAN}

\* Two capabilities, a session pinned to a type or not, with the types opened
\* for the tenant; a message that names a tool, known or not.
TypeFamily ==
    {[Plain EXCEPT
        !.capabilities = <<CapOf(type, <<RuleOf(s, "any", <<a>>, FALSE)>>, <<b>>),
                           CapOf("action", <<RuleOf(r, kind, <<>>, FALSE)>>, <<w>>)>>,
        !.allowedTypes = open, !.pinned = pin, !.llm = llm, !.signal = sign] :
       type \in {"query", "workflow"}, s \in {0, 10}, r \in {0, 10, 20},
       kind \in {"any", "notification"}, open \in {{}, {"action"}, CapabilityType},
       pin \in {"none", "action", "query"}, llm \in BOOLEAN, sign \in {"none", "unknown", b}}

\* A workflow of up to three steps.
StepLists == {<<>>, <<a>>, <<a, b>>, <<a, NoTool, b>>, <<a, b, a>>, <<b, w>>}
FlowFamily ==
    {[Plain EXCEPT
        !.capabilities = <<CapOf("workflow", <<>>, <<w>>)>>, !.pinned = "workflow",
        !.tools = [Plain.tools EXCEPT ![w].steps = list, ![w].enabled = won,
                     ![b] = [ToolRow(type) EXCEPT !.linked = link, !.enabled = on]],
        !.principal = {"scope"}, !.er.binds = ScopeBinds] :
       list \in StepLists, type \in {"query", "http_query"}, link \in BOOLEAN,
       on \in BOOLEAN, won \in BOOLEAN}

\* A query under a data scope.
QueryFamily ==
    {[Plain EXCEPT
        !.capabilities = <<CapOf("query", <<>>, <<b>>)>>, !.pinned = "query",
        !.tools[b] = [ToolRow("query") EXCEPT !.enabled = on],
        !.principal = dims, !.blacklist = black,
        !.er = [tables |-> known, binds |-> bound]] :
       dims \in SUBSET Dimension, black \in {{}, {y}}, on \in BOOLEAN,
       known \in {MCTables, {x}}, bound \in {NoBinds, ScopeBinds, PartBinds}}

Families == RuleFamily \cup PolicyFamily \cup TypeFamily \cup FlowFamily \cup QueryFamily

MCDiagrams == {[tables |-> {}, binds |-> NoBinds], [tables |-> MCTables, binds |-> ScopeBinds]}
MCRuleLists == {<<PolicyOf("deny", "all", {})>>, <<PolicyOf("need_confirm", "all", {})>>}

OneQueryFails == [f \in FaultKind |-> IF f = "db" THEN 1 ELSE 0]
=============================================================================
