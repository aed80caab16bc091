------------------------- MODULE CapabilityRouting ---------------------------
(***************************************************************************)
(* RoutingEngineService.routeFull and the runtime's resolveToolIds: from a *)
(* message to a capability type, the tools to use and whether to ask for a *)
(* confirmation.  The score of a rule against the message is part of the   *)
(* configuration; what a language model or a keyword heuristic makes of it *)
(* is a choice among the types opened for the tenant.                      *)
(***************************************************************************)
EXTENDS RequestContext, Integers

VARIABLES
    offered,  \* tool ids of the candidate that will be taken
    best,     \* the best rule so far: its index (or 0), score and tools
    intra     \* outcome of stage 2: tool ids, tool kind

routingVars == <<offered, best, intra>>

Caps == config.capabilities

RoutingTypeOK ==
    /\ offered \in Seq(Tools)
    /\ best \in [rule : Nat, score : Nat, toolIds : Seq(Tools)]
    /\ intra \in [toolIds : Seq(Tools), kind : ToolKind]

NoRule == [rule |-> 0, score |-> 0, toolIds |-> <<>>]

RoutingInit ==
    /\ offered = <<>>
    /\ best = NoRule
    /\ intra = [toolIds |-> <<>>, kind |-> "any"]

-----------------------------------------------------------------------------
\* Stage 1.  The first of several equal scores wins.
First(S, Score(_)) ==
    CHOOSE i \in S : \A j \in S : Score(j) < Score(i) \/ (Score(j) = Score(i) /\ i <= j)

RuleScore(cap, i) == cap.rules[i].score
TopRule(cap) == First(DOMAIN cap.rules, LAMBDA i : RuleScore(cap, i))
CapScore(c) == IF Caps[c].rules = <<>> THEN 0 ELSE RuleScore(Caps[c], TopRule(Caps[c]))

\* scoreCapabilities
Candidates == {c \in DOMAIN Caps : Caps[c].type \in config.allowedTypes /\ CapScore(c) > 0}

OfType(C, type) == {c \in C : Caps[c].type = type}

\* candidates.find(type) ?? candidates[0]
Offer(type) ==
    LET C == IF OfType(Candidates, type) # {} THEN OfType(Candidates, type) ELSE Candidates
        c == First(C, CapScore)
    IN  Caps[c].rules[TopRule(Caps[c])].toolIds

\* computeConfidence is below 0.5, which only a second candidate can cause.
Doubtful ==
    LET top == First(Candidates, CapScore)
        rest == Candidates \ {top}
        gap == CapScore(top) - CapScore(First(rest, CapScore))
    IN  rest # {} /\ 80 + 4 * gap + CapScore(top) < 100

FirstCap(type) ==
    LET C == OfType(DOMAIN Caps, type)
    IN  CHOOSE c \in C : \A d \in C : c <= d
HasCap(type) == OfType(DOMAIN Caps, type) # {}

\* routeCapability
Unopened ==
    /\ config.allowedTypes = {}
    /\ capability' = "qa" /\ offered' = <<>>

Pinned ==
    /\ config.allowedTypes # {} /\ config.pinned # "none"
    /\ capability' = config.pinned
    /\ offered' = IF config.pinned \in config.allowedTypes /\ HasCap(config.pinned)
                  THEN Caps[FirstCap(config.pinned)].dependentTools ELSE <<>>

Unpinned == config.allowedTypes # {} /\ config.pinned = "none"

NoCapability ==
    /\ Unpinned
    /\ \A c \in DOMAIN Caps : Caps[c].type \notin config.allowedTypes
    /\ capability' = "qa" /\ offered' = <<>>

Scored ==
    /\ Unpinned /\ Candidates # {}
    /\ \/ capability' = Caps[First(Candidates, CapScore)].type
       \/ Doubtful /\ config.llm /\ capability' \in config.allowedTypes
    /\ offered' = Offer(capability')

\* inferTypeByKeywords, or the language model; a candidate has no tools.
Guessed ==
    /\ Unpinned /\ Candidates = {}
    /\ \E c \in DOMAIN Caps : Caps[c].type \in config.allowedTypes
    /\ capability' \in config.allowedTypes /\ offered' = <<>>

RouteCapability ==
    /\ Goes("route", "rules")
    /\ Unopened \/ Pinned \/ NoCapability \/ Scored \/ Guessed
    /\ at' = 1 /\ best' = NoRule
    /\ UNCHANGED <<configVars, toolIds, confirm, approval, answer, runVars, cleared, intra, faults>>

-----------------------------------------------------------------------------
\* Stage 2: routeWithinCapability, whether the type is opened or not.
Dependent == IF HasCap(capability) THEN Caps[FirstCap(capability)].dependentTools ELSE <<>>

Rules == IF HasCap(capability) THEN Caps[FirstCap(capability)].rules ELSE <<>>

Eligible(rule) ==
    \/ rule.kind = "any" \/ rule.toolIds = <<>>
    \/ \E s \in OfKind(rule.toolIds, rule.kind) : s # <<>>

\* Mutant of Better: the last of equal scores wins.
BetterOrEqual(rule) == rule.score >= best.score /\ rule.score > 0

Better(rule) == rule.score > best.score

ScoreRule ==
    /\ pc = "rules" /\ at <= Len(Rules)
    /\ LET rule == Rules[at]
       IN  IF Better(rule) /\ Eligible(rule)
           THEN \E s \in OfKind(rule.toolIds, rule.kind) :
                  best' = [rule |-> at, score |-> rule.score, toolIds |-> s]
           ELSE UNCHANGED best
    /\ at' = at + 1
    /\ UNCHANGED <<configVars, pc, ctxVars, approval, answer, runVars, cleared, offered, intra, faults>>

\* checkNeedConfirmation: only enabled tools count, and a denial does not.
NeedsConfirmation(ids) ==
    LET known == {ids[i] : i \in DOMAIN ids} \cap {t \in Tools : Enabled(t)}
    IN  IF ids = <<>> THEN Evaluate(config.policies, config.bare).needConfirm
        ELSE \E t \in known : Decision(t).needConfirm

\* A query that throws counts for no confirmation.
Asks(always, ids) ==
    \/ confirm' = (always \/ NeedsConfirmation(ids)) /\ UNCHANGED faults
    \/ confirm' = always /\ Strikes("db")

Matched ==
    /\ best.rule > 0
    /\ intra' = [toolIds |-> best.toolIds, kind |-> Rules[best.rule].kind]
    /\ Asks(Rules[best.rule].confirm, best.toolIds)

Signal == HasCap(capability) /\ capability = "action" /\ config.signal # "none"

\* resolveActionIntraFromSignal
Signalled ==
    /\ best.rule = 0 /\ Signal
    /\ LET t == config.signal
       IN  IF t \in Tools /\ Enabled(t) /\ TypeOf(t) = "http_query"
           THEN /\ intra' = [toolIds |-> <<t>>, kind |-> "http_query"]
                /\ Asks(FALSE, <<t>>)
           ELSE /\ intra' = [toolIds |-> <<>>, kind |-> "http_query"]
                /\ confirm' = FALSE /\ UNCHANGED faults

Unmatched ==
    /\ best.rule = 0 /\ ~Signal
    /\ intra' = [toolIds |-> <<>>, kind |-> "any"]
    /\ IF HasCap(capability) THEN Asks(FALSE, Dependent)
       ELSE confirm' = FALSE /\ UNCHANGED faults

ConcludeRouting ==
    /\ pc = "rules" /\ at > Len(Rules)
    /\ pc' = "resolve"
    /\ Matched \/ Signalled \/ Unmatched
    /\ UNCHANGED <<configVars, at, capability, toolIds, approval, answer, runVars, cleared, offered, best>>

-----------------------------------------------------------------------------
\* resolveToolIds: the rule's tools, the candidate's, those the capability
\* depends on, or else any enabled tool of the right type.
FallbackTypes ==
    CASE capability = "qa"     -> {}
      [] capability = "action" -> IF intra.kind = "any" THEN ActionTools ELSE {intra.kind}
      [] OTHER                 -> {capability}

Fallbacks == {t \in Tools : Enabled(t) /\ TypeOf(t) \in FallbackTypes}

ResolveToolIds ==
    LET Usable(ids) == OfKind(ids, intra.kind) \ {<<>>}
        sources == <<intra.toolIds, offered, Dependent>>
        good == {i \in DOMAIN sources : Usable(sources[i]) # {}}
    IN  /\ Goes("resolve", IF confirm THEN "interrupt" ELSE "policy")
        /\ \/ \E i \in good : (\A j \in good : i <= j) /\ toolIds' \in Usable(sources[i])
           \/ good = {} /\ \E t \in Fallbacks : toolIds' = <<t>>
           \/ good = {} /\ Fallbacks = {} /\ toolIds' = <<>>
        /\ at' = 1
        /\ UNCHANGED <<configVars, capability, confirm, approval, answer, runVars, cleared, routingVars, faults>>
=============================================================================
