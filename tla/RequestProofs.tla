---------------------------- MODULE RequestProofs ----------------------------
(***************************************************************************)
(* Theorems of ChatRequest, for every configuration, any number of tools,  *)
(* rules, capabilities and steps, and any number of changes meanwhile.     *)
(***************************************************************************)
EXTENDS ChatRequest, FiniteSetTheorems, TLAPS

(***************************************************************************)
(* First choices.                                                          *)
(***************************************************************************)

\* Every set of numbers has a least: the interval up to it is minimal.
LEMMA LeastElement ==
  ASSUME NEW S \in SUBSET Nat, S # {}
  PROVE  \E m \in S : \A k \in S : m <= k
<1> DEFINE Upto(n) == 0..n
           T == {Upto(n) : n \in S}
<1>1. T \subseteq FiniteSubsetsOf(Nat) /\ T # {}
  <2>1. \A n \in S : IsFiniteSet(Upto(n)) /\ Upto(n) \in SUBSET Nat
    BY FS_Interval
  <2> QED
    BY <2>1 DEF FiniteSubsetsOf
<1>2. PICK I \in T : \A J \in T : <<J, I>> \notin StrictSubsetOrdering(Nat)
  BY <1>1, FS_StrictSubsetOrderingWellFounded, WFMin
<1>3. PICK m \in S : I = Upto(m)
  OBVIOUS
<1>4. ASSUME NEW k \in S PROVE m <= k
  <2>1. Upto(k) \in SUBSET Nat /\ Upto(m) \in SUBSET Nat
    OBVIOUS
  <2>2. ~(Upto(k) \subseteq Upto(m) /\ Upto(k) # Upto(m))
    BY <1>2, <1>3, <2>1 DEF StrictSubsetOrdering
  <2>3. CASE k < m
    <3>1. Upto(k) \subseteq Upto(m)
      BY <2>3
    <3>2. m \in Upto(m) /\ m \notin Upto(k)
      BY <2>3
    <3> QED
      BY <2>2, <3>1, <3>2
  <2> QED
    BY <2>3
<1> QED
  BY <1>4

\* The best of finitely many indices by a score, the first of equal ones.
BestIn(S, f, i) == \A j \in S : f[j] < f[i] \/ (f[j] = f[i] /\ i <= j)

LEMMA BestExists ==
  ASSUME NEW n \in Nat, NEW S \in SUBSET (1..n), S # {}, NEW f \in [S -> Nat]
  PROVE  \E i \in S : BestIn(S, f, i)
<1> DEFINE Lacks(U) == U # {} /\ ~\E i \in U : BestIn(U, f, i)
           Bad == {m \in Nat : \E U \in SUBSET S : U \subseteq 1..m /\ Lacks(U)}
<1> SUFFICES ASSUME Lacks(S) PROVE FALSE
  OBVIOUS
<1>1. n \in Bad
  OBVIOUS
<1>2. PICK m \in Bad : \A k \in Bad : m <= k
  BY <1>1, LeastElement
<1>3. PICK U \in SUBSET S : U \subseteq 1..m /\ Lacks(U)
  OBVIOUS
<1> HIDE DEF Bad
<1>4. m \in Nat /\ m # 0
  <2>1. m \in Nat
    BY DEF Bad
  <2>2. PICK u \in U : u \in 1..m
    BY <1>3
  <2> QED
    BY <2>1, <2>2
<1>5. m - 1 \notin Bad
  BY <1>2, <1>4 DEF Bad
<1>6. m \in U
  <2>1. CASE m \notin U
    <3>1. U \subseteq 1..(m-1)
      BY <1>3, <1>4, <2>1
    <3> QED
      BY <1>3, <1>4, <1>5, <3>1 DEF Bad
  <2> QED
    BY <2>1
<1> DEFINE W == U \ {m}
<1>7. W # {}
  <2>1. CASE W = {}
    <3>1. U = {m} /\ f[m] \in Nat
      BY <1>3, <1>6, <2>1
    <3> QED
      BY <1>3, <3>1, <1>4 DEF BestIn
  <2> QED
    BY <2>1
<1>8. W \subseteq 1..(m-1) /\ W \in SUBSET S
  BY <1>3, <1>4
<1>9. PICK i \in W : BestIn(W, f, i)
  BY <1>4, <1>5, <1>7, <1>8 DEF Bad
<1>10. /\ f[i] \in Nat /\ f[m] \in Nat /\ i < m /\ i \in U /\ i \in Nat
       /\ \A j \in U : f[j] \in Nat /\ (j = m \/ j \in W)
  BY <1>3, <1>4, <1>6, <1>8, <1>9
<1>11. CASE f[m] > f[i]
  <2>1. BestIn(U, f, m)
    BY <1>4, <1>9, <1>10, <1>11 DEF BestIn
  <2> QED
    BY <1>3, <1>6, <2>1
<1>12. CASE ~(f[m] > f[i])
  <2>1. BestIn(U, f, i)
    BY <1>4, <1>9, <1>10, <1>12 DEF BestIn
  <2> QED
    BY <1>3, <1>10, <2>1
<1> QED
  BY <1>11, <1>12

(***************************************************************************)
(* Routing.                                                                *)
(***************************************************************************)
LEMMA CapabilityParts ==
  ASSUME config \in Config
  PROVE  /\ Caps \in Seq(Capability)
         /\ \A c \in DOMAIN Caps : /\ Caps[c].type \in CapabilityType
                                   /\ Caps[c].rules \in Seq(RoutingRule)
                                   /\ Caps[c].dependentTools \in Seq(Tools)
<1>1. Caps \in Seq(Capability)
  BY DEF Caps, Config
<1>2. \A c \in DOMAIN Caps : Caps[c] \in Capability
  BY <1>1
<1> QED
  BY <1>1, <1>2 DEF Capability

LEMMA ConfigParts ==
  ASSUME config \in Config
  PROVE  /\ config.allowedTypes \subseteq CapabilityType
         /\ config.pinned \in CapabilityType \cup {"none"}
         /\ config.signal \in {"none", "unknown"} \cup Tools
         /\ config.tools \in [Tools -> Tool]
         /\ config.er \in Diagram
         /\ config.principal \subseteq Dimension /\ config.blacklist \subseteq Tables
         /\ config.policies \in Seq(PolicyRule)
BY DEF Config

LEMMA RuleParts ==
  ASSUME NEW rules \in Seq(RoutingRule), NEW i \in DOMAIN rules
  PROVE  /\ rules[i].score \in Nat /\ rules[i].kind \in ToolKind
         /\ rules[i].toolIds \in Seq(Tools) /\ rules[i].confirm \in BOOLEAN
<1>1. rules[i] \in RoutingRule
  OBVIOUS
<1> QED
  BY <1>1 DEF RoutingRule

\* The best rule of a capability is one of its rules.
LEMMA TopRuleExists ==
  ASSUME config \in Config, NEW c \in DOMAIN Caps, Caps[c].rules # <<>>
  PROVE  TopRule(Caps[c]) \in DOMAIN Caps[c].rules
<1> DEFINE rules == Caps[c].rules
           f == [i \in DOMAIN rules |-> RuleScore(Caps[c], i)]
<1>1. rules \in Seq(RoutingRule) /\ rules # <<>>
  BY CapabilityParts
<1>2. \A i \in DOMAIN rules : RuleScore(Caps[c], i) \in Nat
  BY <1>1, RuleParts DEF RuleScore
<1> HIDE DEF rules
<1>3. /\ Len(rules) \in Nat /\ DOMAIN rules = 1..Len(rules)
      /\ DOMAIN rules # {} /\ f \in [DOMAIN rules -> Nat]
  BY <1>1, <1>2
<1>4. \E i \in DOMAIN rules : BestIn(DOMAIN rules, f, i)
  BY <1>3, BestExists
<1>5. \E i \in DOMAIN rules : \A j \in DOMAIN rules :
        RuleScore(Caps[c], j) < RuleScore(Caps[c], i)
          \/ (RuleScore(Caps[c], j) = RuleScore(Caps[c], i) /\ i <= j)
  BY <1>4 DEF BestIn
<1> QED
  BY <1>5 DEF TopRule, First, rules

LEMMA ScoresAreNumbers ==
  ASSUME config \in Config, NEW c \in DOMAIN Caps
  PROVE  CapScore(c) \in Nat
<1>1. CASE Caps[c].rules = <<>>
  BY <1>1 DEF CapScore
<1>2. CASE Caps[c].rules # <<>>
  BY <1>2, TopRuleExists, CapabilityParts, RuleParts DEF CapScore, RuleScore
<1> QED
  BY <1>1, <1>2

LEMMA FirstByScore ==
  ASSUME config \in Config, NEW C \in SUBSET DOMAIN Caps, C # {}
  PROVE  First(C, CapScore) \in C
<1> DEFINE f == [c \in C |-> CapScore(c)]
<1>1. Len(Caps) \in Nat /\ C \in SUBSET (1..Len(Caps)) /\ f \in [C -> Nat]
  BY CapabilityParts, ScoresAreNumbers
<1>2. \E i \in C : BestIn(C, f, i)
  BY <1>1, BestExists
<1>3. \E i \in C : \A j \in C :
        CapScore(j) < CapScore(i) \/ (CapScore(j) = CapScore(i) /\ i <= j)
  BY <1>2 DEF BestIn
<1> QED
  BY <1>3 DEF First

LEMMA OfferedTools ==
  ASSUME config \in Config, Candidates # {}, NEW type
  PROVE  /\ Offer(type) \in Seq(Tools)
         /\ Caps[First(Candidates, CapScore)].type \in CapabilityType
<1> DEFINE C == IF OfType(Candidates, type) # {} THEN OfType(Candidates, type) ELSE Candidates
           c == First(C, CapScore)
<1>1. C \subseteq Candidates /\ C # {} /\ Candidates \subseteq DOMAIN Caps
  BY DEF OfType, Candidates
<1>2. c \in C /\ First(Candidates, CapScore) \in Candidates
  BY <1>1, FirstByScore
<1>3. Offer(type) = Caps[c].rules[TopRule(Caps[c])].toolIds
  BY DEF Offer
<1> HIDE DEF c, C
<1>4. c \in DOMAIN Caps /\ CapScore(c) > 0
  BY <1>1, <1>2 DEF Candidates
<1>5. Caps[c].rules # <<>>
  BY <1>4 DEF CapScore
<1>6. TopRule(Caps[c]) \in DOMAIN Caps[c].rules /\ Caps[c].rules \in Seq(RoutingRule)
  BY <1>4, <1>5, TopRuleExists, CapabilityParts
<1> QED
  BY <1>1, <1>2, <1>3, <1>6, RuleParts, CapabilityParts

LEMMA FirstCapExists ==
  ASSUME config \in Config, NEW type, HasCap(type)
  PROVE  FirstCap(type) \in DOMAIN Caps /\ Caps[FirstCap(type)].type = type
<1> DEFINE C == OfType(DOMAIN Caps, type)
<1>1. C \in SUBSET Nat /\ C # {}
  BY CapabilityParts DEF OfType, HasCap
<1>2. \E c \in C : \A d \in C : c <= d
  BY <1>1, LeastElement
<1>3. FirstCap(type) \in C
  BY <1>2 DEF FirstCap
<1> QED
  BY <1>3 DEF OfType

LEMMA RulesAreTyped ==
  ASSUME config \in Config
  PROVE  Rules \in Seq(RoutingRule) /\ Dependent \in Seq(Tools)
<1>1. CASE HasCap(capability)
  BY <1>1, FirstCapExists, CapabilityParts DEF Rules, Dependent
<1>2. CASE ~HasCap(capability)
  BY <1>2 DEF Rules, Dependent
<1> QED
  BY <1>1, <1>2

\* The tools of a kind are tools.
LEMMA ToolsOfKind ==
  ASSUME config \in Config, NEW ids \in Seq(Tools), NEW kind
  PROVE  OfKind(ids, kind) \subseteq Seq(Tools)
<1> DEFINE all == {ids[i] : i \in DOMAIN ids}
           fits == all \cap {t \in Tools : Enabled(t) /\ TypeOf(t) = kind}
<1>1. IsFiniteSet(all)
  <2>1. IsFiniteSet(1..Len(ids)) /\ DOMAIN ids = 1..Len(ids)
    BY FS_Interval
  <2>2. ids \in Surjection(1..Len(ids), all)
    BY <2>1 DEF Surjection
  <2> QED
    BY <2>1, <2>2, FS_Surjection
<1>2. Cardinality(fits) \in Nat
  <2>1. fits \in SUBSET all
    OBVIOUS
  <2> HIDE DEF all, fits
  <2> QED
    BY <1>1, <2>1, FS_Subset, FS_CardinalityType
<1>3. OfKind(ids, kind) \subseteq {ids} \cup [1..Cardinality(fits) -> fits]
  BY DEF OfKind
<1>4. fits \subseteq Tools
  OBVIOUS
<1> HIDE DEF fits
<1>5. [1..Cardinality(fits) -> fits] \subseteq Seq(Tools)
  BY <1>2, <1>4
<1> QED
  BY <1>3, <1>5

(***************************************************************************)
(* The inductive invariant.                                                *)
(***************************************************************************)

\* Where nothing has run yet, where a workflow is between two tools, and where a tool is
\* being run.
Early == RoutingPc \cup {"policy", "interrupt", "parked", "handle"}
FlowPc == {"step", "subtool", "record", "settle"}
RunPc == {"invoke"} \cup QueryPc

Steps == StepsOf(Chosen)
Running == flow = "running"
RunsCover(k) == Covers(runs, Steps, k)

\* Where the request is tells whether a workflow runs.
PhaseInv ==
    /\ pc \in Early => runs = <<>> /\ flow = "none" /\ visited = {}
    /\ pc \in Early => at > 0
    /\ pc \in FlowPc => Running
    /\ pc \in RunPc => (at > 0 <=> Running) /\ (flow = "none" \/ Running)
    /\ pc = "summarize" => at = 0
    /\ pc = "reply" => ~Running
    /\ pc \in FlowPc \cup RunPc /\ Running => at \in 1..Len(Steps)
    /\ flow # "none" => capability = "workflow" /\ Given
    /\ pc \in RunPc => tool \in Tools
    /\ pc = "over" /\ Running => faults # NoFaultYet

\* The tools that have run are those of the steps before this one, and of this
\* one once it has succeeded.
SequenceInv ==
    /\ flow # "none" =>
         /\ \A i \in DOMAIN runs : runs[i] \in visited
         /\ \A i, j \in DOMAIN runs : runs[i] = runs[j] => i = j
         /\ \E k \in 0..Len(Steps) : RunsCover(k)
    /\ pc \in {"step", "subtool"} => RunsCover(at - 1)
    /\ pc \in RunPc /\ Running =>
         /\ RunsCover(at - 1)
         /\ tool = Steps[at] /\ tool \in visited
         /\ \A i \in DOMAIN runs : runs[i] # tool
    /\ pc = "record" /\ outcome = "ok" => RunsCover(at)
    /\ pc = "settle" /\ outcome = "ok" => RunsCover(Len(Steps))
    /\ flow = "completed" => RunsCover(Len(Steps))

\* The best of some rules, by score, the first of equal ones.
BestOf(b, S, rules) ==
    IF S = {} THEN b = NoRule
    ELSE /\ b.rule \in S /\ b.score = rules[b.rule].score
         /\ \A i \in S : rules[i].score < b.score \/ (rules[i].score = b.score /\ b.rule <= i)

\* The rules scored so far that have a tool to offer.
Seen == {i \in DOMAIN Rules : i < at /\ Rules[i].score > 0 /\ Eligible(Rules[i])}

RoutedInv ==
    /\ pc \in {"rules", "resolve"} => best.rule \in {0} \cup DOMAIN Rules
    /\ pc = "resolve" => at > Len(Rules)
    /\ pc \in {"rules", "resolve"} /\ edits = 0 => BestOf(best, Seen, Rules)

AllCleared == ~confirm /\ \A i \in DOMAIN toolIds : toolIds[i] \in cleared

ClearedInv ==
    /\ pc \in RoutingPc \cup {"policy", "interrupt"} => approval = "none"
    /\ pc = "policy" =>
         ~confirm /\ \A i \in DOMAIN toolIds : i < at => toolIds[i] \in cleared
    /\ pc \in HandlerPc \cup QueryPc /\ approval = "none" => AllCleared
    /\ runs # <<>> /\ approval = "none" => AllCleared

\* A tool fit to run for the capability.
Fit(row, type) ==
    /\ row.enabled
    /\ type = "query" => row.type = "query"
    /\ type = "action" => row.type \in ActionTools
    /\ type # "qa"

ToolInv ==
    edits = 0 =>
      /\ \A i \in DOMAIN runs : Fit(config.tools[runs[i]], capability)
      /\ pc \in RunPc => Fit(config.tools[tool], capability)

\* A tool that may run unasked.
Unasked(t) == t \in cleared \/ StepOfCleared(t) \/ NamedByMessage(t)

UnaskedInv ==
    approval = "none" =>
      /\ \A i \in DOMAIN runs : Unasked(runs[i])
      /\ pc \in RunPc => Unasked(tool)

ConfinedInv ==
    /\ edits = 0 => clipped \subseteq config.er.tables
    /\ pc \in {"filter", "execute"} => draft \subseteq clipped
    /\ pc = "execute" => draft \X config.principal \subseteq filters

(***************************************************************************)
(* Types.                                                                  *)
(***************************************************************************)
LEMMA EmptySequence == \A S : <<>> \in Seq(S)
OBVIOUS

LEMMA OneMoreTool ==
  ASSUME NEW s \in Seq(Tools), NEW t \in Tools
  PROVE  Append(s, t) \in Seq(Tools)
OBVIOUS

LEMMA ChosenIsTool ==
  ASSUME TypeOK, Given
  PROVE  Chosen \in Tools
BY DEF TypeOK, ContextTypeOK, Given, Chosen

LEMMA StrikesType ==
  ASSUME faults \in [FaultKind -> Nat], Strikes("db")
  PROVE  faults' \in [FaultKind -> Nat] /\ faults' # NoFaultYet
<1>1. "db" \in FaultKind
  BY DEF FaultKind
<1>2. faults' \in [FaultKind -> Nat] /\ faults'["db"] = faults["db"] + 1
  BY <1>1 DEF Strikes
<1>3. NoFaultYet["db"] = 0
  BY <1>1 DEF NoFaultYet
<1> QED
  BY <1>1, <1>2, <1>3

LEMMA InitTypes == Init => TypeOK
<1> SUFFICES ASSUME Init PROVE TypeOK
  OBVIOUS
<1>1. ContextTypeOK
  <2>1. config \in Config /\ edits \in Nat /\ at \in Nat /\ pc \in Pc
    BY ConfigsAssumption DEF Init, ContextInit, Pc, RoutingPc
  <2>2. toolIds \in Seq(Tools) /\ runs \in Seq(Tools)
    BY EmptySequence DEF Init, ContextInit
  <2> QED
    BY <2>1, <2>2 DEF Init, ContextInit, ContextTypeOK, CapabilityType
<1>2. RoutingTypeOK
  BY DEF Init, RoutingInit, RoutingTypeOK, NoRule, ToolKind, ActionTools
<1>3. HandlerTypeOK
  <2>1. steps \in Seq({"running", "completed", "failed"})
    BY EmptySequence DEF Init, HandlerInit
  <2>2. QueryTypeOK
    <3>1. binds \in [Tables -> SUBSET Dimension]
      BY DEF Init, HandlerInit, QueryInit
    <3>2. attempt = 0 /\ sound = FALSE /\ clipped = {} /\ draft = {} /\ named = {}
      BY DEF Init, HandlerInit, QueryInit
    <3>3. filters = {} /\ sent = {}
      BY DEF Init, HandlerInit, QueryInit
    <3>4. attempt \in 0..1
      BY <3>2
    <3>6. /\ sound \in BOOLEAN /\ clipped \subseteq Tables
          /\ draft \subseteq Tables /\ named \subseteq Tables
      BY <3>2, Zenon
    <3>5. /\ filters \subseteq Filters
          /\ sent \subseteq [listed : SUBSET Tables, named : SUBSET Tables, filters : SUBSET Filters]
      BY <3>3
    <3> QED
      BY <3>1, <3>4, <3>5, <3>6 DEF QueryTypeOK
  <2> QED
    BY <2>1, <2>2 DEF Init, HandlerInit, HandlerTypeOK
<1>4. faults \in [FaultKind -> Nat]
  BY DEF Init, NoFaultYet
<1> QED
  BY <1>1, <1>2, <1>3, <1>4 DEF TypeOK

\* routeCapability
LEMMA RouteCapabilityTypes ==
  ASSUME TypeOK, RouteCapability, UNCHANGED <<queryVars, flowVars>>
  PROVE  TypeOK'
<1>1. config \in Config
  BY DEF TypeOK, ContextTypeOK
<1>2. capability' \in CapabilityType /\ offered' \in Seq(Tools)
  <2>1. CASE Unopened \/ NoCapability
    BY <2>1, EmptySequence DEF Unopened, NoCapability, CapabilityType
  <2>2. CASE Pinned
    BY <1>1, <2>2, ConfigParts, FirstCapExists, CapabilityParts DEF Pinned
  <2>3. CASE Scored
    <3>1. capability' \in CapabilityType
      BY <1>1, <2>3, OfferedTools, ConfigParts DEF Scored
    <3>2. offered' = Offer(capability') /\ Candidates # {}
      BY <2>3 DEF Scored
    <3> QED
      BY <1>1, <3>1, <3>2, OfferedTools
  <2>4. CASE Guessed
    BY <1>1, <2>4, ConfigParts DEF Guessed
  <2> QED
    BY <2>1, <2>2, <2>3, <2>4 DEF RouteCapability
<1>3. ContextTypeOK'
  BY <1>2 DEF RouteCapability, Goes, TypeOK, ContextTypeOK, configVars, runVars, Pc, RoutingPc
<1>4. RoutingTypeOK'
  BY <1>2 DEF RouteCapability, TypeOK, RoutingTypeOK, NoRule
<1>5. HandlerTypeOK' /\ faults' \in [FaultKind -> Nat]
  BY DEF RouteCapability, TypeOK, HandlerTypeOK, QueryTypeOK, queryVars, flowVars
<1> QED
  BY <1>3, <1>4, <1>5 DEF TypeOK

\* routeWithinCapability
LEMMA ScoreRuleTypes ==
  ASSUME TypeOK, PhaseInv, ScoreRule, UNCHANGED <<queryVars, flowVars>>
  PROVE  TypeOK'
<1>1. config \in Config /\ at \in Nat /\ at > 0 /\ at <= Len(Rules)
  BY DEF TypeOK, ContextTypeOK, PhaseInv, Early, RoutingPc, ScoreRule
<1>2. RoutingTypeOK'
  <2>1. CASE UNCHANGED best
    BY <2>1 DEF ScoreRule, TypeOK, RoutingTypeOK
  <2>2. CASE Better(Rules[at]) /\ Eligible(Rules[at])
    <3>1. at \in DOMAIN Rules /\ Rules \in Seq(RoutingRule)
      BY <1>1, RulesAreTyped
    <3>2. Rules[at].score \in Nat /\ Rules[at].toolIds \in Seq(Tools)
      BY <3>1, RuleParts
    <3>3. PICK s \in OfKind(Rules[at].toolIds, Rules[at].kind) :
            best' = [rule |-> at, score |-> Rules[at].score, toolIds |-> s]
      BY <2>2 DEF ScoreRule
    <3>4. s \in Seq(Tools)
      BY <1>1, <3>2, <3>3, ToolsOfKind
    <3> QED
      BY <1>1, <3>2, <3>3, <3>4 DEF ScoreRule, TypeOK, RoutingTypeOK
  <2> QED
    BY <2>1, <2>2 DEF ScoreRule
<1>3. ContextTypeOK'
  BY DEF ScoreRule, TypeOK, ContextTypeOK, configVars, ctxVars, runVars
<1>4. HandlerTypeOK' /\ faults' \in [FaultKind -> Nat]
  BY DEF ScoreRule, TypeOK, HandlerTypeOK, QueryTypeOK, queryVars, flowVars
<1> QED
  BY <1>2, <1>3, <1>4 DEF TypeOK

LEMMA AsksTypes ==
  ASSUME TypeOK, NEW always \in BOOLEAN, NEW ids, Asks(always, ids)
  PROVE  confirm' \in BOOLEAN /\ faults' \in [FaultKind -> Nat]
BY StrikesType DEF Asks, TypeOK, NeedsConfirmation, Evaluate

LEMMA ConcludeTypes ==
  ASSUME TypeOK, RoutedInv, ConcludeRouting, UNCHANGED <<queryVars, flowVars>>
  PROVE  TypeOK'
<1>1. config \in Config /\ Rules \in Seq(RoutingRule) /\ Dependent \in Seq(Tools)
  BY RulesAreTyped DEF TypeOK, ContextTypeOK
<1>2. /\ intra' \in [toolIds : Seq(Tools), kind : ToolKind]
      /\ confirm' \in BOOLEAN /\ faults' \in [FaultKind -> Nat]
  <2>1. CASE Matched
    <3>1. best.rule \in DOMAIN Rules /\ best.toolIds \in Seq(Tools)
      BY <2>1 DEF Matched, ConcludeRouting, RoutedInv, TypeOK, RoutingTypeOK
    <3>2. Rules[best.rule].kind \in ToolKind /\ Rules[best.rule].confirm \in BOOLEAN
      BY <1>1, <3>1, RuleParts
    <3> QED
      BY <2>1, <3>1, <3>2, AsksTypes DEF Matched
  <2>2. CASE Signalled
    <3> DEFINE t == config.signal
    <3>1. "http_query" \in ToolKind /\ FALSE \in BOOLEAN
      BY DEF ToolKind, ActionTools
    <3>2. CASE t \in Tools /\ Enabled(t) /\ TypeOf(t) = "http_query"
      <4>1. intra' = [toolIds |-> <<t>>, kind |-> "http_query"] /\ Asks(FALSE, <<t>>)
        BY <2>2, <3>2 DEF Signalled
      <4>2. <<t>> \in Seq(Tools)
        BY <3>2
      <4> QED
        BY <3>1, <4>1, <4>2, AsksTypes
    <3>3. CASE ~(t \in Tools /\ Enabled(t) /\ TypeOf(t) = "http_query")
      <4>1. /\ intra' = [toolIds |-> <<>>, kind |-> "http_query"]
            /\ confirm' = FALSE /\ UNCHANGED faults
        BY <2>2, <3>3 DEF Signalled
      <4> QED
        BY <3>1, <4>1, EmptySequence DEF TypeOK
    <3> QED
      BY <3>2, <3>3
  <2>3. CASE Unmatched
    <3>1. "any" \in ToolKind /\ FALSE \in BOOLEAN
      BY DEF ToolKind
    <3>2. CASE Asks(FALSE, Dependent)
      BY <2>3, <3>1, <3>2, AsksTypes, EmptySequence DEF Unmatched
    <3> QED
      BY <2>3, <3>1, <3>2, EmptySequence DEF Unmatched, TypeOK
  <2> QED
    BY <2>1, <2>2, <2>3 DEF ConcludeRouting
<1>3. ContextTypeOK'
  BY <1>2 DEF ConcludeRouting, TypeOK, ContextTypeOK, configVars, runVars, Pc, RoutingPc
<1>4. RoutingTypeOK' /\ HandlerTypeOK'
  BY <1>2 DEF ConcludeRouting, TypeOK, RoutingTypeOK, HandlerTypeOK, QueryTypeOK, queryVars,
              flowVars
<1> QED
  BY <1>2, <1>3, <1>4 DEF TypeOK

\* resolveToolIds
LEMMA ResolvedTools ==
  ASSUME TypeOK, ResolveToolIds
  PROVE  toolIds' \in Seq(Tools)
<1> DEFINE Usable(ids) == OfKind(ids, intra.kind) \ {<<>>}
           sources == <<intra.toolIds, offered, Dependent>>
<1>1. \/ \E i \in DOMAIN sources : toolIds' \in Usable(sources[i])
      \/ \E t \in Fallbacks : toolIds' = <<t>>
      \/ toolIds' = <<>>
  BY DEF ResolveToolIds
<1>2. DOMAIN sources = 1..3 /\ \A i \in 1..3 : sources[i] \in Seq(Tools)
  BY RulesAreTyped DEF TypeOK, ContextTypeOK, RoutingTypeOK
<1>3. \A i \in 1..3 : Usable(sources[i]) \subseteq Seq(Tools)
  BY <1>2, ToolsOfKind DEF TypeOK, ContextTypeOK
<1>4. \A t \in Fallbacks : <<t>> \in Seq(Tools)
  BY DEF Fallbacks
<1> HIDE DEF Usable, sources
<1> QED
  BY <1>1, <1>2, <1>3, <1>4, EmptySequence

LEMMA ResolveTypes ==
  ASSUME TypeOK, ResolveToolIds, UNCHANGED <<queryVars, flowVars>>
  PROVE  TypeOK'
<1>1. /\ pc' \in Pc /\ at' = 1
      /\ UNCHANGED <<configVars, capability, confirm, approval, answer, runVars, cleared,
                     routingVars, faults>>
  BY DEF ResolveToolIds, Goes, Pc
<1>2. ContextTypeOK'
  BY <1>1, ResolvedTools DEF TypeOK, ContextTypeOK, configVars, runVars
<1> QED
  BY <1>1, <1>2
     DEF TypeOK, RoutingTypeOK, HandlerTypeOK, QueryTypeOK, routingVars, queryVars, flowVars

\* The policy, the interruption and what an approval makes of it.
LEMMA RuntimeTypes ==
  ASSUME TypeOK, PhaseInv,
         CheckPolicy \/ Interrupt \/ Approve \/ Reject \/ TimeOut \/ Reply \/ OrchestrationThrows
  PROVE  TypeOK'
<1>1. /\ UNCHANGED <<configVars, ctxVars, runVars, routingVars, queryVars, flowVars>>
  BY DEF CheckPolicy, Interrupt, Approve, Reject, TimeOut, Reply, OrchestrationThrows, RuntimeOnly
<1>2. /\ pc' \in Pc /\ at' \in Nat /\ cleared' \subseteq Tools
      /\ approval' \in {"none", "pending", "approved", "rejected"}
      /\ answer' \in {"none", "confirm", "denied", "done", "failed"}
      /\ faults' \in [FaultKind -> Nat]
  <2> USE DEF TypeOK, ContextTypeOK, Pc, Goes
  <2>1. CASE CheckPolicy
    <3>1. pc = "policy" /\ at > 0
      BY <2>1 DEF CheckPolicy, PhaseInv, Early
    <3>2. CASE at > Len(toolIds)
      BY <2>1, <3>2 DEF CheckPolicy, HandlerPc
    <3>3. CASE ~(at > Len(toolIds))
      <4>1. toolIds[at] \in Tools
        BY <3>1, <3>3
      <4> QED
        BY <2>1, <3>1, <3>3, <4>1 DEF CheckPolicy
    <3> QED
      BY <3>2, <3>3
  <2>2. CASE Interrupt
    BY <2>2, StrikesType DEF Interrupt
  <2>3. CASE Approve \/ Reject
    BY <2>3 DEF Approve, Reject, HandlerPc
  <2>4. CASE TimeOut \/ Reply
    BY <2>4 DEF TimeOut, Reply
  <2>5. CASE OrchestrationThrows
    BY <2>5, StrikesType DEF OrchestrationThrows
  <2> QED
    BY <2>1, <2>2, <2>3, <2>4, <2>5
<1>3. ContextTypeOK'
  BY <1>1, <1>2 DEF TypeOK, ContextTypeOK, configVars, ctxVars, runVars
<1> QED
  BY <1>1, <1>2, <1>3
     DEF TypeOK, RoutingTypeOK, HandlerTypeOK, QueryTypeOK, routingVars, queryVars, flowVars

\* What the configuration keeps of a tool when an administrator has changed it.
LEMMA EditKeeps ==
  ASSUME TypeOK, Edit
  PROVE  /\ config' \in Config /\ edits' = edits + 1
         /\ config'.capabilities = config.capabilities
         /\ config'.principal = config.principal /\ config'.blacklist = config.blacklist
         /\ config'.signal = config.signal
         /\ \A t \in Tools : /\ config'.tools[t].steps = config.tools[t].steps
                             /\ config'.tools[t].type = config.tools[t].type
<1>1. config \in Config
  BY DEF TypeOK, ContextTypeOK
<1>2. ASSUME NEW t \in Tools, config' = [config EXCEPT !.tools[t].enabled = ~@]
      PROVE  /\ config' \in Config
             /\ config'.capabilities = config.capabilities
             /\ config'.principal = config.principal /\ config'.blacklist = config.blacklist
             /\ config'.signal = config.signal
             /\ \A u \in Tools : /\ config'.tools[u].steps = config.tools[u].steps
                                 /\ config'.tools[u].type = config.tools[u].type
  <2> DEFINE row == [config.tools[t] EXCEPT !.enabled = ~@]
             rows == [config.tools EXCEPT ![t] = row]
  <2>1. config.tools \in [Tools -> Tool] /\ config.tools[t] \in Tool
    BY <1>1, ConfigParts
  <2>2. row \in Tool /\ row.steps = config.tools[t].steps /\ row.type = config.tools[t].type
    BY <2>1 DEF Tool
  <2>3. config' = [config EXCEPT !.tools = rows]
    BY <1>1, <1>2, <2>1 DEF Config, Tool
  <2> HIDE DEF row
  <2>4. rows \in [Tools -> Tool]
        /\ \A u \in Tools : rows[u] = IF u = t THEN row ELSE config.tools[u]
    BY <2>1, <2>2
  <2> HIDE DEF rows
  <2>5. config' \in Config /\ config'.tools = rows
    BY <1>1, <2>3, <2>4 DEF Config
  <2>6. /\ config'.capabilities = config.capabilities
        /\ config'.principal = config.principal /\ config'.blacklist = config.blacklist
        /\ config'.signal = config.signal
    BY <1>1, <2>3 DEF Config
  <2> QED
    BY <2>2, <2>4, <2>5, <2>6
<1>3. ASSUME NEW d \in Diagrams, config' = [config EXCEPT !.er = d]
      PROVE  /\ config' \in Config /\ config'.tools = config.tools
             /\ config'.capabilities = config.capabilities
             /\ config'.principal = config.principal /\ config'.blacklist = config.blacklist
             /\ config'.signal = config.signal
  BY <1>1, <1>3, ConfigsAssumption DEF Config
<1>4. ASSUME NEW rules \in RuleLists, config' = [config EXCEPT !.policies = rules]
      PROVE  /\ config' \in Config /\ config'.tools = config.tools
             /\ config'.capabilities = config.capabilities
             /\ config'.principal = config.principal /\ config'.blacklist = config.blacklist
             /\ config'.signal = config.signal
  BY <1>1, <1>4, ConfigsAssumption DEF Config
<1> QED
  BY <1>2, <1>3, <1>4 DEF Edit

LEMMA EditTypes ==
  ASSUME TypeOK, Edit, UNCHANGED <<routingVars, queryVars, flowVars, faults>>
  PROVE  TypeOK'
<1>1. ContextTypeOK'
  BY EditKeeps DEF Edit, TypeOK, ContextTypeOK, ctxVars, runVars
<1> QED
  BY <1>1
     DEF TypeOK, RoutingTypeOK, HandlerTypeOK, QueryTypeOK, routingVars, queryVars, flowVars

\* A query tool.
LEMMA ReturnsTypes ==
  ASSUME NEW from, NEW result \in {"ok", "failed"}, Returns(from, result)
  PROVE  pc' \in Pc /\ outcome' \in {"none", "ok", "failed"}
BY DEF Returns, Goes, Pc, HandlerPc

LEMMA QueryStepTypes ==
  ASSUME TypeOK, PhaseInv, RunQuery
  PROVE  /\ pc' \in Pc /\ outcome' \in {"none", "ok", "failed"}
         /\ runs' \in Seq(Tools) /\ QueryTypeOK'
<1> USE DEF TypeOK, ContextTypeOK, HandlerTypeOK, QueryTypeOK, queryVars
<1>0. pc \in RunPc => tool \in Tools
  BY DEF PhaseInv
<1>1. {"clip", "ask", "check", "filter", "execute", "summarize"} \subseteq Pc
  BY DEF Pc, QueryPc
<1>2. CASE ResolveScope
  <2>1. config.er.binds \in [Tables -> SUBSET Dimension]
    BY ConfigParts DEF Diagram
  <2> QED
    BY <1>1, <1>2, <2>1, ReturnsTypes DEF ResolveScope, QueryFails, Goes
<1>3. CASE ClipDiagram
  <2>1. config.er.tables \subseteq Tables
    BY ConfigParts DEF Diagram
  <2> QED
    BY <1>1, <1>3, <2>1, ReturnsTypes DEF ClipDiagram, QueryFails, Goes
<1>4. CASE AskModel
  BY <1>1, <1>4, ReturnsTypes DEF AskModel, QueryFails, Goes
<1>5. CASE CheckStatement
  BY <1>1, <1>5, ReturnsTypes DEF CheckStatement, QueryFails, Goes
<1>6. CASE ApplyScope
  <2>1. draft \X config.principal \subseteq Filters
    BY ConfigParts DEF Filters
  <2> QED
    BY <1>1, <1>6, <2>1, ReturnsTypes DEF ApplyScope, QueryFails, Goes
<1>7. CASE ExecuteSql
  <2>1. /\ pc' \in Pc /\ outcome' \in {"none", "ok", "failed"}
        /\ UNCHANGED <<binds, clipped, attempt, draft, named, sound, filters>>
    <3>1. \/ Goes("execute", "summarize") /\ UNCHANGED outcome
          \/ \E result \in {"ok", "failed"} : Returns("execute", result)
      BY <1>7 DEF ExecuteSql
    <3> QED
      BY <1>1, <1>7, <3>1, ReturnsTypes DEF ExecuteSql, Goes
  <2>2. pc = "execute"
    BY <1>7 DEF ExecuteSql, Returns, Goes
  <2>3. tool \in Tools
    BY <1>0, <2>2 DEF RunPc, QueryPc
  <2>4. runs' \in Seq(Tools)
    <3>1. runs' = Append(runs, tool) \/ runs' = runs
      BY <1>7 DEF ExecuteSql
    <3> QED
      BY <2>3, <3>1, OneMoreTool
  <2>5. \/ sent' = sent
        \/ sent' = sent \cup {[listed |-> draft, named |-> named, filters |-> filters]}
    BY <1>7 DEF ExecuteSql
  <2> QED
    BY <2>1, <2>4, <2>5
<1>8. CASE Summarize
  BY <1>1, <1>8, ReturnsTypes DEF Summarize
<1> QED
  BY <1>2, <1>3, <1>4, <1>5, <1>6, <1>7, <1>8 DEF RunQuery

LEMMA QueryTypes ==
  ASSUME TypeOK, PhaseInv, RunQuery, UNCHANGED <<flowVars, routingVars>>
  PROVE  TypeOK'
<1>1. UNCHANGED <<configVars, at, ctxVars, approval, answer, tool, cleared, faults>>
  BY DEF RunQuery, ResolveScope, ClipDiagram, AskModel, CheckStatement, ApplyScope, ExecuteSql,
         Summarize, QueryOnly
<1>2. ContextTypeOK'
  BY <1>1, QueryStepTypes DEF TypeOK, ContextTypeOK, configVars, ctxVars
<1> QED
  BY <1>1, <1>2, QueryStepTypes DEF TypeOK, RoutingTypeOK, HandlerTypeOK, flowVars, routingVars

\* The handlers.
LEMMA HandleTypes ==
  ASSUME TypeOK, Handle, UNCHANGED routingVars
  PROVE  TypeOK'
<1> USE DEF Goes
<1>1. /\ UNCHANGED <<configVars, ctxVars, approval, cleared, queryVars, answer, runs, faults>>
      /\ at' \in Nat
  BY DEF Handle, HandlerOnly
<1>2. /\ pc' \in Pc /\ outcome' \in {"none", "ok", "failed"} /\ tool' \in Tools \cup {NoTool}
      /\ flow' \in {"none", "running", "completed", "failed"} /\ UNCHANGED <<steps, visited>>
  <2>1. {"reply", "invoke", "scope", "step"} \subseteq Pc
    BY DEF Pc, HandlerPc, QueryPc
  <2>2. /\ tool \in Tools \cup {NoTool} /\ outcome \in {"none", "ok", "failed"}
        /\ flow \in {"none", "running", "completed", "failed"}
    BY DEF TypeOK, ContextTypeOK, HandlerTypeOK
  <2>3. CASE HandleQa
    BY <2>1, <2>2, <2>3 DEF HandleQa, Gives, flowVars
  <2>4. CASE HandleQuery
    BY <2>1, <2>2, <2>4, ChosenIsTool DEF HandleQuery, Uses, Gives, flowVars
  <2>5. CASE HandleAction
    BY <2>1, <2>2, <2>5, ChosenIsTool DEF HandleAction, FromSignal, Uses, Gives, flowVars
  <2>6. CASE HandleWorkflow
    BY <2>1, <2>2, <2>6 DEF HandleWorkflow, Gives, flowVars
  <2> QED
    BY <2>3, <2>4, <2>5, <2>6 DEF Handle
<1>3. ContextTypeOK'
  BY <1>1, <1>2 DEF TypeOK, ContextTypeOK, configVars, ctxVars
<1> QED
  BY <1>1, <1>2, <1>3 DEF TypeOK, RoutingTypeOK, HandlerTypeOK, QueryTypeOK, queryVars, routingVars

LEMMA MarkedType ==
  ASSUME TypeOK, NEW status \in {"completed", "failed"}, Marked(status)
  PROVE  steps' \in Seq({"running", "completed", "failed"})
<1> DEFINE S == {"running", "completed", "failed"}
<1>1. steps \in Seq(S) /\ status \in S
  BY DEF TypeOK, HandlerTypeOK
<1> HIDE DEF S
<1>2. steps \in [1..Len(steps) -> S] /\ Len(steps) \in Nat
  BY <1>1
<1>3. [steps EXCEPT ![at] = status] \in [1..Len(steps) -> S]
  BY <1>1, <1>2
<1>4. steps' \in Seq(S)
  BY <1>2, <1>3 DEF Marked
<1> QED
  BY <1>4 DEF S

LEMMA WorkflowTypes ==
  ASSUME TypeOK, PhaseInv, UNCHANGED routingVars,
         InvokeTool \/ StartStep \/ RunSubTool \/ RecordStep \/ SettleWorkflow \/ WorkflowThrows
  PROVE  TypeOK'
<1> USE DEF Goes
<1>1. UNCHANGED <<configVars, ctxVars, approval, cleared, queryVars>>
  BY DEF InvokeTool, StartStep, RunSubTool, RecordStep, SettleWorkflow, WorkflowThrows, HandlerOnly
<1>2. {"reply", "invoke", "scope", "step", "subtool", "record", "settle", "over"} \subseteq Pc
  BY DEF Pc, HandlerPc, QueryPc
<1>3. /\ pc' \in Pc /\ at' \in Nat /\ tool' \in Tools \cup {NoTool}
      /\ outcome' \in {"none", "ok", "failed"}
      /\ runs' \in Seq(Tools) /\ answer' \in {"none", "confirm", "denied", "done", "failed"}
      /\ flow' \in {"none", "running", "completed", "failed"}
      /\ steps' \in Seq({"running", "completed", "failed"}) /\ visited' \subseteq Tools
      /\ faults' \in [FaultKind -> Nat]
  <2> USE DEF TypeOK, ContextTypeOK, HandlerTypeOK
  <2>1. CASE InvokeTool
    <3>1. pc = "invoke"
      BY <2>1 DEF InvokeTool, Returns
    <3>2. tool \in Tools
      BY <3>1 DEF PhaseInv, RunPc
    <3>3. pc' \in Pc /\ outcome' \in {"none", "ok", "failed"}
      <4>1. \E result \in {"ok", "failed"} : Returns("invoke", result)
        BY <2>1 DEF InvokeTool
      <4> QED
        BY <4>1, ReturnsTypes
    <3>4. runs' \in Seq(Tools)
      <4>1. runs' = Append(runs, tool) \/ runs' = runs
        BY <2>1 DEF InvokeTool
      <4> QED
        BY <3>2, <4>1, OneMoreTool
    <3> QED
      BY <2>1, <3>3, <3>4 DEF InvokeTool, flowVars
  <2>2. CASE StartStep
    BY <1>2, <2>2 DEF StartStep, runVars
  <2>3. CASE RunSubTool
    <3>1. pc' \in Pc /\ outcome' \in {"none", "ok", "failed"}
      BY <1>2, <2>3, ReturnsTypes DEF RunSubTool
    <3>2. tool' \in Tools \cup {NoTool} /\ visited' \subseteq Tools
      BY <2>3 DEF RunSubTool
    <3> QED
      BY <2>3, <3>1, <3>2 DEF RunSubTool
  <2>4. CASE RecordStep
    <3>1. pc' \in Pc /\ at' \in Nat
      BY <1>2, <2>4 DEF RecordStep
    <3>2. steps' \in Seq({"running", "completed", "failed"})
      BY <2>4, MarkedType DEF RecordStep
    <3> QED
      BY <2>4, <3>1, <3>2 DEF RecordStep, runVars
  <2>5. CASE SettleWorkflow
    BY <1>2, <2>5 DEF SettleWorkflow, runVars
  <2>6. CASE WorkflowThrows
    BY <1>2, <2>6, StrikesType DEF WorkflowThrows, flowVars
  <2> QED
    BY <2>1, <2>2, <2>3, <2>4, <2>5, <2>6
<1>4. ContextTypeOK'
  BY <1>1, <1>3 DEF TypeOK, ContextTypeOK, configVars, ctxVars
<1> QED
  BY <1>1, <1>3, <1>4 DEF TypeOK, RoutingTypeOK, HandlerTypeOK, QueryTypeOK, queryVars, routingVars

LEMMA NextTypes ==
  ASSUME TypeOK, PhaseInv, RoutedInv, [Next]_vars
  PROVE  TypeOK'
<1>1. CASE UNCHANGED vars
  BY <1>1
     DEF vars, contextVars, configVars, ctxVars, runVars, routingVars, queryVars, flowVars, TypeOK,
         ContextTypeOK, RoutingTypeOK, HandlerTypeOK, QueryTypeOK
<1> QED
  BY <1>1, RouteCapabilityTypes, ScoreRuleTypes, ConcludeTypes, ResolveTypes, RuntimeTypes, EditTypes,
     QueryTypes, HandleTypes, WorkflowTypes
     DEF Next, Route, RunHandler

(***************************************************************************)
(* Where the request is.                                                   *)
(***************************************************************************)
LEMMA EarlyPhase ==
  ASSUME pc' \in Early, at' > 0, runs' = <<>>, flow' = "none", visited' = {}
  PROVE  PhaseInv'
BY DEF PhaseInv, Running, Early, RoutingPc, FlowPc, RunPc, QueryPc

LEMMA LatePhase ==
  ASSUME pc' \in {"reply", "over"},
         Running' => pc' = "over" /\ faults' # NoFaultYet,
         flow' # "none" => capability' = "workflow" /\ Given'
  PROVE  PhaseInv'
BY DEF PhaseInv, Running, Early, RoutingPc, FlowPc, RunPc, QueryPc

LEMMA FlowPhase ==
  ASSUME pc' \in FlowPc, Running', capability' = "workflow", Given', at' \in 1..Len(Steps')
  PROVE  PhaseInv'
BY DEF PhaseInv, Running, Early, RoutingPc, FlowPc, RunPc, QueryPc

LEMMA RoutePhase ==
  ASSUME TypeOK, PhaseInv, Route, UNCHANGED <<queryVars, flowVars>>
  PROVE  PhaseInv'
<1>1. pc \in Early /\ pc' \in Early /\ at' > 0
  BY DEF Route, RouteCapability, ScoreRule, ConcludeRouting, ResolveToolIds, Goes, Early, RoutingPc,
         PhaseInv, TypeOK, ContextTypeOK
<1>2. UNCHANGED <<runs, flow, visited>>
  BY DEF Route, RouteCapability, ScoreRule, ConcludeRouting, ResolveToolIds, runVars, flowVars
<1> QED
  BY <1>1, <1>2, EarlyPhase DEF PhaseInv

LEMMA RuntimePhase ==
  ASSUME TypeOK, PhaseInv,
         CheckPolicy \/ Interrupt \/ Approve \/ Reject \/ TimeOut \/ Reply \/ OrchestrationThrows
  PROVE  PhaseInv'
<1> USE DEF Goes
<1>1. UNCHANGED <<config, edits, capability, toolIds, confirm, tool, outcome, runs, flow, steps, visited>>
  BY DEF CheckPolicy, Interrupt, Approve, Reject, TimeOut, Reply, OrchestrationThrows, RuntimeOnly,
         configVars, ctxVars, runVars, flowVars
<1>2. flow' # "none" => capability' = "workflow" /\ Given'
  BY <1>1 DEF PhaseInv, Given
<1>3. CASE CheckPolicy
  <2>1. pc \in Early /\ at \in Nat /\ (pc' = "over" \/ (pc' \in Early /\ at' > 0))
    BY <1>3 DEF CheckPolicy, Early, PhaseInv, TypeOK, ContextTypeOK
  <2> QED
    BY <1>1, <1>2, <2>1, EarlyPhase, LatePhase DEF PhaseInv, Running
<1>4. CASE Interrupt \/ Approve
  <2>1. pc \in Early /\ pc' \in Early /\ at' = at
    BY <1>4 DEF Interrupt, Approve, Early
  <2> QED
    BY <1>1, <2>1, EarlyPhase DEF PhaseInv
<1>5. CASE Reject
  <2>1. pc \in Early /\ pc' = "over"
    BY <1>5 DEF Reject, Early
  <2> QED
    BY <1>1, <1>2, <2>1, LatePhase DEF PhaseInv, Running
<1>6. CASE TimeOut
  <2>1. UNCHANGED <<pc, at, faults>>
    BY <1>6 DEF TimeOut
  <2> QED
    BY <1>1, <2>1 DEF PhaseInv, Running, Steps, StepsOf, Chosen, Given
<1>7. CASE Reply
  <2>1. pc = "reply" /\ pc' = "over"
    BY <1>7 DEF Reply
  <2> QED
    BY <1>1, <1>2, <2>1, LatePhase DEF PhaseInv, Running
<1>8. CASE OrchestrationThrows
  <2>1. pc' = "over" /\ faults' # NoFaultYet
    BY <1>8, StrikesType DEF OrchestrationThrows, TypeOK
  <2> QED
    BY <1>2, <2>1, LatePhase
<1> QED
  BY <1>3, <1>4, <1>5, <1>6, <1>7, <1>8

\* A change of the configuration leaves the steps of the workflow as they are.
LEMMA EditSteps ==
  ASSUME TypeOK, Edit, Given
  PROVE  Steps' = Steps
<1>1. Chosen \in Tools /\ toolIds' = toolIds
  BY ChosenIsTool DEF Edit, ctxVars
<1> QED
  BY <1>1, EditKeeps DEF Steps, StepsOf, Chosen

LEMMA EditPhase ==
  ASSUME TypeOK, PhaseInv, Edit, UNCHANGED <<routingVars, queryVars, flowVars, faults>>
  PROVE  PhaseInv'
<1>1. UNCHANGED <<pc, at, capability, toolIds, tool, outcome, runs, flow, visited, faults>>
  BY DEF Edit, ctxVars, runVars, flowVars
<1>2. Running => Steps' = Steps
  BY EditSteps DEF PhaseInv, Running
<1> QED
  BY <1>1, <1>2 DEF PhaseInv, Running, Given

\* Where a query goes from where it is.
LEMMA QueryMoves ==
  ASSUME TypeOK, PhaseInv, RunQuery
  PROVE  /\ pc \in QueryPc
         /\ UNCHANGED <<configVars, at, ctxVars, approval, answer, tool, cleared, faults>>
         /\ \/ pc' \in QueryPc \ {"summarize"} /\ UNCHANGED <<runs, outcome>>
            \/ pc' = "summarize" /\ at = 0 /\ runs' = Append(runs, tool)
            \/ /\ pc' = (IF at > 0 THEN "record" ELSE "reply")
               /\ \/ outcome' = "ok" /\ (at > 0 => runs' = Append(runs, tool))
                  \/ outcome' = "failed"
         /\ runs' = runs \/ runs' = Append(runs, tool)
<1> USE DEF Goes, Returns, QueryOnly, QueryPc
<1>1. CASE ResolveScope
  BY <1>1 DEF ResolveScope, QueryFails, RunQuery
<1>2. CASE ClipDiagram
  BY <1>2 DEF ClipDiagram, QueryFails, RunQuery
<1>3. CASE AskModel
  BY <1>3 DEF AskModel, QueryFails, RunQuery
<1>4. CASE CheckStatement
  BY <1>4 DEF CheckStatement, QueryFails, RunQuery
<1>5. CASE ApplyScope
  BY <1>5 DEF ApplyScope, QueryFails, RunQuery
<1>6. CASE ExecuteSql
  BY <1>6 DEF ExecuteSql, RunQuery
<1>7. CASE Summarize
  BY <1>7 DEF Summarize, RunQuery, PhaseInv
<1> QED
  BY <1>1, <1>2, <1>3, <1>4, <1>5, <1>6, <1>7 DEF RunQuery

LEMMA QueryPhase ==
  ASSUME TypeOK, PhaseInv, RunQuery, UNCHANGED <<flowVars, routingVars>>
  PROVE  PhaseInv'
<1>1. /\ pc \in RunPc /\ tool \in Tools /\ at \in Nat
      /\ UNCHANGED <<config, at, capability, toolIds, tool, flow, steps, visited, faults>>
  BY QueryMoves DEF RunPc, configVars, ctxVars, flowVars, PhaseInv, TypeOK, ContextTypeOK
<1>2. /\ at > 0 <=> Running
      /\ Running => at \in 1..Len(Steps)
      /\ flow # "none" => capability = "workflow" /\ Given
  BY <1>1 DEF PhaseInv
<1>3. /\ Running' = Running /\ Steps' = Steps /\ Given' = Given
  BY <1>1 DEF Running, Steps, StepsOf, Chosen, Given
<1>4. CASE pc' \in QueryPc /\ (pc' = "summarize" => at = 0)
  BY <1>1, <1>2, <1>3, <1>4
     DEF PhaseInv, Early, RoutingPc, FlowPc, RunPc, QueryPc
<1>5. CASE pc' = (IF at > 0 THEN "record" ELSE "reply")
  <2>1. CASE at > 0
    BY <1>1, <1>2, <1>3, <1>5, <2>1, FlowPhase DEF FlowPc, Running
  <2>2. CASE ~(at > 0)
    BY <1>1, <1>2, <1>3, <1>5, <2>2, LatePhase
  <2> QED
    BY <2>1, <2>2
<1> QED
  BY <1>4, <1>5, QueryMoves DEF QueryPc

LEMMA HandlePhase ==
  ASSUME TypeOK, PhaseInv, Handle, UNCHANGED routingVars
  PROVE  PhaseInv'
<1> USE DEF Goes
<1>1. /\ UNCHANGED <<config, capability, toolIds, runs, faults, visited>>
      /\ pc = "handle" /\ flow = "none" /\ at' = (IF pc' = "step" THEN 1 ELSE 0)
  BY DEF Handle, HandlerOnly, configVars, ctxVars, HandleQa, HandleQuery, HandleAction,
         HandleWorkflow, Uses, Gives, flowVars, PhaseInv, Early
<1>2. \/ pc' = "reply" /\ flow' = "none"
      \/ pc' \in {"invoke", "scope"} /\ flow' = "none" /\ tool' \in Tools
      \/ /\ pc' = "step" /\ flow' = "running" /\ capability = "workflow" /\ Given
         /\ Steps # <<>>
  <2>1. CASE HandleQa
    BY <1>1, <2>1 DEF HandleQa, Gives, flowVars
  <2>2. CASE HandleQuery
    BY <1>1, <2>2, ChosenIsTool DEF HandleQuery, Uses, Gives, flowVars
  <2>3. CASE HandleAction
    BY <1>1, <2>3, ChosenIsTool DEF HandleAction, FromSignal, Uses, Gives, flowVars
  <2>4. CASE HandleWorkflow
    BY <1>1, <2>4 DEF HandleWorkflow, Gives, flowVars, Steps
  <2> QED
    BY <2>1, <2>2, <2>3, <2>4 DEF Handle
<1>3. CASE pc' = "reply" /\ flow' = "none"
  BY <1>3, LatePhase DEF Running
<1>4. CASE pc' \in {"invoke", "scope"} /\ flow' = "none" /\ tool' \in Tools
  BY <1>1, <1>4 DEF PhaseInv, Running, Early, RoutingPc, FlowPc, RunPc, QueryPc
<1>5. CASE /\ pc' = "step" /\ flow' = "running" /\ capability = "workflow" /\ Given
           /\ Steps # <<>>
  <2>1. Steps \in Seq(Tools \cup {NoTool}) /\ Steps' = Steps /\ Given'
    <3>1. config.tools[Chosen] \in Tool
      BY <1>5, ChosenIsTool, ConfigParts DEF TypeOK, ContextTypeOK
    <3> QED
      BY <1>1, <1>5, <3>1 DEF Steps, StepsOf, Chosen, Tool, Given
  <2>2. Len(Steps) \in Nat /\ Len(Steps) > 0
    BY <1>5, <2>1
  <2> QED
    BY <1>1, <1>5, <2>1, <2>2, FlowPhase DEF FlowPc, Running
<1> QED
  BY <1>2, <1>3, <1>4, <1>5

LEMMA WorkflowPhase ==
  ASSUME TypeOK, PhaseInv, UNCHANGED routingVars,
         InvokeTool \/ StartStep \/ RunSubTool \/ RecordStep \/ SettleWorkflow \/ WorkflowThrows
  PROVE  PhaseInv'
<1> USE DEF Goes, Returns
<1>1. /\ UNCHANGED <<config, capability, toolIds>>
      /\ Steps' = Steps /\ Given' = Given
  BY DEF InvokeTool, StartStep, RunSubTool, RecordStep, SettleWorkflow, WorkflowThrows, HandlerOnly,
         configVars, ctxVars, Steps, StepsOf, Chosen, Given
<1>2. /\ flow # "none" => capability = "workflow" /\ Given
      /\ pc \in FlowPc => Running /\ at \in 1..Len(Steps)
      /\ at \in Nat
  BY DEF PhaseInv, TypeOK, ContextTypeOK
<1>3. CASE InvokeTool
  <2>1. /\ pc = "invoke" /\ UNCHANGED <<at, flow, faults>>
        /\ pc' = IF at > 0 THEN "record" ELSE "reply"
    BY <1>3 DEF InvokeTool, flowVars
  <2>2. (at > 0 <=> Running) /\ (Running => at \in 1..Len(Steps))
    BY <2>1 DEF PhaseInv, RunPc
  <2>3. CASE at > 0
    BY <1>1, <1>2, <2>1, <2>2, <2>3, FlowPhase DEF FlowPc, Running
  <2>4. CASE ~(at > 0)
    BY <1>1, <1>2, <2>1, <2>2, <2>4, LatePhase DEF Running
  <2> QED
    BY <2>3, <2>4
<1>4. CASE StartStep
  BY <1>1, <1>2, <1>4, FlowPhase DEF StartStep, FlowPc, Running
<1>5. CASE RunSubTool
  <2>1. pc \in FlowPc /\ at > 0 /\ UNCHANGED <<at, flow, faults>>
    BY <1>2, <1>5 DEF RunSubTool, FlowPc
  <2>2. \/ pc' = "record"
        \/ pc' \in {"scope", "invoke"} /\ tool' \in Tools
    BY <1>5, <2>1 DEF RunSubTool
  <2>3. CASE pc' = "record"
    BY <1>1, <1>2, <2>1, <2>3, FlowPhase DEF FlowPc, Running
  <2>4. CASE pc' \in {"scope", "invoke"} /\ tool' \in Tools
    BY <1>1, <1>2, <2>1, <2>4 DEF PhaseInv, Running, Early, RoutingPc, FlowPc, RunPc, QueryPc
  <2> QED
    BY <2>2, <2>3, <2>4
<1>6. CASE RecordStep
  <2>1. pc \in FlowPc /\ pc' \in FlowPc /\ flow' = flow /\ at' \in 1..Len(Steps)
    BY <1>2, <1>6 DEF RecordStep, FlowPc, Steps
  <2> QED
    BY <1>1, <1>2, <2>1, FlowPhase DEF Running
<1>7. CASE SettleWorkflow
  BY <1>1, <1>2, <1>7, LatePhase DEF SettleWorkflow, FlowPc, Running
<1>8. CASE WorkflowThrows
  <2>1. faults' # NoFaultYet /\ flow' = flow /\ at' = at
    BY <1>8, StrikesType DEF WorkflowThrows, TypeOK, flowVars
  <2>2. (pc = "record" /\ pc' = pc) \/ pc' = "over"
    BY <1>8 DEF WorkflowThrows
  <2>3. CASE pc = "record" /\ pc' = pc
    BY <1>1, <1>2, <2>1, <2>3, FlowPhase DEF FlowPc, Running
  <2>4. CASE pc' = "over"
    BY <1>1, <1>2, <2>1, <2>4, LatePhase
  <2> QED
    BY <2>2, <2>3, <2>4
<1> QED
  BY <1>3, <1>4, <1>5, <1>6, <1>7, <1>8

LEMMA NextPhase ==
  ASSUME TypeOK, PhaseInv, [Next]_vars
  PROVE  PhaseInv'
<1>1. CASE UNCHANGED vars
  BY <1>1
     DEF vars, contextVars, configVars, ctxVars, runVars, flowVars, PhaseInv, Running, Given, Steps,
         StepsOf, Chosen
<1> QED
  BY <1>1, RoutePhase, RuntimePhase, EditPhase, QueryPhase, HandlePhase, WorkflowPhase
     DEF Next, RunHandler

(***************************************************************************)
(* Statements.                                                             *)
(***************************************************************************)

\* Only a query goes from one stage of a query to another.
LEMMA OtherSteps ==
  ASSUME \/ Route /\ UNCHANGED <<queryVars, flowVars>>
         \/ Handle \/ InvokeTool \/ StartStep \/ RunSubTool \/ RecordStep \/ SettleWorkflow
         \/ WorkflowThrows
         \/ CheckPolicy \/ Interrupt \/ Approve \/ Reject \/ TimeOut \/ Reply \/ OrchestrationThrows
  PROVE  /\ UNCHANGED <<config, edits, queryVars>>
         /\ pc' \in QueryPc \ {"scope"} => pc' = pc
<1> USE DEF Goes, QueryPc, configVars
<1>1. CASE Route /\ UNCHANGED <<queryVars, flowVars>>
  BY <1>1 DEF Route, RouteCapability, ScoreRule, ConcludeRouting, ResolveToolIds
<1>2. CASE Handle
  BY <1>2 DEF Handle, HandlerOnly, HandleQa, HandleQuery, HandleAction, HandleWorkflow, Uses, Gives
<1>3. CASE InvokeTool \/ StartStep \/ RunSubTool \/ RecordStep \/ SettleWorkflow \/ WorkflowThrows
  BY <1>3 DEF InvokeTool, StartStep, RunSubTool, RecordStep, SettleWorkflow, WorkflowThrows, Returns,
              HandlerOnly
<1>4. CASE CheckPolicy \/ Interrupt \/ Approve \/ Reject \/ TimeOut \/ Reply \/ OrchestrationThrows
  BY <1>4 DEF CheckPolicy, Interrupt, Approve, Reject, TimeOut, Reply, OrchestrationThrows, RuntimeOnly
<1> QED
  BY <1>1, <1>2, <1>3, <1>4

LEMMA QueryConfines ==
  ASSUME TypeOK, ConfinedInv, ListedTablesAreConfined, RunQuery
  PROVE  ConfinedInv' /\ ListedTablesAreConfined'
<1> USE DEF Goes, Returns, ConfinedInv, ListedTablesAreConfined, queryVars
<1>1. UNCHANGED <<config, edits>>
  BY DEF RunQuery, ResolveScope, ClipDiagram, AskModel, CheckStatement, ApplyScope, ExecuteSql,
         Summarize, QueryOnly, configVars
<1>2. CASE ResolveScope
  BY <1>1, <1>2 DEF ResolveScope, QueryFails
<1>3. CASE ClipDiagram
  BY <1>1, <1>3 DEF ClipDiagram, QueryFails
<1>4. CASE AskModel
  BY <1>1, <1>4 DEF AskModel, QueryFails
<1>5. CASE CheckStatement
  BY <1>1, <1>5 DEF CheckStatement, Passes, QueryFails
<1>6. CASE ApplyScope
  BY <1>1, <1>6 DEF ApplyScope, QueryFails
<1>7. CASE ExecuteSql
  <2>1. /\ pc = "execute" /\ pc' \notin {"filter", "execute"}
        /\ UNCHANGED <<clipped, draft, filters>>
        /\ \/ sent' = sent
           \/ /\ named \cap config.blacklist = {}
              /\ sent' = sent \cup {[listed |-> draft, named |-> named, filters |-> filters]}
    BY <1>7 DEF ExecuteSql, Permitted
  <2>2. ASSUME NEW s \in sent'
        PROVE  /\ s.named \cap config.blacklist = {}
               /\ s.listed \X config.principal \subseteq s.filters
               /\ edits = 0 => s.listed \subseteq config.er.tables
    <3>1. CASE s \in sent
      BY <3>1
    <3>2. CASE /\ s = [listed |-> draft, named |-> named, filters |-> filters]
               /\ named \cap config.blacklist = {}
      BY <2>1, <3>2
    <3> QED
      BY <2>1, <2>2, <3>1, <3>2
  <2> QED
    BY <1>1, <2>1, <2>2
<1>8. CASE Summarize
  BY <1>1, <1>8 DEF Summarize
<1> QED
  BY <1>2, <1>3, <1>4, <1>5, <1>6, <1>7, <1>8 DEF RunQuery

LEMMA NextConfines ==
  ASSUME TypeOK, ConfinedInv, ListedTablesAreConfined, [Next]_vars
  PROVE  ConfinedInv' /\ ListedTablesAreConfined'
<1>1. CASE /\ UNCHANGED <<config, edits, queryVars>>
           /\ pc' \in QueryPc \ {"scope"} => pc' = pc
  BY <1>1 DEF ConfinedInv, ListedTablesAreConfined, queryVars, QueryPc
<1>2. CASE Edit /\ UNCHANGED <<routingVars, queryVars, flowVars, faults>>
  <2>1. edits' # 0 /\ pc' = pc
    BY <1>2, EditKeeps DEF TypeOK, ContextTypeOK, Edit
  <2> QED
    BY <1>2, <2>1, EditKeeps DEF ConfinedInv, ListedTablesAreConfined, queryVars
<1>3. CASE UNCHANGED vars
  BY <1>1, <1>3 DEF vars, contextVars, configVars
<1> QED
  BY <1>1, <1>2, <1>3, OtherSteps, QueryConfines DEF Next, RunHandler

(***************************************************************************)
(* The policy's leave.                                                     *)
(***************************************************************************)
LEMMA NextCleared ==
  ASSUME TypeOK, TypeOK', PhaseInv, ClearedInv, [Next]_vars
  PROVE  ClearedInv'
<1> USE DEF Goes, ctxVars
<1>0. /\ at \in Nat /\ toolIds \in Seq(Tools) /\ toolIds' \in Seq(Tools)
      /\ pc \in Early => runs = <<>>
  BY DEF TypeOK, ContextTypeOK, PhaseInv
\* A step of the handler.
<1>1. CASE /\ UNCHANGED <<ctxVars, approval, cleared>>
           /\ pc \in HandlerPc \cup QueryPc /\ pc' \in HandlerPc \cup QueryPc \cup {"over"}
  BY <1>1 DEF ClearedInv, AllCleared, HandlerPc, QueryPc, RoutingPc
<1>2. CASE Route
  <2>1. /\ pc \in RoutingPc /\ pc' \in RoutingPc \cup {"policy", "interrupt"}
        /\ approval' = approval /\ runs' = runs
        /\ pc' = "policy" => at' = 1 /\ ~confirm'
    BY <1>2 DEF Route, RouteCapability, ScoreRule, ConcludeRouting, ResolveToolIds, RoutingPc, runVars
  <2>2. runs = <<>> /\ \A i \in DOMAIN toolIds' : ~(i < 1)
    BY <1>0, <2>1 DEF Early
  <2> QED
    BY <2>1, <2>2 DEF ClearedInv, HandlerPc, QueryPc, RoutingPc
<1>3. CASE CheckPolicy
  <2>1. /\ pc = "policy" /\ runs' = <<>> /\ UNCHANGED <<toolIds, confirm, approval>>
        /\ cleared \subseteq cleared'
    BY <1>0, <1>3 DEF CheckPolicy, RuntimeOnly, runVars, Early
  <2>2. approval = "none" /\ ~confirm /\ \A i \in DOMAIN toolIds : i < at => toolIds[i] \in cleared
    BY <2>1 DEF ClearedInv
  <2>3. \/ pc' \in {"over", "interrupt"}
        \/ pc' = "handle" /\ at > Len(toolIds)
        \/ pc' = "policy" /\ at' = at + 1 /\ toolIds[at] \in cleared'
    BY <1>3 DEF CheckPolicy
  <2>4. CASE pc' \in {"over", "interrupt"}
    BY <2>1, <2>2, <2>4 DEF ClearedInv, HandlerPc, QueryPc
  <2>5. CASE pc' = "handle" /\ at > Len(toolIds)
    <3>1. \A i \in DOMAIN toolIds : i < at
      BY <1>0, <2>5
    <3> QED
      BY <2>1, <2>2, <2>5, <3>1 DEF ClearedInv, AllCleared, RoutingPc
  <2>6. CASE pc' = "policy" /\ at' = at + 1 /\ toolIds[at] \in cleared'
    <3>1. \A i \in DOMAIN toolIds : i < at + 1 => i < at \/ i = at
      BY <1>0
    <3> QED
      BY <2>1, <2>2, <2>6, <3>1 DEF ClearedInv, HandlerPc, QueryPc
  <2> QED
    BY <2>3, <2>4, <2>5, <2>6
<1>4. CASE Interrupt \/ Approve \/ Reject
  <2>1. /\ (runs' = <<>> /\ pc' = "parked") \/ approval' # "none"
        /\ pc' \in {"parked", "handle", "over"}
    BY <1>0, <1>4 DEF Interrupt, Approve, Reject, RuntimeOnly, runVars, Early
  <2> QED
    BY <2>1 DEF ClearedInv, RoutingPc, HandlerPc, QueryPc
<1>5. CASE TimeOut \/ Reply \/ OrchestrationThrows
  <2>1. /\ UNCHANGED <<ctxVars, approval, cleared, runs, at>>
        /\ pc' = pc \/ pc' = "over"
    BY <1>5 DEF TimeOut, Reply, OrchestrationThrows, RuntimeOnly, runVars
  <2> QED
    BY <2>1 DEF ClearedInv, AllCleared, RoutingPc, HandlerPc, QueryPc
<1>6. CASE Edit \/ UNCHANGED vars
  <2>1. UNCHANGED <<ctxVars, approval, cleared, runs, at, pc>>
    BY <1>6 DEF Edit, vars, contextVars, runVars
  <2> QED
    BY <2>1 DEF ClearedInv, AllCleared
<1>7. CASE Handle
  BY <1>1, <1>7 DEF Handle, HandlerOnly, HandleQa, HandleQuery, HandleAction, HandleWorkflow, Uses,
                    Gives, HandlerPc, QueryPc
<1>8. CASE InvokeTool \/ StartStep \/ RunSubTool \/ RecordStep \/ SettleWorkflow \/ WorkflowThrows
  BY <1>1, <1>8 DEF InvokeTool, StartStep, RunSubTool, RecordStep, SettleWorkflow, WorkflowThrows,
                    Returns, HandlerOnly, HandlerPc, QueryPc
<1>9. CASE RunQuery
  BY <1>1, <1>9, QueryMoves DEF HandlerPc, QueryPc
<1> QED
  BY <1>2, <1>3, <1>4, <1>5, <1>6, <1>7, <1>8, <1>9 DEF Next, RunHandler

\* Only a query's own stages and the tools being invoked add to what has run.
LEMMA UnaskedRuns ==
  ASSUME TypeOK, UnaskedInv, approval' = approval,
         \A t \in Tools : Unasked(t) => Unasked(t)',
         runs' = runs \/ (tool \in Tools /\ pc \in RunPc /\ runs' = Append(runs, tool)),
         pc' \in RunPc => (tool' = tool /\ pc \in RunPc /\ tool \in Tools) \/ Unasked(tool)'
  PROVE  UnaskedInv'
<1>1. runs \in Seq(Tools)
  BY DEF TypeOK, ContextTypeOK
<1>2. ASSUME approval = "none", NEW i \in DOMAIN runs'
      PROVE  \E t \in Tools : t = runs'[i] /\ Unasked(t)'
  <2>1. CASE runs' = runs
    <3>1. runs[i] \in Tools /\ Unasked(runs[i])
      BY <1>1, <1>2, <2>1 DEF UnaskedInv
    <3> QED
      BY <2>1, <3>1
  <2>2. CASE tool \in Tools /\ pc \in RunPc /\ runs' = Append(runs, tool)
    <3>1. runs'[i] = tool \/ (i \in DOMAIN runs /\ runs'[i] = runs[i] /\ runs[i] \in Tools)
      BY <1>1, <1>2, <2>2
    <3> QED
      BY <1>2, <2>2, <3>1 DEF UnaskedInv
  <2> QED
    BY <2>1, <2>2
<1>3. ASSUME approval = "none", pc' \in RunPc
      PROVE  Unasked(tool)'
  <2>1. CASE tool' = tool /\ pc \in RunPc /\ tool \in Tools
    BY <1>3, <2>1 DEF UnaskedInv, Unasked, StepOfCleared, NamedByMessage
  <2> QED
    BY <1>3, <2>1
<1>4. approval = "none" => \A i \in DOMAIN runs' : Unasked(runs[i])'
  BY <1>2 DEF Unasked, StepOfCleared, NamedByMessage
<1> QED
  BY <1>3, <1>4 DEF UnaskedInv

\* What may run unasked may still when the runtime goes on, and when an administrator has
\* changed something: the steps of a workflow and the message stay.
LEMMA UnaskedStays ==
  ASSUME TypeOK, UNCHANGED <<capability, toolIds, cleared>>,
         \/ config' = config
         \/ /\ config'.signal = config.signal
            /\ \A t \in Tools : config'.tools[t].steps = config.tools[t].steps
  PROVE  \A t \in Tools : Unasked(t) => Unasked(t)'
<1>1. Given => Chosen \in Tools
  BY ChosenIsTool
<1> QED
  BY <1>1 DEF Unasked, StepOfCleared, NamedByMessage, Chosen, StepsOf, Given

LEMMA NextUnasked ==
  ASSUME TypeOK, PhaseInv, ClearedInv, UnaskedInv, [Next]_vars
  PROVE  UnaskedInv'
<1> USE DEF Goes, configVars, ctxVars, runVars
<1>0. /\ pc \in Early => runs = <<>>
      /\ pc \in RunPc => tool \in Tools
      /\ pc \in HandlerPc /\ approval = "none" => AllCleared
  BY DEF PhaseInv, ClearedInv
\* Nothing has run yet, and nothing runs now.
<1>1. CASE pc \in Early /\ runs' = runs /\ pc' \notin RunPc
  BY <1>0, <1>1 DEF UnaskedInv
<1>2. CASE /\ UNCHANGED <<config, capability, toolIds, cleared, approval, runs, tool>>
           /\ pc' \notin RunPc \/ pc' = pc
  BY <1>0, <1>2, UnaskedStays, UnaskedRuns
<1>3. CASE Route
  <2>1. pc \in Early /\ runs' = runs /\ pc' \notin RunPc
    BY <1>3 DEF Route, RouteCapability, ScoreRule, ConcludeRouting, ResolveToolIds, Early, RoutingPc,
                RunPc, QueryPc
  <2> QED
    BY <1>1, <2>1
<1>4. CASE CheckPolicy \/ Interrupt \/ Approve \/ Reject
  <2>1. pc \in Early /\ runs' = runs /\ pc' \notin RunPc
    BY <1>4 DEF CheckPolicy, Interrupt, Approve, Reject, RuntimeOnly, Early, RoutingPc, RunPc, QueryPc
  <2> QED
    BY <1>1, <2>1
<1>5. CASE TimeOut \/ Reply \/ OrchestrationThrows
  <2>1. /\ UNCHANGED <<config, capability, toolIds, cleared, approval, runs, tool>>
        /\ pc' \notin RunPc \/ pc' = pc
    BY <1>5 DEF TimeOut, Reply, OrchestrationThrows, RuntimeOnly, RunPc, QueryPc
  <2> QED
    BY <1>2, <2>1
<1>6. CASE Handle
  <2>1. /\ UNCHANGED <<config, capability, toolIds, cleared, approval, runs>> /\ pc = "handle"
    BY <1>6 DEF Handle, HandlerOnly, HandleQa, HandleQuery, HandleAction, HandleWorkflow, Uses, Gives
  <2>2. CASE approval # "none"
    BY <2>1, <2>2 DEF UnaskedInv
  <2>3. CASE approval = "none"
    <3>1. Given => Chosen \in cleared
      <4>1. toolIds \in Seq(Tools)
        BY DEF TypeOK, ContextTypeOK
      <4>2. Given => 1 \in DOMAIN toolIds
        BY <4>1 DEF Given
      <4> QED
        BY <1>0, <2>1, <2>3, <4>2 DEF AllCleared, Chosen, HandlerPc
    <3>2. pc' \in RunPc => \/ Given /\ tool' = Chosen
                           \/ capability = "action" /\ ~Given /\ tool' = config.signal
      BY <1>6 DEF Handle, HandleQa, HandleQuery, HandleAction, HandleWorkflow, FromSignal, Uses,
                  Gives, RunPc, QueryPc
    <3>3. pc' \in RunPc => Unasked(tool)'
      BY <2>1, <3>1, <3>2 DEF Unasked, NamedByMessage, Given
    <3> QED
      BY <2>1, <3>3, UnaskedStays, UnaskedRuns
  <2> QED
    BY <2>2, <2>3
<1>7. CASE InvokeTool
  <2>1. /\ UNCHANGED <<config, capability, toolIds, cleared, approval>> /\ pc = "invoke"
        /\ runs' = runs \/ runs' = Append(runs, tool)
        /\ pc' \in {"record", "reply"}
    BY <1>7 DEF InvokeTool, HandlerOnly, Returns
  <2>2. tool \in Tools /\ pc \in RunPc /\ pc' \notin RunPc
    BY <1>0, <2>1 DEF RunPc, QueryPc
  <2> QED
    BY <2>1, <2>2, UnaskedStays, UnaskedRuns
<1>8. CASE RunSubTool
  <2>1. /\ UNCHANGED <<config, capability, toolIds, cleared, approval, runs>> /\ pc = "subtool"
        /\ pc' \in RunPc => tool' = SubTool
    BY <1>8 DEF RunSubTool, HandlerOnly, Returns, RunPc, QueryPc
  <2>2. capability = "workflow" /\ Given /\ at \in 1..Len(StepsOf(Chosen))
    BY <2>1 DEF PhaseInv, FlowPc, Running, Steps
  <2>3. CASE approval # "none"
    BY <2>1, <2>3 DEF UnaskedInv
  <2>4. CASE approval = "none"
    <3>1. Chosen \in cleared
      <4>1. toolIds \in Seq(Tools)
        BY DEF TypeOK, ContextTypeOK
      <4>2. 1 \in DOMAIN toolIds
        BY <2>2, <4>1 DEF Given
      <4> QED
        BY <1>0, <2>1, <2>4, <4>2 DEF AllCleared, Chosen, HandlerPc
    <3>2. at \in DOMAIN StepsOf(Chosen)
      <4>1. Chosen \in Tools /\ config \in Config
        BY <2>2, ChosenIsTool DEF TypeOK, ContextTypeOK
      <4>2. StepsOf(Chosen) \in Seq(Tools \cup {NoTool})
        BY <4>1, ConfigParts DEF StepsOf, Tool
      <4> QED
        BY <2>2, <4>2
    <3>3. pc' \in RunPc => StepOfCleared(tool)'
      BY <2>1, <2>2, <3>1, <3>2 DEF StepOfCleared, SubTool, Chosen, StepsOf, Given
    <3> QED
      BY <2>1, <3>3, UnaskedStays, UnaskedRuns DEF Unasked
  <2> QED
    BY <2>3, <2>4
<1>9. CASE StartStep \/ RecordStep \/ SettleWorkflow \/ WorkflowThrows
  <2>1. /\ UNCHANGED <<config, capability, toolIds, cleared, approval, runs, tool>>
        /\ pc' \notin RunPc
    BY <1>9 DEF StartStep, RecordStep, SettleWorkflow, WorkflowThrows, HandlerOnly, RunPc, QueryPc
  <2> QED
    BY <1>2, <2>1
<1>10. CASE RunQuery
  <2>1. /\ UNCHANGED <<config, capability, toolIds, cleared, approval, tool>> /\ pc \in RunPc
        /\ runs' = runs \/ runs' = Append(runs, tool)
    BY <1>10, QueryMoves DEF RunPc
  <2> QED
    BY <1>0, <2>1, UnaskedStays, UnaskedRuns
<1>11. CASE Edit
  <2>1. UNCHANGED <<pc, capability, toolIds, cleared, approval, runs, tool>>
    BY <1>11 DEF Edit
  <2> QED
    BY <1>0, <1>11, <2>1, EditKeeps, UnaskedStays, UnaskedRuns
<1>12. CASE UNCHANGED vars
  BY <1>2, <1>12 DEF vars, contextVars
<1> QED
  BY <1>3, <1>4, <1>5, <1>6, <1>7, <1>8, <1>9, <1>10, <1>11, <1>12 DEF Next, RunHandler

(***************************************************************************)
(* The tools that run.                                                     *)
(***************************************************************************)
\* Every tool that has run stays fit, and so is one that runs now.
LEMMA FitRuns ==
  ASSUME TypeOK, ToolInv, edits' = edits, UNCHANGED <<config, capability>>,
         runs' = runs \/ (tool \in Tools /\ pc \in RunPc /\ runs' = Append(runs, tool)),
         edits' = 0 /\ pc' \in RunPc => Fit(config.tools[tool'], capability)
  PROVE  ToolInv'
<1>1. ASSUME edits = 0, NEW i \in DOMAIN runs'
      PROVE  Fit(config.tools[runs'[i]], capability)
  <2>1. CASE runs' = runs
    BY <1>1, <2>1 DEF ToolInv
  <2>2. CASE tool \in Tools /\ pc \in RunPc /\ runs' = Append(runs, tool)
    <3>1. runs \in Seq(Tools)
      BY DEF TypeOK, ContextTypeOK
    <3>2. runs'[i] = tool \/ (i \in DOMAIN runs /\ runs'[i] = runs[i])
      BY <1>1, <2>2, <3>1
    <3> QED
      BY <1>1, <2>2, <3>2 DEF ToolInv
  <2> QED
    BY <2>1, <2>2
<1> QED
  BY <1>1 DEF ToolInv

LEMMA NextFit ==
  ASSUME TypeOK, PhaseInv, ToolInv, [Next]_vars
  PROVE  ToolInv'
<1> USE DEF Goes, configVars, ctxVars, runVars
<1>0. pc \in Early => runs = <<>>
  BY DEF PhaseInv
\* Nothing has run yet.
<1>1. CASE pc \in Early /\ runs' = runs /\ pc' \notin RunPc
  BY <1>0, <1>1 DEF ToolInv
\* Nothing runs now.
<1>2. CASE UNCHANGED <<config, capability, edits, runs, tool>> /\ (pc' \notin RunPc \/ pc' = pc)
  <2>1. edits' = 0 /\ pc' \in RunPc => Fit(config.tools[tool'], capability)
    BY <1>2 DEF ToolInv
  <2> QED
    BY <1>2, <2>1, FitRuns
<1>3. CASE Route
  <2>1. pc \in Early /\ runs' = runs /\ pc' \notin RunPc
    BY <1>3 DEF Route, RouteCapability, ScoreRule, ConcludeRouting, ResolveToolIds, Early, RoutingPc,
                RunPc, QueryPc
  <2> QED
    BY <1>1, <2>1
<1>4. CASE CheckPolicy \/ Interrupt \/ Approve \/ Reject \/ TimeOut \/ Reply \/ OrchestrationThrows
  <2>1. /\ UNCHANGED <<config, capability, edits, runs, tool>>
        /\ pc' \notin RunPc \/ pc' = pc
    BY <1>4 DEF CheckPolicy, Interrupt, Approve, Reject, TimeOut, Reply, OrchestrationThrows,
                RuntimeOnly, RunPc, QueryPc
  <2> QED
    BY <1>2, <2>1
<1>5. CASE Handle
  <2>1. UNCHANGED <<config, capability, edits, runs, toolIds>>
    BY <1>5 DEF Handle, HandlerOnly
  <2>2. pc' \in RunPc => Fit(config.tools[tool'], capability)
    <3>1. CASE HandleQa
      BY <3>1 DEF HandleQa, Gives, RunPc, QueryPc
    <3>2. CASE HandleQuery
      BY <3>2 DEF HandleQuery, Uses, Gives, Ready, Fit, Enabled, TypeOf, RunPc,
                  QueryPc
    <3>3. CASE HandleAction
      BY <3>3 DEF HandleAction, FromSignal, Uses, Gives, Ready, Fit, Enabled, TypeOf,
                  ActionTools, RunPc, QueryPc
    <3>4. CASE HandleWorkflow
      BY <3>4 DEF HandleWorkflow, Gives, RunPc, QueryPc
    <3> QED
      BY <1>5, <3>1, <3>2, <3>3, <3>4 DEF Handle
  <2> QED
    BY <2>1, <2>2, FitRuns
<1>6. CASE InvokeTool
  <2>1. /\ UNCHANGED <<config, capability, edits>> /\ pc = "invoke"
        /\ runs' = runs \/ runs' = Append(runs, tool)
        /\ pc' \in {"record", "reply"}
    BY <1>6 DEF InvokeTool, HandlerOnly, Returns
  <2>2. tool \in Tools /\ pc \in RunPc /\ pc' \notin RunPc
    BY <2>1 DEF PhaseInv, RunPc, QueryPc
  <2> QED
    BY <2>1, <2>2, FitRuns
<1>7. CASE RunSubTool
  <2>1. UNCHANGED <<config, capability, edits, runs, toolIds>>
    BY <1>7 DEF RunSubTool, HandlerOnly
  <2>2. capability = "workflow"
    BY <1>7 DEF RunSubTool, PhaseInv, FlowPc, Running
  <2>3. pc' \in RunPc => Fit(config.tools[tool'], capability)
    BY <1>7, <2>2 DEF RunSubTool, Returns, RunPc, QueryPc, Fit, Enabled
  <2> QED
    BY <2>1, <2>3, FitRuns
<1>8. CASE StartStep \/ RecordStep \/ SettleWorkflow \/ WorkflowThrows
  <2>1. UNCHANGED <<config, capability, edits, runs, tool>> /\ pc' \notin RunPc
    BY <1>8 DEF StartStep, RecordStep, SettleWorkflow, WorkflowThrows, HandlerOnly, RunPc, QueryPc
  <2> QED
    BY <1>2, <2>1
<1>9. CASE RunQuery
  <2>1. /\ UNCHANGED <<config, capability, edits, tool>> /\ pc \in RunPc
        /\ runs' = runs \/ runs' = Append(runs, tool)
    BY <1>9, QueryMoves DEF RunPc
  <2>2. tool \in Tools
    BY <2>1 DEF PhaseInv
  <2>3. edits' = 0 => Fit(config.tools[tool'], capability)
    BY <2>1 DEF ToolInv
  <2> QED
    BY <2>1, <2>2, <2>3, FitRuns
<1>10. CASE Edit
  <2>1. edits' # 0
    BY <1>10, EditKeeps DEF TypeOK, ContextTypeOK
  <2> QED
    BY <2>1 DEF ToolInv
<1>11. CASE UNCHANGED vars
  BY <1>2, <1>11 DEF vars, contextVars
<1> QED
  BY <1>3, <1>4, <1>5, <1>6, <1>7, <1>8, <1>9, <1>10, <1>11 DEF Next, RunHandler

(***************************************************************************)
(* The order of the steps.                                                 *)
(***************************************************************************)
\* Nothing has run: no step is covered.
LEMMA CoversNone ==
  ASSUME NEW list
  PROVE  Covers(<<>>, list, 0)
<1> DEFINE f == [i \in {} |-> 0]
<1>1. \A i : i \notin DOMAIN <<>> /\ i \notin 1..0
  OBVIOUS
<1>2. f \in [DOMAIN <<>> -> 1..0]
  BY <1>1
<1> HIDE DEF f
<1> QED
  BY <1>1, <1>2 DEF Covers

\* The tool of the next step has run.
LEMMA CoversTool ==
  ASSUME NEW ran \in Seq(Tools), NEW list, NEW k \in Nat, k > 0, Covers(ran, list, k - 1),
         NEW t \in Tools, t = list[k]
  PROVE  Covers(Append(ran, t), list, k)
<1>1. PICK f \in [DOMAIN ran -> 1..(k - 1)] :
        /\ \A i \in DOMAIN ran : ran[i] = list[f[i]]
        /\ \A i, j \in DOMAIN ran : i < j => f[i] < f[j]
        /\ \A n \in 1..(k - 1) : list[n] = NoTool \/ \E i \in DOMAIN ran : f[i] = n
  BY DEF Covers
<1> DEFINE new == Append(ran, t)
           g == [i \in DOMAIN new |-> IF i = Len(new) THEN k ELSE f[i]]
<1>2. /\ Len(new) \in Nat /\ DOMAIN new = 1..Len(new) /\ DOMAIN ran = 1..(Len(new) - 1)
      /\ Len(new) > 0 /\ new[Len(new)] = t
      /\ \A i \in DOMAIN ran : new[i] = ran[i]
  OBVIOUS
<1> HIDE DEF new
<1>3. \A i \in DOMAIN new : i = Len(new) \/ (i \in DOMAIN ran /\ i < Len(new))
  BY <1>2
<1>4. \A i \in DOMAIN ran : i \in DOMAIN new /\ i < Len(new) /\ g[i] = f[i] /\ f[i] \in 1..(k - 1)
  BY <1>1, <1>2
<1>5. g[Len(new)] = k /\ Len(new) \in DOMAIN new
  BY <1>2
<1>6. g \in [DOMAIN new -> 1..k]
  BY <1>3, <1>4, <1>5
<1> HIDE DEF g
<1>7. \A i \in DOMAIN new : new[i] = list[g[i]]
  BY <1>1, <1>2, <1>3, <1>4, <1>5
<1>8. \A i, j \in DOMAIN new : i < j => g[i] < g[j]
  <2> TAKE i, j \in DOMAIN new
  <2> HAVE i < j
  <2>1. i \in DOMAIN ran
    BY <1>2, <1>3
  <2>2. CASE j = Len(new)
    BY <1>4, <1>5, <2>1, <2>2
  <2>3. CASE j \in DOMAIN ran
    BY <1>1, <1>4, <2>1, <2>3
  <2> QED
    BY <1>3, <2>2, <2>3
<1>9. \A n \in 1..k : list[n] = NoTool \/ \E i \in DOMAIN new : g[i] = n
  <2> TAKE n \in 1..k
  <2>1. CASE n = k
    BY <1>5, <2>1
  <2>2. CASE n # k
    <3>1. n \in 1..(k - 1)
      BY <2>2
    <3> QED
      BY <1>1, <1>4, <3>1
  <2> QED
    BY <2>1, <2>2
<1>10. Covers(new, list, k)
  BY <1>6, <1>7, <1>8, <1>9 DEF Covers
<1> QED
  BY <1>10 DEF new

\* The next step has no tool.
LEMMA CoversNoTool ==
  ASSUME NEW ran, NEW list, NEW k \in Nat, k > 0, Covers(ran, list, k - 1), list[k] = NoTool
  PROVE  Covers(ran, list, k)
<1>1. PICK f \in [DOMAIN ran -> 1..(k - 1)] :
        /\ \A i \in DOMAIN ran : ran[i] = list[f[i]]
        /\ \A i, j \in DOMAIN ran : i < j => f[i] < f[j]
        /\ \A n \in 1..(k - 1) : list[n] = NoTool \/ \E i \in DOMAIN ran : f[i] = n
  BY DEF Covers
<1>2. f \in [DOMAIN ran -> 1..k]
  BY <1>1
<1>3. \A n \in 1..k : list[n] = NoTool \/ \E i \in DOMAIN ran : f[i] = n
  <2> TAKE n \in 1..k
  <2>1. n = k \/ n \in 1..(k - 1)
    OBVIOUS
  <2> QED
    BY <1>1, <2>1
<1> QED
  BY <1>1, <1>2, <1>3 DEF Covers

\* There is no workflow.
LEMMA NoFlowSequence ==
  ASSUME PhaseInv', flow' = "none"
  PROVE  SequenceInv'
BY DEF PhaseInv, SequenceInv, Running, FlowPc

\* Nothing has been run, and no step begun or ended.
LEMMA StillSequence ==
  ASSUME SequenceInv, PhaseInv, PhaseInv', UNCHANGED <<runs, flow, visited>>,
         flow # "none" => Steps' = Steps,
         \/ /\ pc' = pc \/ (pc \in RunPc /\ pc' \in RunPc)
            /\ UNCHANGED <<at, tool>> /\ outcome' \in {outcome, "failed"}
         \/ pc' \notin FlowPc \cup RunPc
  PROVE  SequenceInv'
<1>1. CASE flow = "none"
  BY <1>1, NoFlowSequence
<1>2. CASE flow # "none"
  <2>1. \A k : RunsCover(k) <=> Covers(runs', Steps', k)
    BY <1>2 DEF RunsCover
  <2>2. CASE pc' \notin FlowPc \cup RunPc
    BY <1>2, <2>1, <2>2 DEF SequenceInv, RunsCover, FlowPc
  <2>3. CASE pc' = pc /\ UNCHANGED <<at, tool>> /\ outcome' \in {outcome, "failed"}
    BY <1>2, <2>1, <2>3 DEF SequenceInv, RunsCover, Running
  <2>4. CASE pc \in RunPc /\ pc' \in RunPc /\ UNCHANGED <<at, tool>>
    BY <1>2, <2>1, <2>4 DEF SequenceInv, RunsCover, Running, RunPc, QueryPc
  <2> QED
    BY <2>2, <2>3, <2>4
<1> QED
  BY <1>1, <1>2

\* The tool of a step has run, or has not and the step has failed.
LEMMA RanSequence ==
  ASSUME TypeOK, PhaseInv, SequenceInv, pc \in RunPc, Running, UNCHANGED <<flow, visited, at>>,
         Steps' = Steps, pc' = "record",
         runs' = Append(runs, tool) \/ (runs' = runs /\ outcome' = "failed")
  PROVE  SequenceInv'
<1>1. /\ at \in 1..Len(Steps) /\ at \in Nat /\ at > 0 /\ runs \in Seq(Tools) /\ tool \in Tools
      /\ Len(Steps) \in Nat /\ flow = "running"
  <2>1. /\ at \in Nat /\ at \in 1..Len(Steps) /\ runs \in Seq(Tools) /\ tool \in Tools
        /\ flow = "running"
    BY DEF PhaseInv, Running, TypeOK, ContextTypeOK
  <2>2. Given /\ Chosen \in Tools
    BY <2>1, ChosenIsTool DEF PhaseInv
  <2>3. Len(Steps) \in Nat
    BY <2>2, ConfigParts DEF TypeOK, ContextTypeOK, Steps, StepsOf, Tool
  <2> QED
    BY <2>1, <2>3 DEF PhaseInv
<1>2. /\ RunsCover(at - 1) /\ tool = Steps[at] /\ tool \in visited
      /\ \A i \in DOMAIN runs : runs[i] # tool /\ runs[i] \in visited
      /\ \A i, j \in DOMAIN runs : runs[i] = runs[j] => i = j
      /\ \E k \in 0..Len(Steps) : RunsCover(k)
  BY <1>1 DEF SequenceInv
<1>3. CASE runs' = runs /\ outcome' = "failed"
  BY <1>1, <1>2, <1>3 DEF SequenceInv, RunsCover, RunPc, QueryPc
<1>4. CASE runs' = Append(runs, tool)
  <2>1. Covers(runs', Steps', at)
    BY <1>1, <1>2, <1>4, CoversTool DEF RunsCover
  <2>2. /\ Len(runs) \in Nat /\ DOMAIN runs = 1..Len(runs) /\ DOMAIN runs' = 1..(Len(runs) + 1)
        /\ runs'[Len(runs) + 1] = tool /\ \A i \in DOMAIN runs : runs'[i] = runs[i]
    BY <1>1, <1>4
  <2>3. \A i \in DOMAIN runs' : i \in DOMAIN runs \/ i = Len(runs) + 1
    BY <2>2
  <2>4. \A i \in DOMAIN runs' : runs'[i] \in visited
    BY <1>2, <2>2, <2>3
  <2>5. \A i, j \in DOMAIN runs' : runs'[i] = runs'[j] => i = j
    BY <1>2, <2>2, <2>3
  <2>6. at \in 0..Len(Steps)
    BY <1>1
  <2> QED
    BY <1>1, <2>1, <2>4, <2>5, <2>6 DEF SequenceInv, RunsCover, RunPc, QueryPc
<1> QED
  BY <1>3, <1>4

LEMMA NextSequence ==
  ASSUME TypeOK, PhaseInv, PhaseInv', SequenceInv, [Next]_vars
  PROVE  SequenceInv'
<1> USE DEF Goes
<1>0. pc \in Early => flow = "none" /\ runs = <<>> /\ visited = {}
  BY DEF PhaseInv
<1>1. CASE \/ Route /\ UNCHANGED <<queryVars, flowVars>>
          \/ CheckPolicy \/ Interrupt \/ Approve \/ Reject
  <2>1. pc \in Early /\ flow' = flow
    BY <1>1 DEF Route, RouteCapability, ScoreRule, ConcludeRouting, ResolveToolIds, CheckPolicy,
                Interrupt, Approve, Reject, RuntimeOnly, flowVars, Early, RoutingPc
  <2> QED
    BY <1>0, <2>1, NoFlowSequence
<1>2. CASE TimeOut \/ Reply \/ OrchestrationThrows
  <2>1. /\ UNCHANGED <<config, toolIds, runs, flow, visited, at, tool, outcome>>
        /\ pc' = pc \/ pc' = "over"
    BY <1>2 DEF TimeOut, Reply, OrchestrationThrows, RuntimeOnly, configVars, ctxVars, runVars, flowVars
  <2>2. Steps' = Steps
    BY <2>1 DEF Steps, StepsOf, Chosen
  <2> QED
    BY <2>1, <2>2, StillSequence DEF FlowPc, RunPc, QueryPc
<1>3. CASE Edit /\ UNCHANGED <<routingVars, queryVars, flowVars, faults>>
  <2>1. UNCHANGED <<runs, flow, visited, at, tool, outcome, pc>>
    BY <1>3 DEF Edit, runVars, flowVars
  <2>2. flow # "none" => Steps' = Steps
    BY <1>3, EditSteps DEF PhaseInv
  <2> QED
    BY <2>1, <2>2, StillSequence
<1>4. CASE Handle
  <2>1. /\ UNCHANGED <<config, toolIds, runs, visited>> /\ pc = "handle"
        /\ flow' = "none" \/ (pc' = "step" /\ at' = 1)
    <3>1. UNCHANGED <<config, toolIds, runs>> /\ at' = IF pc' = "step" THEN 1 ELSE 0
      BY <1>4 DEF Handle, HandlerOnly, configVars, ctxVars
    <3>2. flow = "none" \/ pc # "handle"
      BY <1>0 DEF Early
    <3> QED
      BY <1>4, <3>1, <3>2
         DEF Handle, HandleQa, HandleQuery, HandleAction, HandleWorkflow, Uses, Gives, flowVars
  <2>2. CASE pc' = "step" /\ at' = 1
    <3>1. runs' = <<>>
      BY <1>0, <2>1 DEF Early
    <3>2. Covers(runs', Steps', 0)
      BY <3>1, CoversNone
    <3>3. at' \in 1..Len(Steps')
      BY <2>2 DEF PhaseInv, FlowPc
    <3>4. 0 \in 0..Len(Steps')
      BY <2>2, <3>3
    <3>5. pc' = "step" /\ flow' = "running"
      BY <2>2 DEF PhaseInv, Running, FlowPc
    <3>6. \A i \in DOMAIN runs' : FALSE
      BY <3>1
    <3> QED
      BY <2>2, <3>2, <3>4, <3>5, <3>6 DEF SequenceInv, RunsCover, RunPc, QueryPc
  <2> QED
    BY <2>1, <2>2, NoFlowSequence
\* A tool that runs.
<1>5. ASSUME InvokeTool \/ (RunQuery /\ UNCHANGED flowVars)
      PROVE  SequenceInv'
  <2>1. /\ UNCHANGED <<config, toolIds, at, tool, flow, visited>> /\ pc \in RunPc
        /\ \/ pc' \in RunPc /\ UNCHANGED <<runs, outcome>>
           \/ pc' \in RunPc /\ at = 0
           \/ /\ pc' = (IF at > 0 THEN "record" ELSE "reply")
              /\ at > 0 => (runs' = Append(runs, tool) \/ (runs' = runs /\ outcome' = "failed"))
    <3>1. CASE InvokeTool
      BY <3>1 DEF InvokeTool, HandlerOnly, Returns, configVars, ctxVars, flowVars, RunPc
    <3>2. CASE RunQuery /\ UNCHANGED flowVars
      BY <3>2, QueryMoves DEF configVars, ctxVars, flowVars, RunPc, QueryPc
    <3> QED
      BY <1>5, <3>1, <3>2
  <2>2. Steps' = Steps
    BY <2>1 DEF Steps, StepsOf, Chosen
  <2>3. (at > 0 <=> Running) /\ (flow = "none" \/ Running) /\ at \in Nat
    BY <2>1 DEF PhaseInv, TypeOK, ContextTypeOK
  <2>4. CASE flow = "none"
    BY <2>1, <2>4, NoFlowSequence
  <2>5. CASE Running
    <3>1. at > 0
      BY <2>3, <2>5
    <3>2. CASE pc' \in RunPc /\ UNCHANGED <<runs, outcome>>
      BY <2>1, <2>2, <3>2, StillSequence
    <3>3. CASE pc' = "record" /\ (runs' = Append(runs, tool) \/ (runs' = runs /\ outcome' = "failed"))
      BY <2>1, <2>2, <2>5, <3>3, RanSequence
    <3> QED
      BY <2>1, <2>3, <3>1, <3>2, <3>3
  <2> QED
    BY <2>3, <2>4, <2>5
\* The steps of a workflow.
<1>6. CASE StartStep \/ RunSubTool \/ RecordStep \/ SettleWorkflow \/ WorkflowThrows
  <2>1. UNCHANGED <<config, toolIds, runs>>
    BY <1>6 DEF StartStep, RunSubTool, RecordStep, SettleWorkflow, WorkflowThrows, HandlerOnly,
                configVars, ctxVars, runVars
  <2>2. Steps' = Steps
    BY <2>1 DEF Steps, StepsOf, Chosen
  <2>3. \A k : RunsCover(k) <=> Covers(runs', Steps', k)
    BY <2>1, <2>2 DEF RunsCover
  <2>4. /\ pc \in FlowPc => flow = "running" /\ at \in 1..Len(Steps) /\ Len(Steps) \in Nat
        /\ at \in Nat
    <3>1. pc \in FlowPc => flow = "running" /\ at \in 1..Len(Steps) /\ Given
      BY DEF PhaseInv, Running
    <3>2. Given => Len(Steps) \in Nat
      BY ChosenIsTool, ConfigParts DEF TypeOK, ContextTypeOK, Steps, StepsOf, Tool
    <3> QED
      BY <3>1, <3>2 DEF TypeOK, ContextTypeOK
  <2>5. CASE StartStep
    <3>1. pc = "step" /\ pc' = "subtool" /\ UNCHANGED <<at, flow, visited>>
      BY <2>5 DEF StartStep
    <3>2. flow = "running" /\ RunsCover(at - 1)
      BY <2>4, <3>1 DEF SequenceInv, FlowPc
    <3> QED
      BY <2>1, <2>2, <2>3, <3>1, <3>2 DEF SequenceInv, RunsCover, RunPc, QueryPc
  <2>6. CASE RunSubTool
    <3>1. /\ pc = "subtool" /\ UNCHANGED <<at, flow>> /\ visited \subseteq visited'
          /\ at \in 1..Len(Steps) /\ at > 0 /\ flow = "running"
      BY <2>4, <2>6 DEF RunSubTool, FlowPc
    <3>2. RunsCover(at - 1) /\ \A i \in DOMAIN runs : runs[i] \in visited
      BY <3>1 DEF SequenceInv
    <3>3. \/ pc' = "record" /\ outcome' = "failed"
          \/ pc' = "record" /\ Steps[at] = NoTool
          \/ /\ pc' \in {"scope", "invoke"}
             /\ tool' = Steps[at] /\ tool' \in visited' /\ tool' \notin visited
      BY <2>6, <3>1 DEF RunSubTool, Returns, SubTool, Steps
    <3>4. CASE pc' = "record" /\ outcome' = "failed"
      BY <2>1, <2>2, <2>3, <3>1, <3>2, <3>4 DEF SequenceInv, RunsCover, RunPc, QueryPc
    <3>5. CASE pc' = "record" /\ Steps[at] = NoTool
      <4>1. RunsCover(at)
        BY <2>4, <3>1, <3>2, <3>5, CoversNoTool DEF RunsCover
      <4> QED
        BY <2>1, <2>2, <2>3, <3>1, <3>2, <3>5, <4>1 DEF SequenceInv, RunsCover, RunPc, QueryPc
    <3>6. CASE /\ pc' \in {"scope", "invoke"}
               /\ tool' = Steps[at] /\ tool' \in visited' /\ tool' \notin visited
      BY <2>1, <2>2, <2>3, <3>1, <3>2, <3>6 DEF SequenceInv, RunsCover, RunPc, QueryPc
    <3> QED
      BY <3>3, <3>4, <3>5, <3>6
  <2>7. CASE RecordStep
    <3>1. /\ pc = "record" /\ UNCHANGED <<flow, visited, outcome>>
          /\ at \in 1..Len(Steps) /\ flow = "running" /\ Len(Steps) \in Nat
      BY <2>4, <2>7 DEF RecordStep, runVars, FlowPc
    <3>2. \/ pc' = "settle" /\ outcome # "ok"
          \/ pc' = "settle" /\ outcome = "ok" /\ at = Len(Steps)
          \/ pc' = "step" /\ outcome = "ok" /\ at' = at + 1
      BY <2>7, <3>1 DEF RecordStep, Steps
    <3>3. outcome = "ok" => RunsCover(at)
      BY <3>1 DEF SequenceInv
    <3>4. pc' = "step" /\ at' = at + 1 => at' - 1 = at
      BY <2>4
    <3> QED
      BY <2>1, <2>2, <2>3, <3>1, <3>2, <3>3, <3>4 DEF SequenceInv, RunsCover, RunPc, QueryPc
  <2>8. CASE SettleWorkflow
    <3>1. /\ pc = "settle" /\ pc' = "reply" /\ flow = "running" /\ visited' = visited
          /\ flow' = IF outcome = "ok" THEN "completed" ELSE "failed"
      BY <2>4, <2>8 DEF SettleWorkflow, FlowPc
    <3> QED
      BY <2>1, <2>2, <2>3, <3>1 DEF SequenceInv, RunsCover, RunPc, QueryPc
  <2>9. CASE WorkflowThrows
    <3>1. /\ UNCHANGED <<runs, flow, visited, at, tool>>
          /\ (pc' = pc /\ outcome' = "failed") \/ pc' = "over"
      BY <2>9 DEF WorkflowThrows, flowVars
    <3> QED
      BY <2>2, <3>1, StillSequence DEF FlowPc, RunPc, QueryPc
  <2> QED
    BY <1>6, <2>5, <2>6, <2>7, <2>8, <2>9
<1>7. CASE UNCHANGED vars
  <2>1. UNCHANGED <<config, toolIds, runs, flow, visited, at, tool, outcome, pc>>
    BY <1>7 DEF vars, contextVars, configVars, ctxVars, runVars, flowVars
  <2>2. Steps' = Steps
    BY <2>1 DEF Steps, StepsOf, Chosen
  <2> QED
    BY <2>1, <2>2, StillSequence
<1> QED
  BY <1>1, <1>2, <1>3, <1>4, <1>5, <1>6, <1>7 DEF Next, RunHandler

(***************************************************************************)
(* The best rule.                                                          *)
(***************************************************************************)
\* One more rule is scored: the best so far is replaced by a better one only.
LEMMA BestAfterOne ==
  ASSUME NEW rules \in Seq(RoutingRule), NEW a \in DOMAIN rules,
         NEW S \in SUBSET {i \in DOMAIN rules : i < a /\ rules[i].score > 0},
         NEW b \in [rule : Nat, score : Nat, toolIds : Seq(Tools)], BestOf(b, S, rules),
         NEW ok \in BOOLEAN, NEW c,
         IF rules[a].score > b.score /\ ok
         THEN \E s : c = [rule |-> a, score |-> rules[a].score, toolIds |-> s]
         ELSE c = b
  PROVE  BestOf(c, IF rules[a].score > 0 /\ ok THEN S \cup {a} ELSE S, rules)
<1>1. /\ a \in Nat /\ rules[a].score \in Nat /\ b.score \in Nat /\ b.rule \in Nat
      /\ \A i \in S : i \in Nat /\ i < a /\ rules[i].score \in Nat /\ rules[i].score > 0
  BY RuleParts
<1>2. CASE rules[a].score > b.score /\ ok
  <2>1. c.rule = a /\ c.score = rules[a].score /\ rules[a].score > 0
    BY <1>1, <1>2
  <2>2. \A i \in S : rules[i].score < c.score
    BY <1>1, <1>2, <2>1 DEF BestOf
  <2> QED
    BY <1>1, <1>2, <2>1, <2>2 DEF BestOf
<1>3. CASE ~(rules[a].score > b.score /\ ok)
  <2>1. c = b
    BY <1>3
  <2>2. CASE rules[a].score > 0 /\ ok
    <3>1. S # {} /\ rules[a].score <= b.score
      BY <1>1, <1>3, <2>2 DEF BestOf, NoRule
    <3> QED
      BY <1>1, <2>1, <2>2, <3>1 DEF BestOf
  <2> QED
    BY <2>1, <2>2
<1> QED
  BY <1>2, <1>3

LEMMA ScoreRouted ==
  ASSUME TypeOK, PhaseInv, RoutedInv, ScoreRule
  PROVE  RoutedInv'
<1>1. /\ pc = "rules" /\ pc' = "rules" /\ UNCHANGED <<config, edits, capability>> /\ at' = at + 1
      /\ at \in Nat /\ at > 0 /\ at <= Len(Rules)
  BY DEF ScoreRule, configVars, ctxVars, PhaseInv, Early, RoutingPc, TypeOK, ContextTypeOK
<1>2. Rules \in Seq(RoutingRule) /\ at \in DOMAIN Rules
  BY <1>1, RulesAreTyped DEF TypeOK, ContextTypeOK
<1>3. Rules' = Rules /\ \A rule : Eligible(rule)' <=> Eligible(rule)
  BY <1>1 DEF Rules, HasCap, FirstCap, OfType, Caps, Eligible, OfKind, Enabled, TypeOf
<1> DEFINE ok == Eligible(Rules[at])
<1>4. IF Rules[at].score > best.score /\ ok
      THEN \E s : best' = [rule |-> at, score |-> Rules[at].score, toolIds |-> s]
      ELSE best' = best
  BY DEF ScoreRule, Better
<1>5. best' = best \/ best'.rule = at
  BY <1>4
<1>6. Seen' = IF Rules[at].score > 0 /\ ok THEN Seen \cup {at} ELSE Seen
  <2>1. \A i \in DOMAIN Rules : i < at + 1 <=> i < at \/ i = at
    BY <1>1, <1>2
  <2>2. Seen' = {i \in DOMAIN Rules : i < at + 1 /\ Rules[i].score > 0 /\ Eligible(Rules[i])}
    BY <1>1, <1>3 DEF Seen
  <2> QED
    BY <1>1, <1>2, <2>1, <2>2 DEF Seen
<1>7. ASSUME edits = 0
      PROVE  BestOf(best', Seen', Rules)
  <2>1. BestOf(best, Seen, Rules)
    BY <1>1, <1>7 DEF RoutedInv
  <2>2. Seen \in SUBSET {i \in DOMAIN Rules : i < at /\ Rules[i].score > 0}
    BY DEF Seen
  <2>3. best \in [rule : Nat, score : Nat, toolIds : Seq(Tools)] /\ ok \in BOOLEAN
    BY DEF TypeOK, RoutingTypeOK, Eligible
  <2> HIDE DEF ok
  <2> QED
    BY <1>2, <1>4, <1>6, <2>1, <2>2, <2>3, BestAfterOne
<1> QED
  BY <1>1, <1>2, <1>3, <1>5, <1>7 DEF RoutedInv

\* The rules of a type, when the configuration keeps its capabilities.
LEMMA RulesKept ==
  ASSUME config'.capabilities = config.capabilities, capability' = capability
  PROVE  Rules' = Rules
BY DEF Rules, HasCap, FirstCap, OfType, Caps

LEMMA NextRouted ==
  ASSUME TypeOK, TypeOK', PhaseInv, RoutedInv, [Next]_vars
  PROVE  RoutedInv'
<1> USE DEF Goes
<1>1. CASE pc' \notin {"rules", "resolve"}
  BY <1>1 DEF RoutedInv
<1>2. CASE RouteCapability
  <2>1. pc' = "rules" /\ at' = 1 /\ best' = NoRule /\ config' = config
    BY <1>2 DEF RouteCapability, configVars
  <2>2. Rules' \in Seq(RoutingRule)
    <3>1. config \in Config
      BY DEF TypeOK, ContextTypeOK
    <3>2. CASE HasCap(capability')
      <4>1. Caps[FirstCap(capability')].rules \in Seq(RoutingRule)
        BY <3>1, <3>2, FirstCapExists, CapabilityParts
      <4>2. Rules' = Caps[FirstCap(capability')].rules
        BY <2>1, <3>2 DEF Rules, HasCap, FirstCap, OfType, Caps
      <4> QED
        BY <4>1, <4>2
    <3>3. CASE ~HasCap(capability')
      BY <2>1, <3>3, EmptySequence DEF Rules, HasCap, OfType, Caps
    <3> QED
      BY <3>2, <3>3
  <2>3. \A i \in DOMAIN Rules' : ~(i < 1)
    BY <2>2
  <2>4. Seen' = {}
    BY <2>1, <2>3 DEF Seen
  <2> QED
    BY <2>1, <2>4 DEF RoutedInv, BestOf, NoRule
<1>3. CASE ConcludeRouting
  <2>1. /\ pc = "rules" /\ pc' = "resolve" /\ at > Len(Rules)
        /\ UNCHANGED <<config, edits, capability, at, best>>
    BY <1>3 DEF ConcludeRouting, configVars
  <2>2. Rules' = Rules /\ Seen' = Seen
    BY <2>1, RulesKept DEF Seen, Eligible, OfKind, Enabled, TypeOf
  <2> QED
    BY <2>1, <2>2 DEF RoutedInv
<1>4. CASE Edit /\ UNCHANGED <<routingVars, queryVars, flowVars, faults>>
  <2>1. UNCHANGED <<pc, at, best, capability>> /\ edits' # 0 /\ Rules' = Rules
    BY <1>4, EditKeeps, RulesKept DEF Edit, ctxVars, routingVars, TypeOK, ContextTypeOK
  <2> QED
    BY <2>1 DEF RoutedInv
<1>5. CASE UNCHANGED vars
  <2>1. UNCHANGED <<pc, at, best, capability, config, edits>>
    BY <1>5 DEF vars, contextVars, configVars, ctxVars, routingVars
  <2>2. Rules' = Rules /\ Seen' = Seen
    BY <2>1, RulesKept DEF Seen, Eligible, OfKind, Enabled, TypeOf
  <2> QED
    BY <2>1, <2>2 DEF RoutedInv
<1>6. CASE \/ ResolveToolIds \/ CheckPolicy \/ Interrupt \/ Approve \/ Reject \/ TimeOut \/ Reply
          \/ OrchestrationThrows
  <2>1. pc' \notin {"rules", "resolve"}
    BY <1>6 DEF ResolveToolIds, CheckPolicy, Interrupt, Approve, Reject, TimeOut, Reply,
                OrchestrationThrows, HandlerPc, QueryPc
  <2> QED
    BY <1>1, <2>1
<1>7. CASE Handle
  BY <1>1, <1>7 DEF Handle, HandleQa, HandleQuery, HandleAction, HandleWorkflow, Uses, Gives
<1>8. CASE InvokeTool \/ StartStep \/ RunSubTool \/ RecordStep \/ SettleWorkflow \/ WorkflowThrows
  <2>1. pc' \notin {"rules", "resolve"}
    BY <1>8 DEF InvokeTool, StartStep, RunSubTool, RecordStep, SettleWorkflow, WorkflowThrows, Returns
  <2> QED
    BY <1>1, <2>1
<1>9. CASE RunQuery
  <2>1. pc' \notin {"rules", "resolve"}
    BY <1>9, QueryMoves DEF QueryPc
  <2> QED
    BY <1>1, <2>1
<1> QED
  BY <1>2, <1>3, <1>4, <1>5, <1>6, <1>7, <1>8, <1>9, ScoreRouted DEF Next, Route, RunHandler

(***************************************************************************)
(* The theorems.                                                           *)
(***************************************************************************)
IInv ==
    /\ TypeOK
    /\ PhaseInv
    /\ SequenceInv
    /\ RoutedInv
    /\ ClearedInv
    /\ UnaskedInv
    /\ ToolInv
    /\ ConfinedInv
    /\ ListedTablesAreConfined

LEMMA InitInvariant == Init => IInv
<1> SUFFICES ASSUME Init PROVE IInv
  OBVIOUS
<1>1. /\ pc = "route" /\ at = 1 /\ runs = <<>> /\ flow = "none" /\ visited = {} /\ sent = {}
      /\ approval = "none" /\ clipped = {}
  BY DEF Init, ContextInit, HandlerInit, QueryInit
<1>2. PhaseInv
  BY <1>1 DEF PhaseInv, Running, Early, RoutingPc, FlowPc, RunPc, QueryPc
<1>3. SequenceInv
  BY <1>1 DEF SequenceInv, Running, RunPc, QueryPc
<1>4. RoutedInv /\ ClearedInv
  BY <1>1 DEF RoutedInv, ClearedInv, HandlerPc, QueryPc, RoutingPc
<1>5. ToolInv /\ UnaskedInv
  BY <1>1 DEF ToolInv, UnaskedInv, RunPc, QueryPc
<1>6. ConfinedInv /\ ListedTablesAreConfined
  BY <1>1 DEF ConfinedInv, ListedTablesAreConfined
<1> QED
  BY <1>2, <1>3, <1>4, <1>5, <1>6, InitTypes DEF IInv

LEMMA NextInvariant == IInv /\ [Next]_vars => IInv'
<1> SUFFICES ASSUME IInv, [Next]_vars PROVE IInv'
  OBVIOUS
<1> USE DEF IInv
<1>1. TypeOK'
  BY NextTypes
<1>2. PhaseInv'
  BY NextPhase
<1> QED
  BY <1>1, <1>2, NextSequence, NextRouted, NextCleared, NextUnasked, NextFit, NextConfines

\* Where a request is, what it has run, and the rule, the leave, the tools and the
\* statements it has come to so far fit together in every reachable state.
THEOREM RequestInvariant == Spec => []IInv
BY InitInvariant, NextInvariant, PTL DEF Spec

\* Every variable of the runtime keeps its type: routing always comes to tools of the
\* tenant, and a handler is only ever given such.
THEOREM RequestTypes == Spec => []TypeOK
<1>1. IInv => TypeOK
  BY DEF IInv
<1> QED
  BY <1>1, RequestInvariant, PTL

\* Routing within a capability takes the first of its best rules that have a tool to
\* offer, and none only when there is none (routeWithinCapability).
THEOREM BestRuleIsTaken == Spec => []RoutedByBestRule
<1>1. IInv => RoutedByBestRule
  <2> SUFFICES ASSUME IInv, pc = "resolve", edits = 0 PROVE RoutedByBestRule
    BY DEF RoutedByBestRule
  <2> DEFINE contenders == {i \in DOMAIN Rules : Rules[i].score > 0 /\ Eligible(Rules[i])}
  <2>1. Rules \in Seq(RoutingRule) /\ at \in Nat /\ at > Len(Rules)
    BY RulesAreTyped DEF IInv, TypeOK, ContextTypeOK, RoutedInv
  <2>2. Seen = contenders
    BY <2>1 DEF Seen
  <2>3. BestOf(best, contenders, Rules)
    BY <2>2 DEF IInv, RoutedInv
  <2> HIDE DEF contenders
  <2>4. IF contenders = {} THEN best.rule = 0
        ELSE /\ best.rule \in contenders
             /\ \A i \in contenders :
                  \/ Rules[i].score < Rules[best.rule].score
                  \/ Rules[i].score = Rules[best.rule].score /\ best.rule <= i
    BY <2>3 DEF BestOf, NoRule
  <2> QED
    BY <2>4 DEF RoutedByBestRule, contenders
<1> QED
  BY <1>1, RequestInvariant, PTL

\* A tool runs without anybody having been asked only when the policy has let it pass, or
\* the workflow it is a step of, or when the message itself names it; no other way leads
\* around the policy (executeOrchestration, RunSubTool, FromSignal).
THEOREM UnaskedIsCleared == Spec => []UnaskedAreCleared
<1>1. IInv => UnaskedAreCleared
  BY DEF IInv, ClearedInv, AllCleared, UnaskedInv, Unasked, UnaskedAreCleared
<1> QED
  BY <1>1, RequestInvariant, PTL

\* Only enabled tools run, of the type the capability is for, wherever they came from.
THEOREM ToolsAreRight == Spec => []RightTools
<1>1. IInv => RightTools
  BY DEF IInv, ToolInv, Fit, RightTools, Enabled, TypeOf
<1> QED
  BY <1>1, RequestInvariant, PTL

\* A workflow runs the tools of its steps in their order, each once, stops at the first
\* failure and is completed only when all of them have run.
THEOREM StepsInSequence == Spec => []StepsRunInSequence
<1>1. IInv => StepsRunInSequence
  BY DEF IInv, SequenceInv, StepsRunInSequence, RunsCover, Steps
<1> QED
  BY <1>1, RequestInvariant, PTL

\* When the handler of a workflow is over its task is settled, unless a query threw.
THEOREM WorkflowSettles == Spec => []WorkflowTaskSettles
<1>1. IInv => WorkflowTaskSettles
  BY DEF IInv, PhaseInv, Running, WorkflowTaskSettles
<1> QED
  BY <1>1, RequestInvariant, PTL

\* No statement reaches the database that names a blacklisted table, or for which the model
\* lists a table without a filter for each dimension its user is limited in, though the
\* diagram changes meanwhile.  A table the model does not list is beyond this.
THEOREM ListedTablesConfined == Spec => []ListedTablesAreConfined
<1>1. IInv => ListedTablesAreConfined
  BY DEF IInv
<1> QED
  BY <1>1, RequestInvariant, PTL
=============================================================================
