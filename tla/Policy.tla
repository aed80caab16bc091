------------------------------- MODULE Policy --------------------------------
(***************************************************************************)
(* The decision of the policy module on one tool.  A rule lists clauses    *)
(* (names, risk levels, capabilities, ...); for a given tool and request   *)
(* each clause holds or not, which is all a decision depends on.           *)
(***************************************************************************)
EXTENDS Sequences

CONSTANT Clauses

RuleAction == {"deny", "need_confirm", "mark_high_risk", "allow"}

PolicyRule == [action : RuleAction, match : {"all", "any"}, clauses : SUBSET Clauses]

\* A rule without a clause matches everything.
MatchConditions(rule, held) ==
    \/ rule.clauses = {}
    \/ rule.match = "any" /\ rule.clauses \cap held # {}
    \/ rule.match = "all" /\ rule.clauses \subseteq held

\* Every enabled rule that matches has its say; priorities only order reasons.
Evaluate(rules, held) ==
    LET Says(action) == \E i \in DOMAIN rules :
                           rules[i].action = action /\ MatchConditions(rules[i], held)
    IN  [allow |-> ~Says("deny"), needConfirm |-> Says("need_confirm")]
=============================================================================
