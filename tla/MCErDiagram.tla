----------------------------- MODULE MCErDiagram -----------------------------
(***************************************************************************)
(* Instances of ErDiagram for TLC: one table with two columns.             *)
(***************************************************************************)
EXTENDS ErDiagram

CONSTANTS orders, x, y

MCTables == {orders}
MCColumns == {x, y}
\* The table has one column, and not the other, or is gone.
MCKnown == {[u \in MCTables |-> C] : C \in {{x}, {}}}
\* The model suggests a column for one dimension, or one for each, of which
\* the table does not have the first.
Idea(c, d) == [dims |-> [e \in Dimension |-> IF e = "scope" THEN c ELSE d], reason |-> TRUE]
MCIdeas == {Idea(x, None), Idea(None, x), Idea(y, x)}

\* No draft, or one with columns the model has suggested.
MCSuggested == [u \in MCTables |-> Suggested(NoBinding, Idea(x, x))]
MCDrafts == {NoDiagram, MCSuggested}

OneRestart == [f \in FaultKind |-> IF f = "server" THEN 1 ELSE 0]
=============================================================================
