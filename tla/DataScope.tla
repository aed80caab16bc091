------------------------------ MODULE DataScope ------------------------------
(***************************************************************************)
(* The data scope of an ER diagram: which column of a table restricts what *)
(* a user may see, in two dimensions (his scopes, his id).  A language     *)
(* model suggests columns, an administrator picks or confirms them, and    *)
(* only what is settled may be published.  Server and console change the   *)
(* bindings by the same rules.                                             *)
(***************************************************************************)
CONSTANTS Tables, Columns, None

ASSUME NoneAssumption == None \notin Columns

Dimension == {"scope", "user"}
Dim == [column : Columns \cup {None}, configured : BOOLEAN, confirmed : {"unset", "yes", "no"}]
NoDim == [column |-> None, configured |-> FALSE, confirmed |-> "unset"]

Binding == [dims : [Dimension -> Dim], inferred : {"unset", "yes", "no"}, reason : BOOLEAN]
\* A table without a data scope.
NoBinding == [dims |-> [d \in Dimension |-> NoDim], inferred |-> "unset", reason |-> FALSE]

Column(b, d) == b.dims[d].column
Bound(b, d) == Column(b, d) # None
Maintained(b, d) == Bound(b, d) \/ b.dims[d].configured
Empty(b) == \A d \in Dimension : ~Bound(b, d)

\* A dimension an administrator has yet to see to.
PendingIn(b, d) ==
    /\ Maintained(b, d)
    /\ \/ ~Bound(b, d)
       \/ /\ b.dims[d].confirmed # "yes"
          /\ b.inferred = "yes" \/ b.dims[d].confirmed = "no"
Pending(b) == \E d \in Dimension : PendingIn(b, d)

\* The columns that may be published: those nobody has to confirm any more.
Settled(b, d) == Bound(b, d) /\ ~PendingIn(b, d)

Normalize(b) ==
    IF b.inferred = "yes" /\ \A d \in Dimension : Maintained(b, d) => b.dims[d].confirmed = "yes"
    THEN [b EXCEPT !.inferred = "no"] ELSE b

Prune(b) ==
    IF \/ \A d \in Dimension : ~Maintained(b, d)
       \/ Empty(b) /\ b.inferred # "yes" /\ ~b.reason
    THEN NoBinding ELSE b

\* A column given by hand is confirmed, in its dimension only.
Patch(b, d, c) ==
    Normalize(Prune([b EXCEPT !.dims[d] = [column |-> c, configured |-> TRUE,
                                           confirmed |-> "yes"]]))

Added(b, d) ==
    Patch(IF b = NoBinding THEN [b EXCEPT !.inferred = "no", !.reason = TRUE] ELSE b,
          d, Column(b, d))

Removed(b, d) == Prune([b EXCEPT !.dims[d].column = None, !.dims[d].configured = FALSE])

\* Mutant of Confirmed: the other dimension is confirmed along with this one.
ConfirmedBoth(b, d) ==
    Normalize([b EXCEPT !.dims = [e \in Dimension |-> [@[e] EXCEPT !.confirmed = "yes"]]])

Confirmed(b, d) == Normalize([b EXCEPT !.dims[d].confirmed = "yes"])

ConfirmedAll(b) ==
    IF Pending(b)
    THEN [b EXCEPT !.dims = [d \in Dimension |-> [b.dims[d] EXCEPT !.confirmed = "yes"]],
                   !.inferred = "no"]
    ELSE b

\* What the model suggests: a column in each dimension, or none, with a reason
\* or without.
Suggestion == [dims : [Dimension -> Columns \cup {None}], reason : BOOLEAN]

SuggestedDim(dim, c) ==
    [column |-> IF c # None THEN c ELSE dim.column,
     configured |-> c # None \/ dim.configured \/ dim.column # None,
     confirmed |-> IF c # None THEN "no" ELSE dim.confirmed]

\* A suggestion does not touch what is confirmed altogether.
Suggested(b, s) ==
    LET new == [dims |-> [d \in Dimension |-> SuggestedDim(b.dims[d], s.dims[d])],
                inferred |-> "yes", reason |-> b.reason \/ s.reason]
    IN  IF b.inferred = "no" THEN b
        ELSE IF \A d \in Dimension : ~Maintained(new, d) THEN NoBinding ELSE new

\* Columns the table does not have are dropped; a name reserved for a parameter
\* counts as one it does not have.
Sanitized(b, columns) ==
    LET Kept(d) == IF Column(b, d) \in columns THEN Column(b, d) ELSE None
        new == [b EXCEPT !.dims = [d \in Dimension |->
                  [b.dims[d] EXCEPT !.column = Kept(d),
                                    !.configured = @ \/ Kept(d) # None]]]
    IN  IF Empty(new) /\ (\A d \in Dimension : ~b.dims[d].configured)
           /\ b.inferred # "yes" /\ ~b.reason
        THEN NoBinding ELSE new

-----------------------------------------------------------------------------
\* A diagram has some of the tables, each with its binding.  A schema gives the
\* columns of each table, none if the database has no such table.
Diagram == UNION {[S -> Binding] : S \in SUBSET Tables}
Schema == [Tables -> SUBSET Columns]

TablesOf(schema) == {t \in Tables : schema[t] # {}}
TablesFit(D, schema) == DOMAIN D \subseteq TablesOf(schema)
ColumnsFit(D, schema) ==
    \A t \in DOMAIN D, d \in Dimension : Bound(D[t], d) => Column(D[t], d) \in schema[t]
=============================================================================
