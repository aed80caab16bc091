---------------------------- MODULE DiagramProofs ----------------------------
(***************************************************************************)
(* What is published was seen by an administrator: theorems of ErDiagram,  *)
(* for any number of tables, columns, requests in flight and restarts.     *)
(***************************************************************************)
EXTENDS ErDiagram, TLAPS

(***************************************************************************)
(* Bindings.  Each operation of DataScope returns a binding, and what is   *)
(* settled in it was settled before with the same column, but for what an  *)
(* administrator has just picked or confirmed.                             *)
(***************************************************************************)

\* Whatever is settled in b was settled in a.
SettledBefore(a, b) ==
    \A d \in Dimension : Settled(b, d) => Settled(a, d) /\ Column(a, d) = Column(b, d)

LEMMA BindingParts ==
  ASSUME NEW b \in Binding
  PROVE  /\ b = [dims |-> b.dims, inferred |-> b.inferred, reason |-> b.reason]
         /\ b.dims \in [Dimension -> Dim]
         /\ b.inferred \in {"unset", "yes", "no"} /\ b.reason \in BOOLEAN
         /\ \A d \in Dimension : /\ b.dims[d].column \in Columns \cup {None}
                                 /\ b.dims[d].configured \in BOOLEAN
                                 /\ b.dims[d].confirmed \in {"unset", "yes", "no"}
BY DEF Binding, Dim

LEMMA NoBindingIsEmpty ==
  /\ NoBinding \in Binding
  /\ \A d \in Dimension : ~Bound(NoBinding, d) /\ ~Settled(NoBinding, d)
BY DEF NoBinding, Binding, NoDim, Dim, Bound, Column, Settled

LEMMA NormalizeSettles ==
  ASSUME NEW b \in Binding
  PROVE  Normalize(b) \in Binding /\ SettledBefore(b, Normalize(b))
         /\ \A d \in Dimension : Column(Normalize(b), d) = Column(b, d)
<1>1. Normalize(b) = b \/ Normalize(b) = [dims |-> b.dims, inferred |-> "no", reason |-> b.reason]
  BY BindingParts DEF Normalize
<1>2. Normalize(b) \in Binding
  BY <1>1, BindingParts DEF Binding
<1>3. Normalize(b) # b =>
        \A d \in Dimension : Maintained(b, d) => b.dims[d].confirmed = "yes"
  BY DEF Normalize
<1>4. Normalize(b).dims = b.dims
  BY <1>1
<1> QED
  BY <1>1, <1>2, <1>3, <1>4
     DEF SettledBefore, Settled, PendingIn, Maintained, Bound, Column

LEMMA PruneSettles ==
  ASSUME NEW b \in Binding
  PROVE  Prune(b) \in Binding /\ SettledBefore(b, Prune(b))
BY NoBindingIsEmpty DEF Prune, SettledBefore

LEMMA SettledTransitive ==
  ASSUME NEW a, NEW b, NEW c, SettledBefore(a, b), SettledBefore(b, c)
  PROVE  SettledBefore(a, c)
BY DEF SettledBefore

\* A binding of which only dimension d is given anew.
Given(b, d, dim) == [b EXCEPT !.dims[d] = dim]

LEMMA DimGiven ==
  ASSUME NEW b \in Binding, NEW d \in Dimension, NEW dim \in Dim
  PROVE  /\ Given(b, d, dim) \in Binding
         /\ Given(b, d, dim).dims[d] = dim /\ Given(b, d, dim).inferred = b.inferred
         /\ \A e \in Dimension \ {d} : Given(b, d, dim).dims[e] = b.dims[e]
<1>1. Given(b, d, dim) = [dims |-> [b.dims EXCEPT ![d] = dim], inferred |-> b.inferred, reason |-> b.reason]
  BY DEF Binding, Given
<1> QED
  BY <1>1, BindingParts DEF Binding

LEMMA PatchSettles ==
  ASSUME NEW b \in Binding, NEW d \in Dimension, NEW c \in Columns \cup {None}
  PROVE  /\ Patch(b, d, c) \in Binding
         /\ \A e \in Dimension :
              Settled(Patch(b, d, c), e) =>
                \/ e = d /\ c # None /\ Column(Patch(b, d, c), e) = c
                \/ Settled(b, e) /\ Column(b, e) = Column(Patch(b, d, c), e)
<1> DEFINE dim == [column |-> c, configured |-> TRUE, confirmed |-> "yes"]
           a == Given(b, d, dim)
<1>1. dim \in Dim
  BY DEF Dim
<1>2. /\ a \in Binding
      /\ a.dims[d] = dim /\ a.inferred = b.inferred
      /\ \A e \in Dimension \ {d} : a.dims[e] = b.dims[e]
  BY <1>1, DimGiven
<1>3. Prune(a) \in Binding /\ SettledBefore(a, Prune(a))
  BY <1>2, PruneSettles
<1>4. Normalize(Prune(a)) \in Binding /\ SettledBefore(Prune(a), Normalize(Prune(a)))
  BY <1>3, NormalizeSettles
<1>5. SettledBefore(a, Patch(b, d, c)) /\ Patch(b, d, c) = Normalize(Prune(a))
  BY <1>3, <1>4, SettledTransitive DEF Patch, Given
<1>6. ASSUME NEW e \in Dimension, Settled(a, e)
      PROVE  \/ e = d /\ c # None /\ Column(a, e) = c
             \/ Settled(b, e) /\ Column(b, e) = Column(a, e)
  <2>1. CASE e = d
    BY <1>2, <1>6, <2>1 DEF Settled, Bound, Column
  <2>2. CASE e # d
    <3>1. a.dims[e] = b.dims[e] /\ a.inferred = b.inferred
      BY <1>2, <2>2
    <3> HIDE DEF a
    <3> QED
      BY <1>6, <3>1 DEF Settled, PendingIn, Maintained, Bound, Column
  <2> QED
    BY <2>1, <2>2
<1> HIDE DEF a
<1> QED
  BY <1>4, <1>5, <1>6 DEF SettledBefore

\* Adding a table to a dimension settles nothing in it.
LEMMA AddedSettles ==
  ASSUME NEW b \in Binding, NEW d \in Dimension, ~Maintained(b, d)
  PROVE  Added(b, d) \in Binding /\ SettledBefore(b, Added(b, d))
<1> DEFINE a == IF b = NoBinding THEN [b EXCEPT !.inferred = "no", !.reason = TRUE] ELSE b
<1>1. a \in Binding /\ a.dims = b.dims
  BY DEF Binding
<1>2. Column(b, d) = None
  BY DEF Maintained, Bound
<1>3. Added(b, d) = Patch(a, d, None)
  BY <1>2 DEF Added
<1>4. ASSUME NEW e \in Dimension, Settled(a, e)
      PROVE  Settled(b, e) /\ Column(b, e) = Column(a, e)
  <2>1. b # NoBinding
    BY <1>1, <1>4, NoBindingIsEmpty DEF Settled, Bound, Column
  <2> QED
    BY <2>1, <1>4
<1> HIDE DEF a
<1>5. /\ Patch(a, d, None) \in Binding
      /\ \A e \in Dimension : Settled(Patch(a, d, None), e) =>
           Settled(a, e) /\ Column(a, e) = Column(Patch(a, d, None), e)
  BY <1>1, PatchSettles
<1> QED
  BY <1>3, <1>4, <1>5 DEF SettledBefore

LEMMA RemovedSettles ==
  ASSUME NEW b \in Binding, NEW d \in Dimension
  PROVE  Removed(b, d) \in Binding /\ SettledBefore(b, Removed(b, d))
<1> DEFINE dim == [b.dims[d] EXCEPT !.column = None, !.configured = FALSE]
           a == Given(b, d, dim)
<1>1. dim \in Dim /\ dim.column = None
  <2>1. b.dims[d] \in Dim
    BY BindingParts
  <2> QED
    BY <2>1 DEF Dim
<1>2. Removed(b, d) = Prune(a)
  BY DEF Removed, Given, Binding, Dim
<1>3. /\ a \in Binding
      /\ a.dims[d] = dim /\ a.inferred = b.inferred
      /\ \A e \in Dimension \ {d} : a.dims[e] = b.dims[e]
  BY <1>1, DimGiven
<1>4. SettledBefore(b, a)
  BY <1>1, <1>3 DEF SettledBefore, Settled, PendingIn, Maintained, Bound, Column
<1> HIDE DEF a
<1>5. Prune(a) \in Binding /\ SettledBefore(a, Prune(a))
  BY <1>3, PruneSettles
<1> QED
  BY <1>2, <1>4, <1>5, SettledTransitive

LEMMA ConfirmedSettles ==
  ASSUME NEW b \in Binding, NEW d \in Dimension
  PROVE  /\ Confirmed(b, d) \in Binding
         /\ \A e \in Dimension : Column(Confirmed(b, d), e) = Column(b, e)
         /\ \A e \in Dimension \ {d} : Settled(Confirmed(b, d), e) => Settled(b, e)
<1> DEFINE dim == [b.dims[d] EXCEPT !.confirmed = "yes"]
           a == Given(b, d, dim)
<1>1. dim \in Dim /\ dim.column = b.dims[d].column
  BY BindingParts DEF Dim, Binding
<1>2. Confirmed(b, d) = Normalize(a)
  BY DEF Confirmed, Given, Binding, Dim
<1>3. /\ a \in Binding
      /\ a.dims[d] = dim /\ a.inferred = b.inferred
      /\ \A e \in Dimension \ {d} : a.dims[e] = b.dims[e]
  BY <1>1, DimGiven
<1>4. /\ \A e \in Dimension : Column(a, e) = Column(b, e)
      /\ \A e \in Dimension \ {d} : Settled(a, e) => Settled(b, e)
  BY <1>1, <1>3 DEF Settled, PendingIn, Maintained, Bound, Column
<1> HIDE DEF a
<1>5. /\ Normalize(a) \in Binding /\ SettledBefore(a, Normalize(a))
      /\ \A e \in Dimension : Column(Normalize(a), e) = Column(a, e)
  BY <1>3, NormalizeSettles
<1> QED
  BY <1>2, <1>4, <1>5 DEF SettledBefore

LEMMA ConfirmedAllSettles ==
  ASSUME NEW b \in Binding
  PROVE  /\ ConfirmedAll(b) \in Binding
         /\ \A d \in Dimension : Column(ConfirmedAll(b), d) = Column(b, d)
         /\ ~Pending(b) => ConfirmedAll(b) = b
<1> DEFINE dims == [d \in Dimension |-> [b.dims[d] EXCEPT !.confirmed = "yes"]]
<1>1. dims \in [Dimension -> Dim] /\ \A d \in Dimension : dims[d].column = b.dims[d].column
  BY BindingParts DEF Dim, Binding
<1>2. ConfirmedAll(b) = IF Pending(b) THEN [b EXCEPT !.dims = dims, !.inferred = "no"] ELSE b
  BY DEF ConfirmedAll
<1> HIDE DEF dims
<1>3. /\ [b EXCEPT !.dims = dims, !.inferred = "no"] \in Binding
      /\ [b EXCEPT !.dims = dims, !.inferred = "no"].dims = dims
  BY <1>1 DEF Binding
<1> QED
  BY <1>1, <1>2, <1>3 DEF Column

\* A suggestion takes away what was settled, and settles nothing.
LEMMA SuggestedSettles ==
  ASSUME NEW b \in Binding, NEW s \in Suggestion
  PROVE  Suggested(b, s) \in Binding /\ SettledBefore(b, Suggested(b, s))
<1> DEFINE dims == [d \in Dimension |-> SuggestedDim(b.dims[d], s.dims[d])]
           new == [dims |-> dims, inferred |-> "yes", reason |-> b.reason \/ s.reason]
<1>1. dims \in [Dimension -> Dim]
  <2>1. \A d \in Dimension : s.dims[d] \in Columns \cup {None}
    BY DEF Suggestion
  <2> QED
    BY <2>1, BindingParts DEF SuggestedDim, Dim
<1>2. new \in Binding
  BY <1>1, BindingParts DEF Binding, Suggestion
<1>3. SettledBefore(b, new)
  BY BindingParts DEF SettledBefore, Settled, PendingIn, Maintained, Bound, Column, SuggestedDim
<1> HIDE DEF new
<1>4. Suggested(b, s) \in {b, NoBinding, new}
  BY DEF Suggested, new
<1>5. SettledBefore(b, b)
  BY DEF SettledBefore
<1> QED
  BY <1>2, <1>3, <1>4, <1>5, NoBindingIsEmpty DEF SettledBefore

LEMMA SanitizedSettles ==
  ASSUME NEW b \in Binding, NEW columns \in SUBSET Columns
  PROVE  Sanitized(b, columns) \in Binding /\ SettledBefore(b, Sanitized(b, columns))
<1> DEFINE Kept(d) == IF Column(b, d) \in columns THEN Column(b, d) ELSE None
           dims == [d \in Dimension |->
                      [b.dims[d] EXCEPT !.column = Kept(d), !.configured = @ \/ Kept(d) # None]]
           new == [dims |-> dims, inferred |-> b.inferred, reason |-> b.reason]
<1>1. dims \in [Dimension -> Dim]
      /\ \A d \in Dimension : /\ dims[d].column = Kept(d)
                              /\ dims[d].confirmed = b.dims[d].confirmed
  <2>1. ASSUME NEW d \in Dimension
        PROVE  dims[d] \in Dim /\ dims[d].column = Kept(d)
               /\ dims[d].confirmed = b.dims[d].confirmed
    <3>1. b.dims[d] \in Dim /\ Kept(d) \in Columns \cup {None}
      BY BindingParts
    <3> QED
      BY <3>1 DEF Dim
  <2> QED
    BY <2>1
<1>2. Sanitized(b, columns) \in {NoBinding, [b EXCEPT !.dims = dims]}
  BY DEF Sanitized
<1> HIDE DEF dims
<1>3. [b EXCEPT !.dims = dims] = new
  BY DEF Binding
<1>4. new \in Binding
  BY <1>1, BindingParts DEF Binding
<1>5. SettledBefore(b, new)
  BY <1>1, NoneAssumption
     DEF SettledBefore, Settled, PendingIn, Maintained, Bound, Column
<1> QED
  BY <1>2, <1>3, <1>4, <1>5, NoBindingIsEmpty DEF SettledBefore

(***************************************************************************)
(* Diagrams.                                                               *)
(***************************************************************************)
LEMMA DiagramParts ==
  ASSUME NEW D \in Diagram
  PROVE  DOMAIN D \in SUBSET Tables /\ D \in [DOMAIN D -> Binding]
BY DEF Diagram

LEMMA DiagramMade ==
  ASSUME NEW S \in SUBSET Tables, NEW D \in [S -> Binding]
  PROVE  D \in Diagram /\ DOMAIN D = S
BY DEF Diagram

\* What is settled about table t is among the columns V.
VouchedIn(V, t, b) ==
    \A d \in Dimension : Settled(b, d) => <<t, d, Column(b, d)>> \in V

AllVouched(V, D) == D \in Diagram => \A t \in DOMAIN D : VouchedIn(V, t, D[t])

LEMMA VouchedBefore ==
  ASSUME NEW V, NEW t, NEW a, NEW b, SettledBefore(a, b), VouchedIn(V, t, a)
  PROVE  VouchedIn(V, t, b)
BY DEF SettledBefore, VouchedIn

LEMMA VouchedMore ==
  ASSUME NEW V, NEW W, V \subseteq W, NEW D, AllVouched(V, D)
  PROVE  AllVouched(W, D)
BY DEF AllVouched, VouchedIn

LEMMA EmptyIsVouched ==
  ASSUME NEW V, NEW t
  PROVE  VouchedIn(V, t, NoBinding)
BY NoBindingIsEmpty DEF VouchedIn

LEMMA NormalizedVouched ==
  ASSUME NEW V, NEW D \in Diagram, AllVouched(V, D)
  PROVE  /\ NormalizedAll(D) \in Diagram /\ DOMAIN NormalizedAll(D) = DOMAIN D
         /\ AllVouched(V, NormalizedAll(D))
<1>1. DOMAIN D \in SUBSET Tables /\ \A t \in DOMAIN D : D[t] \in Binding
  BY DiagramParts
<1>2. NormalizedAll(D) \in [DOMAIN D -> Binding]
  BY <1>1, NormalizeSettles DEF NormalizedAll
<1>3. ASSUME NEW t \in DOMAIN D
      PROVE  VouchedIn(V, t, NormalizedAll(D)[t])
  <2>1. NormalizedAll(D)[t] = Normalize(D[t]) /\ VouchedIn(V, t, D[t])
    BY <1>3 DEF NormalizedAll, AllVouched
  <2> QED
    BY <1>1, <2>1, NormalizeSettles, VouchedBefore
<1> QED
  BY <1>1, <1>2, <1>3, DiagramMade DEF AllVouched

LEMMA SanitizedVouched ==
  ASSUME NEW V, NEW D \in Diagram, AllVouched(V, D), NEW s \in Schema
  PROVE  /\ SanitizedAll(D, s) \in Diagram /\ DOMAIN SanitizedAll(D, s) = DOMAIN D
         /\ AllVouched(V, SanitizedAll(D, s))
<1>1. /\ DOMAIN D \in SUBSET Tables /\ \A t \in DOMAIN D : D[t] \in Binding
      /\ \A t \in DOMAIN D : s[t] \in SUBSET Columns
  BY DiagramParts DEF Schema
<1>2. SanitizedAll(D, s) \in [DOMAIN D -> Binding]
  BY <1>1, SanitizedSettles DEF SanitizedAll
<1>3. ASSUME NEW t \in DOMAIN D
      PROVE  VouchedIn(V, t, SanitizedAll(D, s)[t])
  <2>1. SanitizedAll(D, s)[t] = Sanitized(D[t], s[t]) /\ VouchedIn(V, t, D[t])
    BY <1>3 DEF SanitizedAll, AllVouched
  <2> QED
    BY <1>1, <2>1, SanitizedSettles, VouchedBefore
<1> QED
  BY <1>1, <1>2, <1>3, DiagramMade DEF AllVouched

LEMMA MergedVouched ==
  ASSUME NEW V, NEW D \in Diagram \cup {NoDiagram}, AllVouched(V, D), NEW s \in Schema
  PROVE  Merged(D, s) \in Diagram /\ AllVouched(V, Merged(D, s))
<1>1. TablesOf(s) \in SUBSET Tables
  BY DEF TablesOf
<1>2. ASSUME NEW t \in TablesOf(s)
      PROVE  Merged(D, s)[t] \in Binding /\ VouchedIn(V, t, Merged(D, s)[t])
  <2>1. CASE D \in Diagram /\ t \in DOMAIN D
    <3>1. Merged(D, s)[t] = D[t]
      BY <2>1, <1>2, NoDiagramAssumption DEF Merged
    <3> QED
      BY <2>1, <3>1, DiagramParts DEF AllVouched
  <2>2. CASE ~(D \in Diagram /\ t \in DOMAIN D)
    <3>1. Merged(D, s)[t] = NoBinding
      BY <2>2, <1>2 DEF Merged
    <3> QED
      BY <3>1, NoBindingIsEmpty, EmptyIsVouched
  <2> QED
    BY <2>1, <2>2
<1>3. DOMAIN Merged(D, s) = TablesOf(s) /\ Merged(D, s) \in [TablesOf(s) -> Binding]
  BY <1>2 DEF Merged
<1> QED
  BY <1>1, <1>2, <1>3, DiagramMade DEF AllVouched

LEMMA SuggestionsVouched ==
  ASSUME NEW V, NEW D \in Diagram \cup {NoDiagram}, AllVouched(V, D), NEW s \in Schema,
         NEW T \in SUBSET Tables, NEW suggestions \in [T -> Ideas]
  PROVE  /\ WithSuggestions(D, s, suggestions) \in Diagram
         /\ AllVouched(V, WithSuggestions(D, s, suggestions))
<1> DEFINE base == IF D # NoDiagram /\ DOMAIN D # {} THEN D ELSE Merged(D, s)
           new == WithSuggestions(D, s, suggestions)
<1>1. base \in Diagram /\ AllVouched(V, base)
  BY MergedVouched
<1>2. new = [t \in DOMAIN base |-> IF t \in DOMAIN suggestions
                                   THEN Suggested(base[t], suggestions[t]) ELSE base[t]]
  BY DEF WithSuggestions
<1> HIDE DEF base, new
<1>3. ASSUME NEW t \in DOMAIN base
      PROVE  new[t] \in Binding /\ VouchedIn(V, t, new[t])
  <2>1. base[t] \in Binding /\ VouchedIn(V, t, base[t])
    BY <1>1, DiagramParts DEF AllVouched
  <2>2. CASE t \in DOMAIN suggestions
    <3>1. suggestions[t] \in Suggestion /\ new[t] = Suggested(base[t], suggestions[t])
      BY <1>2, <2>2, IdeasAssumption
    <3> QED
      BY <2>1, <3>1, SuggestedSettles, VouchedBefore
  <2>3. CASE t \notin DOMAIN suggestions
    BY <1>2, <2>1, <2>3
  <2> QED
    BY <2>2, <2>3
<1>4. DOMAIN base \in SUBSET Tables /\ new \in [DOMAIN base -> Binding]
  BY <1>1, <1>2, <1>3, DiagramParts
<1>5. new \in Diagram /\ DOMAIN new = DOMAIN base
  BY <1>4, DiagramMade
<1>6. AllVouched(V, new)
  BY <1>3, <1>5 DEF AllVouched
<1> QED
  BY <1>5, <1>6 DEF new

\* What may be published: nothing of it is pending.
LEMMA PublishableVouched ==
  ASSUME NEW V, NEW D \in Diagram, AllVouched(V, D), \A t \in DOMAIN D : ~Pending(D[t])
  PROVE  \A t \in DOMAIN D, d \in Dimension : Bound(D[t], d) => <<t, d, Column(D[t], d)>> \in V
BY DEF AllVouched, VouchedIn, Pending, Settled

(***************************************************************************)
(* The inductive invariant.                                                *)
(***************************************************************************)

\* What a request carries is vouched for; it has a diagram when it is about to
\* write one, and is about to publish only what is not pending.  Where it is
\* tells what it was asked for.
RequestVouched(V, q) ==
    /\ AllVouched(V, q.diagram)
    /\ q.pc \in {"check", "ready"} => q.kind = "generate"
    /\ q.pc = "draft" => q.kind \in {"suggest", "publish", "generate"}
    /\ q.pc = "reply" => q.kind \in {"save", "persist"}
    /\ q.kind \in {"save", "persist"} /\ q.pc \notin {"idle", "load"} => q.diagram \in Diagram
    /\ q.kind = "publish" /\ q.pc \in {"schema", "validate", "write"} => q.diagram \in Diagram
    /\ q.kind = "publish" /\ q.pc = "write" => \A t \in DOMAIN q.diagram : ~Pending(q.diagram[t])

DiagramsVouched == AllVouched(vouched, draft) /\ AllVouched(vouched, shown)
RequestsVouched == \A c \in Callers : RequestVouched(vouched, request[c])

IInv == TypeOK /\ DiagramsVouched /\ RequestsVouched /\ PublishedIsVouched

LEMMA IdleIsVouched ==
  /\ Idle \in InFlight
  /\ \A V : RequestVouched(V, Idle)
  /\ \A V : AllVouched(V, NoDiagram)
BY NoDiagramAssumption DEF Idle, InFlight, Pc, Kind, Schema, RequestVouched, AllVouched

LEMMA LoadIsVouched ==
  /\ [Idle EXCEPT !.pc = "load"] \in InFlight
  /\ \A V : RequestVouched(V, [Idle EXCEPT !.pc = "load"])
BY NoDiagramAssumption DEF Idle, InFlight, Pc, Kind, Schema, RequestVouched, AllVouched

LEMMA InitVouched == Init => IInv
<1> SUFFICES ASSUME Init PROVE IInv
  OBVIOUS
<1>1. schema \in Schema /\ draft \in Diagram \cup {NoDiagram}
  BY DiagramsAssumption DEF Init
<1>2. vouched \subseteq Tables \X Dimension \X Columns
  BY DEF Init, SettledIn
<1>3. TypeOK
  <2>1. /\ published \in Diagram \cup {NoDiagram} /\ current \in Requests \cup {None}
        /\ shown \in Diagram \cup {NoDiagram} /\ generating \in BOOLEAN
    BY <1>1 DEF Init
  <2>2. ops \in 0..MaxOps
    BY OpsAssumption DEF Init
  <2>3. status \in [Requests -> {"running", "done", "failed"}]
    BY DEF Init
  <2>4. request \in [Callers -> InFlight]
    BY IdleIsVouched DEF Init
  <2>5. faults \in [FaultKind -> Nat]
    BY DEF Init, NoFaultYet
  <2> QED
    BY <1>1, <1>2, <2>1, <2>2, <2>3, <2>4, <2>5 DEF TypeOK
<1>4. AllVouched(vouched, draft)
  <2> SUFFICES ASSUME draft \in Diagram, NEW t \in DOMAIN draft, NEW d \in Dimension,
                      Settled(draft[t], d)
               PROVE  <<t, d, Column(draft[t], d)>> \in vouched
    BY DEF AllVouched, VouchedIn
  <2>1. t \in Tables /\ Column(draft[t], d) \in Columns
    BY DiagramParts, BindingParts DEF Settled, Bound, Column
  <2>2. vouched = {v \in Tables \X Dimension \X Columns :
                     v[1] \in DOMAIN draft /\ Settled(draft[v[1]], v[2])
                     /\ Column(draft[v[1]], v[2]) = v[3]}
    BY NoDiagramAssumption DEF Init, SettledIn
  <2> QED
    BY <2>1, <2>2
<1>5. DiagramsVouched /\ RequestsVouched /\ PublishedIsVouched
  BY <1>4, IdleIsVouched DEF Init, DiagramsVouched, RequestsVouched, PublishedIsVouched
<1> QED
  BY <1>3, <1>5 DEF IInv

(***************************************************************************)
(* Steps.                                                                  *)
(***************************************************************************)
LEMMA RequestBecomes ==
  ASSUME TypeOK, NEW c \in Callers, NEW q \in InFlight, Becomes(c, q)
  PROVE  /\ request' \in [Callers -> InFlight]
         /\ request'[c] = q
         /\ \A e \in Callers \ {c} : request'[e] = request[e]
BY DEF TypeOK, Becomes

LEMMA RequestsStayVouched ==
  ASSUME IInv, NEW c \in Callers, NEW q \in InFlight, Becomes(c, q),
         vouched \subseteq vouched', RequestVouched(vouched', q)
  PROVE  RequestsVouched'
<1>1. ASSUME NEW e \in Callers \ {c}
      PROVE  RequestVouched(vouched', request'[e])
  <2>1. request'[e] = request[e] /\ RequestVouched(vouched, request[e])
    BY RequestBecomes DEF IInv, RequestsVouched
  <2> QED
    BY <2>1, VouchedMore DEF RequestVouched
<1>2. RequestVouched(vouched', request'[c])
  BY RequestBecomes DEF IInv
<1> QED
  BY <1>1, <1>2 DEF RequestsVouched

\* A step that writes neither rows nor the page, and takes a request on.
LEMMA RequestSteps ==
  ASSUME IInv, NEW c \in Callers, NEW q \in InFlight, Becomes(c, q),
         RequestVouched(vouched, q), UNCHANGED <<rows, shown, ops, vouched>>,
         current' \in Requests \cup {None}, generating' \in BOOLEAN,
         status' \in [Requests -> {"running", "done", "failed"}], UNCHANGED faults
  PROVE  IInv'
<1>1. TypeOK'
  BY RequestBecomes DEF IInv, TypeOK, rows
<1>2. RequestsVouched'
  BY RequestsStayVouched
<1> QED
  BY <1>1, <1>2 DEF IInv, DiagramsVouched, PublishedIsVouched, rows

\* What is published stays vouched for as more is.
LEMMA PublishedStaysVouched ==
  ASSUME PublishedIsVouched, published' = published, vouched \subseteq vouched'
  PROVE  PublishedIsVouched'
BY DEF PublishedIsVouched

LEMMA PublishedVouched ==
  ASSUME PublishedIsVouched
  PROVE  AllVouched(vouched, published)
BY NoDiagramAssumption DEF PublishedIsVouched, AllVouched, VouchedIn, Settled

(***************************************************************************)
(* The administrator.                                                      *)
(***************************************************************************)
LEMMA BaseVouched ==
  ASSUME IInv
  PROVE  /\ Base \in Diagram /\ AllVouched(vouched, Base)
         /\ \A t : t \in Tables => Of(t) \in Binding /\ VouchedIn(vouched, t, Of(t))
<1>1. Base \in Diagram /\ AllVouched(vouched, Base)
  <2>1. [t \in {} |-> NoBinding] \in Diagram
    <3>1. [t \in {} |-> NoBinding] \in [{} -> Binding]
      OBVIOUS
    <3> QED
      BY <3>1, DiagramMade
  <2>2. AllVouched(vouched, [t \in {} |-> NoBinding])
    BY DEF AllVouched
  <2>3. CASE shown = NoDiagram
    BY <2>1, <2>2, <2>3 DEF Base
  <2>4. CASE shown # NoDiagram
    BY <2>4 DEF Base, IInv, TypeOK, DiagramsVouched
  <2> QED
    BY <2>3, <2>4
<1>2. ASSUME NEW t \in Tables
      PROVE  Of(t) \in Binding /\ VouchedIn(vouched, t, Of(t))
  <2>1. CASE t \in DOMAIN Base
    BY <1>1, <2>1, DiagramParts DEF Of, AllVouched
  <2>2. CASE t \notin DOMAIN Base
    BY <2>2, NoBindingIsEmpty, EmptyIsVouched DEF Of
  <2> QED
    BY <2>1, <2>2
<1> QED
  BY <1>1, <1>2

LEMMA EditedVouched ==
  ASSUME IInv, NEW V, vouched \subseteq V, NEW t \in Tables, NEW b \in Binding, VouchedIn(V, t, b)
  PROVE  Edited(t, b) \in Diagram /\ AllVouched(V, Edited(t, b))
<1>1. DOMAIN Base \cup {t} \in SUBSET Tables /\ \A u \in DOMAIN Base : Base[u] \in Binding
  BY BaseVouched, DiagramParts
<1>2. AllVouched(V, Base)
  BY BaseVouched, VouchedMore
<1>3. DOMAIN Edited(t, b) = DOMAIN Base \cup {t}
      /\ Edited(t, b) \in [DOMAIN Base \cup {t} -> Binding]
  BY <1>1 DEF Edited
<1>4. ASSUME NEW u \in DOMAIN Base \cup {t}
      PROVE  VouchedIn(V, u, Edited(t, b)[u])
  BY <1>2, BaseVouched DEF Edited, AllVouched
<1> QED
  BY <1>1, <1>3, <1>4, DiagramMade DEF AllVouched
LEMMA BeginVouched ==
  ASSUME IInv, NEW r \in Requests, NEW q \in InFlight, Begins(r, q), RequestVouched(vouched', q),
         shown' \in Diagram \cup {NoDiagram}, AllVouched(vouched', shown'),
         vouched \subseteq vouched', vouched' \subseteq Tables \X Dimension \X Columns
  PROVE  IInv'
<1>1. Becomes(r, q) /\ UNCHANGED <<rows, jobMap, generating, faults>> /\ ops' \in 0..MaxOps
  BY OpsAssumption DEF Begins, IInv, TypeOK
<1>2. TypeOK'
  BY <1>1, RequestBecomes DEF IInv, TypeOK, rows, jobMap, Callers
<1>3. RequestsVouched'
  BY <1>1, RequestsStayVouched DEF Callers
<1>4. DiagramsVouched' /\ PublishedIsVouched'
  BY <1>1, VouchedMore, PublishedStaysVouched DEF IInv, DiagramsVouched, rows
<1> QED
  BY <1>2, <1>3, <1>4 DEF IInv

LEMMA AskVouched ==
  ASSUME IInv, NEW r \in Requests,
         NEW kind \in {"introspect", "suggest", "publish", "generate"},
         NEW pc \in {"introspect", "check", "schema", "draft"},
         pc = "draft" <=> kind = "publish", pc = "check" <=> kind = "generate",
         AsksFor(r, kind, pc), UNCHANGED <<shown, vouched>>
  PROVE  IInv'
<1> DEFINE q == [Idle EXCEPT !.kind = kind, !.pc = pc]
<1>1. /\ q \in InFlight
      /\ q.kind = kind /\ q.pc = pc /\ q.diagram = NoDiagram
  BY IdleIsVouched DEF Idle, InFlight, Pc, Kind
<1>2. Begins(r, q)
  BY DEF AsksFor
<1> HIDE DEF q
<1>3. RequestVouched(vouched', q)
  BY <1>1, IdleIsVouched DEF RequestVouched
<1> QED
  BY <1>1, <1>2, <1>3, BeginVouched DEF IInv, TypeOK, DiagramsVouched

\* A diagram that is sent to be saved.
LEMMA SendVouched ==
  ASSUME IInv, NEW r \in Requests, NEW kind \in {"save", "persist"},
         NEW D \in Diagram, AllVouched(vouched', D),
         Begins(r, [Idle EXCEPT !.kind = kind, !.pc = "schema", !.diagram = D]),
         shown' = D \/ shown' = shown,
         vouched \subseteq vouched', vouched' \subseteq Tables \X Dimension \X Columns
  PROVE  IInv'
<1> DEFINE q == [Idle EXCEPT !.kind = kind, !.pc = "schema", !.diagram = D]
<1>1. /\ q \in InFlight
      /\ q.kind = kind /\ q.pc = "schema" /\ q.diagram = D
  BY IdleIsVouched DEF Idle, InFlight, Pc, Kind
<1> HIDE DEF q
<1>2. RequestVouched(vouched', q)
  BY <1>1 DEF RequestVouched
<1>3. shown' \in Diagram \cup {NoDiagram} /\ AllVouched(vouched', shown')
  BY VouchedMore DEF IInv, TypeOK, DiagramsVouched
<1>4. Begins(r, q)
  BY DEF q
<1> QED
  BY <1>1, <1>2, <1>3, <1>4, BeginVouched

LEMMA SavesVouched ==
  ASSUME IInv, NEW r \in Requests, Saves(r)
  PROVE  IInv'
BY BaseVouched, SendVouched DEF Saves, IInv, TypeOK

LEMMA RemoveVouched ==
  ASSUME IInv, NEW r \in Requests, NEW t \in Tables, NEW d \in Dimension, RemoveTable(r, t, d)
  PROVE  IInv'
<1>1. Removed(Of(t), d) \in Binding /\ VouchedIn(vouched, t, Removed(Of(t), d))
  BY BaseVouched, RemovedSettles, VouchedBefore
<1>2. /\ Edited(t, Removed(Of(t), d)) \in Diagram
      /\ AllVouched(vouched, Edited(t, Removed(Of(t), d)))
  BY <1>1, EditedVouched
<1> QED
  BY <1>2, SendVouched DEF RemoveTable, Persists, IInv, TypeOK

LEMMA ConfirmRowVouched ==
  ASSUME IInv, NEW r \in Requests, NEW t \in Tables, NEW d \in Dimension, ConfirmRow(r, t, d)
  PROVE  IInv'
<1>1. Of(t) \in Binding /\ VouchedIn(vouched, t, Of(t))
  BY BaseVouched
<1>2. /\ vouched' = vouched \cup {<<t, d, Column(Of(t), d)>>}
      /\ Column(Of(t), d) \in Columns
  BY <1>1, BindingParts DEF ConfirmRow, Bound, Column
<1>3. vouched' \subseteq Tables \X Dimension \X Columns
  BY <1>2 DEF IInv, TypeOK
<1>4. /\ Confirmed(Of(t), d) \in Binding
      /\ VouchedIn(vouched', t, Confirmed(Of(t), d))
  <2>1. /\ \A e \in Dimension : Column(Confirmed(Of(t), d), e) = Column(Of(t), e)
        /\ \A e \in Dimension \ {d} : Settled(Confirmed(Of(t), d), e) => Settled(Of(t), e)
    BY <1>1, ConfirmedSettles
  <2>2. ASSUME NEW e \in Dimension, Settled(Confirmed(Of(t), d), e)
        PROVE  <<t, e, Column(Confirmed(Of(t), d), e)>> \in vouched'
    <3>1. CASE e = d
      BY <1>2, <2>1, <3>1
    <3>2. CASE e # d
      BY <1>1, <1>2, <2>1, <2>2, <3>2 DEF VouchedIn
    <3> QED
      BY <3>1, <3>2
  <2> QED
    BY <1>1, <2>2, ConfirmedSettles DEF VouchedIn
<1>5. /\ Edited(t, Confirmed(Of(t), d)) \in Diagram
      /\ AllVouched(vouched', Edited(t, Confirmed(Of(t), d)))
  BY <1>2, <1>4, EditedVouched
<1> QED
  BY <1>2, <1>3, <1>5, SendVouched DEF ConfirmRow, Persists

LEMMA ConfirmAllVouched ==
  ASSUME IInv, NEW r \in Requests, ConfirmAll(r)
  PROVE  IInv'
<1> DEFINE D == [t \in DOMAIN Base |-> ConfirmedAll(Base[t])]
<1>1. /\ vouched \subseteq vouched' /\ vouched' \subseteq Tables \X Dimension \X Columns
      /\ \A t \in Tables, d \in Dimension, c \in Columns :
           Pending(Of(t)) /\ Column(Of(t), d) = c => <<t, d, c>> \in vouched'
  BY DEF ConfirmAll, IInv, TypeOK
<1>2. DOMAIN Base \in SUBSET Tables /\ \A t \in DOMAIN Base : Base[t] \in Binding
  BY BaseVouched, DiagramParts
<1>3. D \in [DOMAIN Base -> Binding]
  BY <1>2, ConfirmedAllSettles
<1>4. ASSUME NEW t \in DOMAIN Base, NEW d \in Dimension, Settled(D[t], d)
      PROVE  <<t, d, Column(D[t], d)>> \in vouched'
  <2>1. Of(t) = Base[t] /\ D[t] = ConfirmedAll(Base[t]) /\ t \in Tables
    BY <1>2 DEF Of
  <2>2. CASE Pending(Base[t])
    <3>1. Column(D[t], d) = Column(Base[t], d)
      BY <1>2, <2>1, ConfirmedAllSettles
    <3>2. Column(Base[t], d) \in Columns
      BY <1>2, <1>4, <3>1, BindingParts DEF Settled, Bound, Column
    <3> QED
      BY <1>1, <2>1, <2>2, <3>1, <3>2
  <2>3. CASE ~Pending(Base[t])
    <3>1. D[t] = Base[t]
      BY <1>2, <2>1, <2>3, ConfirmedAllSettles
    <3> QED
      BY <1>1, <1>4, <3>1, BaseVouched DEF AllVouched, VouchedIn
  <2> QED
    BY <2>2, <2>3
<1>5. D \in Diagram /\ AllVouched(vouched', D)
  BY <1>2, <1>3, <1>4, DiagramMade DEF AllVouched, VouchedIn
<1>6. shown' = D /\ Begins(r, [Idle EXCEPT !.kind = "persist", !.pc = "schema", !.diagram = D])
  BY DEF ConfirmAll, Persists
<1> HIDE DEF D
<1> QED
  BY <1>1, <1>5, <1>6, SendVouched

LEMMA PickVouched ==
  ASSUME IInv, NEW t \in Tables, NEW d \in Dimension, PickColumn(t, d)
  PROVE  IInv'
<1>1. Of(t) \in Binding /\ VouchedIn(vouched, t, Of(t))
  BY BaseVouched
<1>2. /\ vouched \subseteq vouched' /\ vouched' \subseteq Tables \X Dimension \X Columns
      /\ shown' \in Diagram /\ AllVouched(vouched', shown')
  <2>1. CASE ~Maintained(Of(t), d) /\ shown' = Edited(t, Added(Of(t), d)) /\ UNCHANGED vouched
    <3>1. Added(Of(t), d) \in Binding /\ VouchedIn(vouched', t, Added(Of(t), d))
      BY <1>1, <2>1, AddedSettles, VouchedBefore
    <3> QED
      BY <2>1, <3>1, EditedVouched DEF IInv, TypeOK
  <2>2. ASSUME NEW c \in Columns \cup {None}, shown' = Edited(t, Patch(Of(t), d, c)),
               vouched' = vouched \cup (IF c = None THEN {} ELSE {<<t, d, c>>})
        PROVE  /\ vouched \subseteq vouched' /\ vouched' \subseteq Tables \X Dimension \X Columns
               /\ shown' \in Diagram /\ AllVouched(vouched', shown')
    <3>1. vouched \subseteq vouched' /\ vouched' \subseteq Tables \X Dimension \X Columns
      BY <2>2 DEF IInv, TypeOK
    <3>2. /\ Patch(Of(t), d, c) \in Binding
          /\ \A e \in Dimension :
               Settled(Patch(Of(t), d, c), e) =>
                 \/ e = d /\ c # None /\ Column(Patch(Of(t), d, c), e) = c
                 \/ Settled(Of(t), e) /\ Column(Of(t), e) = Column(Patch(Of(t), d, c), e)
      BY <1>1, PatchSettles
    <3>3. VouchedIn(vouched', t, Patch(Of(t), d, c))
      BY <1>1, <2>2, <3>2 DEF VouchedIn
    <3> QED
      BY <2>2, <3>1, <3>2, <3>3, EditedVouched
  <2> QED
    BY <2>1, <2>2 DEF PickColumn
<1>3. /\ UNCHANGED <<rows, jobMap, request, generating, faults>>
      /\ ops' \in 0..MaxOps
  BY OpsAssumption DEF PickColumn, IInv, TypeOK
<1>4. TypeOK'
  BY <1>2, <1>3 DEF IInv, TypeOK, rows, jobMap
<1>5. DiagramsVouched' /\ PublishedIsVouched'
  BY <1>2, <1>3, VouchedMore, PublishedStaysVouched DEF IInv, DiagramsVouched, rows
<1>6. RequestsVouched'
  BY <1>2, <1>3, VouchedMore DEF IInv, RequestsVouched, RequestVouched
<1> QED
  BY <1>4, <1>5, <1>6 DEF IInv

(***************************************************************************)
(* The server.                                                             *)
(***************************************************************************)
LEMMA EndsVouched ==
  ASSUME IInv, NEW c \in Callers, Ends(c) \/ Loads(c) \/ UNCHANGED request,
         UNCHANGED <<rows, shown, ops, vouched, faults>>,
         current' \in Requests \cup {None}, generating' \in BOOLEAN,
         status' \in [Requests -> {"running", "done", "failed"}]
  PROVE  IInv'
<1>1. CASE Ends(c)
  BY <1>1, IdleIsVouched, RequestSteps DEF Ends
<1>2. CASE Loads(c)
  BY <1>2, LoadIsVouched, RequestSteps DEF Loads
<1>3. CASE UNCHANGED request
  BY <1>3 DEF IInv, TypeOK, DiagramsVouched, RequestsVouched, PublishedIsVouched, rows
<1> QED
  BY <1>1, <1>2, <1>3

\* A request that goes on with what it carries, without having any more to answer for.
LEMMA GoesVouched ==
  ASSUME IInv, NEW c \in Callers, NEW pc \in {"ready", "schema", "write"}, Goes(c, pc),
         request[c].kind \in {"save", "persist"} => request[c].pc \notin {"idle", "load"},
         request[c].kind # "publish", pc = "ready" => request[c].kind = "generate",
         UNCHANGED <<rows, shown, ops, vouched, faults>>,
         current' \in Requests \cup {None}, generating' \in BOOLEAN,
         status' \in [Requests -> {"running", "done", "failed"}]
  PROVE  IInv'
<1> DEFINE q == [request[c] EXCEPT !.pc = pc]
<1>1. /\ q \in InFlight /\ q.kind = request[c].kind
      /\ q.diagram = request[c].diagram /\ q.pc = pc
  BY DEF IInv, TypeOK, InFlight, Pc
<1>2. RequestVouched(vouched, request[c])
  BY DEF IInv, RequestsVouched
<1>3. Becomes(c, q)
  BY DEF Goes
<1> HIDE DEF q
<1>4. RequestVouched(vouched, q)
  BY <1>1, <1>2 DEF RequestVouched
<1> QED
  BY <1>1, <1>3, <1>4, RequestSteps

LEMMA IntrospectVouched ==
  ASSUME IInv, NEW r \in Requests, Introspect(r)
  PROVE  IInv'
<1>1. RequestsVouched' /\ request' \in [Callers -> InFlight]
  BY LoadIsVouched, RequestsStayVouched, RequestBecomes
     DEF Introspect, Loads, ServerOnly, page, Callers, IInv
<1>2. TypeOK'
  BY <1>1, DiagramsAssumption DEF Introspect, ServerOnly, page, jobMap, IInv, TypeOK
<1> QED
  BY <1>1, <1>2
     DEF Introspect, ServerOnly, page, IInv, DiagramsVouched, PublishedIsVouched

LEMMA CheckVouched ==
  ASSUME IInv, NEW r \in Requests, CheckRunning(r)
  PROVE  IInv'
<1>0. request[r].kind = "generate"
  BY DEF CheckRunning, At, IInv, RequestsVouched, RequestVouched, Callers
<1>1. CASE Ends(r) /\ generating' = TRUE
  BY <1>1, EndsVouched DEF CheckRunning, Callers, IInv, TypeOK, jobMap
<1>2. CASE Goes(r, "ready") /\ UNCHANGED generating
  BY <1>0, <1>2, GoesVouched DEF CheckRunning, Callers, IInv, TypeOK, jobMap, Pc
<1> QED
  BY <1>1, <1>2 DEF CheckRunning

LEMMA StartVouched ==
  ASSUME IInv, NEW r \in Requests, StartJob(r)
  PROVE  IInv'
<1>0. request[r].kind = "generate"
  BY DEF StartJob, At, IInv, RequestsVouched, RequestVouched, Callers
<1>1. CASE Ends(r) /\ UNCHANGED <<jobMap, generating>>
  BY <1>1, EndsVouched DEF StartJob, Callers, IInv, TypeOK, jobMap
<1>2. CASE /\ Goes(r, "schema") /\ current' = r /\ generating' = TRUE
           /\ status' = [status EXCEPT ![r] = "running"]
  BY <1>0, <1>2, GoesVouched DEF StartJob, Callers, IInv, TypeOK, Pc
<1> QED
  BY <1>1, <1>2 DEF StartJob

LEMMA ReadSchemaVouched ==
  ASSUME IInv, NEW r \in Requests, ReadSchema(r)
  PROVE  IInv'
<1> DEFINE asksModel == request[r].kind \in {"suggest", "generate"}
           q == [request[r] EXCEPT !.pc = IF asksModel THEN "draft" ELSE "validate",
                                   !.schema = schema]
<1>1. /\ q \in InFlight /\ q.kind = request[r].kind /\ q.diagram = request[r].diagram
      /\ q.pc = IF asksModel THEN "draft" ELSE "validate"
  BY DEF IInv, TypeOK, InFlight, Pc, Callers
<1>2. RequestVouched(vouched, request[r]) /\ request[r].pc = "schema"
  BY DEF IInv, RequestsVouched, ReadSchema, At, Callers
<1>3. Becomes(r, q) /\ UNCHANGED <<rows, jobMap, page, faults>>
  BY DEF ReadSchema, ServerOnly
<1> HIDE DEF q
<1>4. RequestVouched(vouched, q)
  BY <1>1, <1>2 DEF RequestVouched
<1> QED
  BY <1>1, <1>3, <1>4, RequestSteps DEF jobMap, page, Callers, IInv, TypeOK

LEMMA ReadDraftVouched ==
  ASSUME IInv, NEW r \in Requests, ReadDraft(r)
  PROVE  IInv'
<1>0. request[r].kind \in {"suggest", "publish", "generate"}
  BY DEF ReadDraft, At, IInv, RequestsVouched, RequestVouched, Callers
<1>1. CASE Ends(r)
  BY <1>1, EndsVouched DEF ReadDraft, ServerOnly, jobMap, page, Callers, IInv, TypeOK
<1>2. ASSUME NEW pc \in {"schema", "llm"}, pc = "llm" <=> request[r].kind # "publish",
             pc = "schema" => draft # NoDiagram,
             Becomes(r, [request[r] EXCEPT !.pc = pc, !.diagram = draft])
      PROVE  IInv'
  <2> DEFINE q == [request[r] EXCEPT !.pc = pc, !.diagram = draft]
  <2>1. q \in InFlight /\ q.kind = request[r].kind /\ q.diagram = draft /\ q.pc = pc
    BY DEF IInv, TypeOK, InFlight, Pc, Callers
  <2>2. Becomes(r, q)
    BY <1>2
  <2> HIDE DEF q
  <2>3. RequestVouched(vouched, q)
    BY <1>0, <1>2, <2>1 DEF RequestVouched, IInv, DiagramsVouched, TypeOK
  <2> QED
    BY <2>1, <2>2, <2>3, RequestSteps
       DEF ReadDraft, ServerOnly, jobMap, page, Callers, IInv, TypeOK
<1>3. \/ Ends(r)
      \/ \E pc \in {"schema", "llm"} :
           /\ pc = "llm" <=> request[r].kind # "publish"
           /\ pc = "schema" => draft # NoDiagram
           /\ Becomes(r, [request[r] EXCEPT !.pc = pc, !.diagram = draft])
  BY DEF ReadDraft
<1> QED
  BY <1>1, <1>2, <1>3

\* What saveDraft makes of the diagram it has been sent.
LEMMA SavedVouched ==
  ASSUME IInv, NEW r \in Requests, request[r].diagram \in Diagram
  PROVE  Saved(r) \in Diagram /\ AllVouched(vouched, Saved(r))
<1> DEFINE D == SanitizedAll(request[r].diagram, request[r].schema)
<1>1. AllVouched(vouched, request[r].diagram) /\ request[r].schema \in Schema
  BY DEF IInv, RequestsVouched, RequestVouched, TypeOK, InFlight, Callers
<1>2. D \in Diagram /\ AllVouched(vouched, D)
  BY <1>1, SanitizedVouched
<1>3. Saved(r) = NormalizedAll(D)
  BY DEF Saved
<1> HIDE DEF D
<1> QED
  BY <1>2, <1>3, NormalizedVouched

LEMMA SaveValidatesVouched ==
  ASSUME IInv, NEW r \in Requests, SaveValidates(r)
  PROVE  IInv'
<1>1. CASE Ends(r)
  BY <1>1, EndsVouched DEF SaveValidates, ServerOnly, jobMap, page, Callers, IInv, TypeOK
<1>2. CASE Goes(r, "write")
  BY <1>2, GoesVouched
     DEF SaveValidates, ServerOnly, jobMap, page, Callers, IInv, TypeOK, At
<1> QED
  BY <1>1, <1>2 DEF SaveValidates

LEMMA PublishValidatesVouched ==
  ASSUME IInv, NEW r \in Requests, PublishValidates(r)
  PROVE  IInv'
<1> DEFINE D == NormalizedAll(request[r].diagram)
           q == [request[r] EXCEPT !.pc = "write", !.diagram = D]
<1>1. UNCHANGED <<rows, jobMap, page, faults>>
  BY DEF PublishValidates, ServerOnly
<1>2. CASE Ends(r)
  BY <1>1, <1>2, EndsVouched DEF jobMap, page, Callers, IInv, TypeOK
<1>3. CASE Becomes(r, q) /\ \A t \in DOMAIN D : ~Pending(D[t])
  <2>1. RequestVouched(vouched, request[r]) /\ request[r].diagram \in Diagram
    BY DEF IInv, RequestsVouched, RequestVouched, PublishValidates, At, Callers
  <2>2. D \in Diagram /\ AllVouched(vouched, D)
    BY <2>1, NormalizedVouched DEF RequestVouched
  <2> HIDE DEF D
  <2>3. /\ q \in InFlight /\ q.kind = request[r].kind
        /\ q.diagram = D /\ q.pc = "write"
    BY <2>2 DEF IInv, TypeOK, InFlight, Pc, Callers
  <2>4. request[r].kind = "publish"
    BY DEF PublishValidates
  <2>5. Becomes(r, q)
    BY <1>3
  <2> HIDE DEF q
  <2>6. RequestVouched(vouched, q)
    BY <1>3, <2>2, <2>3, <2>4 DEF RequestVouched
  <2> QED
    BY <1>1, <2>3, <2>5, <2>6, RequestSteps DEF jobMap, page, Callers, IInv, TypeOK
<1> QED
  BY <1>2, <1>3 DEF PublishValidates

\* A row of the draft is written, and the request goes on.
LEMMA DraftVouched ==
  ASSUME IInv, NEW r \in Requests, NEW q \in InFlight, Becomes(r, q), RequestVouched(vouched, q),
         draft' \in Diagram, AllVouched(vouched, draft'),
         status' \in [Requests -> {"running", "done", "failed"}],
         UNCHANGED <<schema, published, current, page, faults>>
  PROVE  IInv'
<1>1. TypeOK'
  BY RequestBecomes DEF IInv, TypeOK, page, Callers
<1>2. RequestsVouched'
  BY RequestsStayVouched DEF page, Callers
<1> QED
  BY <1>1, <1>2 DEF IInv, DiagramsVouched, PublishedIsVouched, page

LEMMA WriteSavedVouched ==
  ASSUME IInv, NEW r \in Requests, WriteSaved(r)
  PROVE  IInv'
<1> DEFINE q == [request[r] EXCEPT !.pc = "reply"]
<1>1. /\ q \in InFlight /\ q.kind = request[r].kind
      /\ q.diagram = request[r].diagram /\ q.pc = "reply"
  BY DEF IInv, TypeOK, InFlight, Pc, Callers
<1>2. /\ RequestVouched(vouched, request[r]) /\ request[r].diagram \in Diagram
      /\ request[r].kind \in {"save", "persist"}
  BY DEF IInv, RequestsVouched, RequestVouched, WriteSaved, At, Callers
<1>3. Becomes(r, q)
  BY DEF WriteSaved, Goes
<1> HIDE DEF q
<1>4. RequestVouched(vouched, q)
  BY <1>1, <1>2 DEF RequestVouched
<1> QED
  BY <1>1, <1>2, <1>3, <1>4, SavedVouched, DraftVouched
     DEF WriteSaved, ServerOnly, jobMap, IInv, TypeOK

LEMMA WriteGeneratedVouched ==
  ASSUME IInv, NEW r \in Requests, WriteGenerated(r)
  PROVE  IInv'
<1>1. /\ request[r].diagram \in Diagram \cup {NoDiagram} /\ request[r].schema \in Schema
      /\ AllVouched(vouched, request[r].diagram)
  BY DEF IInv, TypeOK, InFlight, RequestsVouched, RequestVouched, Callers
<1> QED
  BY <1>1, MergedVouched, IdleIsVouched, DraftVouched
     DEF WriteGenerated, ServerOnly, Ends, IInv, TypeOK

LEMMA WriteSuggestedVouched ==
  ASSUME IInv, NEW r \in Requests, WriteSuggested(r)
  PROVE  IInv'
<1> DEFINE s == request[r].schema
<1>1. /\ request[r].diagram \in Diagram \cup {NoDiagram} /\ s \in Schema
      /\ AllVouched(vouched, request[r].diagram)
  BY DEF IInv, TypeOK, InFlight, RequestsVouched, RequestVouched, Callers
<1>2. PICK T \in SUBSET Tables : \E suggestions \in [T -> Ideas] :
        draft' = SanitizedAll(WithSuggestions(request[r].diagram, s, suggestions), s)
  BY DEF WriteSuggested
<1>3. PICK suggestions \in [T -> Ideas] :
        draft' = SanitizedAll(WithSuggestions(request[r].diagram, s, suggestions), s)
  BY <1>2
<1>4. /\ WithSuggestions(request[r].diagram, s, suggestions) \in Diagram
      /\ AllVouched(vouched, WithSuggestions(request[r].diagram, s, suggestions))
  BY <1>1, SuggestionsVouched
<1>5. draft' \in Diagram /\ AllVouched(vouched, draft')
  BY <1>1, <1>3, <1>4, SanitizedVouched
<1> QED
  BY <1>5, LoadIsVouched, DraftVouched
     DEF WriteSuggested, ServerOnly, Loads, jobMap, IInv, TypeOK

LEMMA WritePublishedVouched ==
  ASSUME IInv, NEW r \in Requests, WritePublished(r)
  PROVE  IInv'
<1>1. /\ request[r].diagram \in Diagram /\ AllVouched(vouched, request[r].diagram)
      /\ \A t \in DOMAIN request[r].diagram : ~Pending(request[r].diagram[t])
  BY DEF IInv, RequestsVouched, RequestVouched, WritePublished, At, Callers
<1>2. /\ published' = request[r].diagram /\ Loads(r)
      /\ UNCHANGED <<schema, draft, jobMap, page, faults>>
  BY DEF WritePublished, ServerOnly
<1>3. PublishedIsVouched'
  BY <1>1, <1>2, PublishableVouched DEF PublishedIsVouched, page
<1>4. TypeOK' /\ RequestsVouched'
  <2>1. request' \in [Callers -> InFlight] /\ RequestsVouched'
    BY <1>2, LoadIsVouched, RequestBecomes, RequestsStayVouched DEF Loads, Callers, IInv, page
  <2> QED
    BY <1>1, <1>2, <2>1 DEF IInv, TypeOK, jobMap, page
<1> QED
  BY <1>2, <1>3, <1>4 DEF IInv, DiagramsVouched, page

LEMMA FailureVouched ==
  ASSUME IInv, NEW r \in Requests, GenerationFails(r) \/ RequestFails(r)
  PROVE  IInv'
BY EndsVouched
   DEF GenerationFails, RequestFails, ServerOnly, jobMap, page, Callers, IInv, TypeOK

LEMMA RestartVouched ==
  ASSUME IInv, Restart
  PROVE  IInv'
<1>1. faults' \in [FaultKind -> Nat]
  <2>1. "server" \in FaultKind /\ faults \in [FaultKind -> Nat]
    BY DEF FaultKind, IInv, TypeOK
  <2> QED
    BY <2>1 DEF Restart, Strikes
<1>2. TypeOK'
  BY <1>1, IdleIsVouched DEF Restart, IInv, TypeOK, rows, page
<1>3. RequestsVouched'
  BY IdleIsVouched DEF Restart, RequestsVouched
<1> QED
  BY <1>2, <1>3 DEF Restart, IInv, DiagramsVouched, PublishedIsVouched, rows, page

(***************************************************************************)
(* The page.                                                               *)
(***************************************************************************)
LEMMA ShowVouched ==
  ASSUME IInv, NEW c \in Callers, Ends(c) \/ Loads(c),
         shown' \in Diagram \cup {NoDiagram}, AllVouched(vouched, shown'),
         UNCHANGED <<rows, jobMap, generating, ops, vouched, faults>>
  PROVE  IInv'
<1>1. request' \in [Callers -> InFlight] /\ RequestsVouched'
  BY IdleIsVouched, LoadIsVouched, RequestBecomes, RequestsStayVouched DEF Ends, Loads, IInv
<1> QED
  BY <1>1 DEF IInv, TypeOK, DiagramsVouched, PublishedIsVouched, rows, jobMap

LEMMA ShowSavedVouched ==
  ASSUME IInv, NEW r \in Requests, ShowSaved(r)
  PROVE  IInv'
<1>1. request[r].diagram \in Diagram /\ AllVouched(vouched, request[r].diagram)
  BY DEF IInv, RequestsVouched, RequestVouched, ShowSaved, At, Callers
<1> QED
  BY <1>1, SavedVouched, ShowVouched DEF ShowSaved, Callers

LEMMA LoadVouched ==
  ASSUME IInv, NEW c \in Callers, Load(c)
  PROVE  IInv'
<1>1. Displayed \in Diagram \cup {NoDiagram} /\ AllVouched(vouched, Displayed)
  BY PublishedVouched DEF Displayed, IInv, TypeOK, DiagramsVouched
<1> QED
  BY <1>1, ShowVouched DEF Load

LEMMA LoadFailsVouched ==
  ASSUME IInv, NEW c \in Callers, LoadFails(c)
  PROVE  IInv'
BY EndsVouched DEF LoadFails, jobMap, page, IInv, TypeOK

LEMMA PollVouched ==
  ASSUME IInv, Poll
  PROVE  IInv'
<1>1. Loads(Poller) \/ UNCHANGED request
  BY DEF Poll
<1> QED
  BY <1>1, EndsVouched DEF Poll, Callers, jobMap, IInv, TypeOK

(***************************************************************************)
(* The theorems.                                                           *)
(***************************************************************************)
LEMMA NextVouched == IInv /\ [Next]_vars => IInv'
<1> SUFFICES ASSUME IInv, [Next]_vars PROVE IInv'
  OBVIOUS
<1>1. ASSUME NEW r \in Requests, Introspects(r) \/ Suggests(r) \/ Publishes(r) \/ Generates(r)
      PROVE  IInv'
  BY <1>1, AskVouched DEF Introspects, Suggests, Publishes, Generates
<1>2. CASE OfAdministrator
  BY <1>1, <1>2, SavesVouched, RemoveVouched, ConfirmRowVouched, ConfirmAllVouched, PickVouched
     DEF OfAdministrator
<1>3. ASSUME NEW r \in Requests, OfServer(r)
      PROVE  IInv'
  BY <1>3, IntrospectVouched, CheckVouched, StartVouched, ReadSchemaVouched, ReadDraftVouched,
     SaveValidatesVouched, PublishValidatesVouched, WriteSavedVouched, WritePublishedVouched,
     WriteGeneratedVouched, WriteSuggestedVouched, FailureVouched
     DEF OfServer
<1>4. CASE OfPage
  BY <1>4, ShowSavedVouched, LoadVouched, LoadFailsVouched DEF OfPage
<1>5. CASE UNCHANGED vars
  BY <1>5 DEF vars, rows, jobMap, page, IInv, TypeOK, DiagramsVouched, RequestsVouched,
              PublishedIsVouched
<1> QED
  BY <1>2, <1>3, <1>4, <1>5, PollVouched, RestartVouched DEF Next

\* Type correctness, and the invariant of the proofs.
THEOREM DiagramInvariant == Spec => []IInv
BY InitVouched, NextVouched, PTL DEF Spec

\* Whatever the language model suggests, whatever an introspection finds, and
\* whichever of the requests in flight (saveDraft, publish, suggestMappings,
\* the regeneration job) writes over the draft of another, an administrator
\* has picked or confirmed every column of the diagram that is published.
THEOREM PublishedDiagramIsVouched == Spec => []PublishedIsVouched
<1>1. IInv => PublishedIsVouched
  BY DEF IInv
<1> QED
  BY <1>1, DiagramInvariant, PTL
=============================================================================
