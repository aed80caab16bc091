------------------------------ MODULE ErDiagram ------------------------------
(***************************************************************************)
(* The ER diagram of one database: its introspected schema, the draft that *)
(* a language model generates and completes and an administrator edits,    *)
(* and the published diagram that queries use.  Requests of one console    *)
(* page are in flight at the same time; each writes what it has made of    *)
(* the rows it read before.                                                *)
(***************************************************************************)
EXTENDS Faults, DataScope

CONSTANTS
    Requests,   \* requests that may be in flight at a time (bound)
    Poller,     \* the page's readings after a generation
    NoDiagram,
    Drafts,     \* the drafts to begin with
    Known,      \* the schemas an introspection may find
    Ideas,      \* what the language model may suggest for a table
    MaxOps      \* what the administrator does (bound)

Callers == Requests \cup {Poller}
ASSUME CallersAssumption == Poller \notin Requests /\ None \notin Requests
ASSUME NoDiagramAssumption == NoDiagram \notin Diagram
ASSUME DiagramsAssumption == Drafts \subseteq Diagram \cup {NoDiagram} /\ Known \subseteq Schema
ASSUME IdeasAssumption == Ideas \subseteq Suggestion
ASSUME OpsAssumption == MaxOps \in Nat

Kind == {"introspect", "save", "persist", "suggest", "publish", "generate"}
Pc == {"idle", "introspect", "check", "ready", "schema", "draft", "llm", "validate", "write",
       "reply", "load"}

VARIABLES
    schema, draft, published,   \* connector_db_metadata
    current, status,            \* the job map, and the job each request has put there
    request,                    \* the requests in flight, with what they carry
    shown, generating,          \* the page
    ops,
    vouched                     \* history: columns an administrator has picked or confirmed

rows == <<schema, draft, published>>
jobMap == <<current, status>>
page == <<shown, generating, ops, vouched>>
vars == <<rows, jobMap, request, page, faults>>

InFlight == [pc : Pc, kind : Kind, diagram : Diagram \cup {NoDiagram}, schema : Schema]

TypeOK ==
    /\ schema \in Schema
    /\ draft \in Diagram \cup {NoDiagram} /\ published \in Diagram \cup {NoDiagram}
    /\ current \in Requests \cup {None}
    /\ status \in [Requests -> {"running", "done", "failed"}]
    /\ request \in [Callers -> InFlight]
    /\ shown \in Diagram \cup {NoDiagram}
    /\ generating \in BOOLEAN
    /\ ops \in 0..MaxOps
    /\ vouched \subseteq Tables \X Dimension \X Columns
    /\ faults \in [FaultKind -> Nat]

Idle == [pc |-> "idle", kind |-> "save", diagram |-> NoDiagram, schema |-> [t \in Tables |-> {}]]

\* What an administrator sees to by settling D.
SettledIn(D) ==
    IF D = NoDiagram THEN {}
    ELSE {v \in Tables \X Dimension \X Columns :
            v[1] \in DOMAIN D /\ Settled(D[v[1]], v[2]) /\ Column(D[v[1]], v[2]) = v[3]}

Init ==
    /\ schema \in Known /\ draft \in Drafts /\ published = NoDiagram
    /\ draft # NoDiagram => TablesFit(draft, schema) /\ ColumnsFit(draft, schema)
    /\ current = None /\ status = [r \in Requests |-> "done"]
    /\ request = [c \in Callers |-> Idle]
    /\ shown = draft /\ generating = FALSE /\ ops = 0
    /\ vouched = SettledIn(draft)
    /\ faults = NoFaultYet

At(c, pc) == request[c].pc = pc
Becomes(c, r) == request' = [request EXCEPT ![c] = r]
Goes(c, pc) == Becomes(c, [request[c] EXCEPT !.pc = pc])
Ends(c) == Becomes(c, Idle)

\* After what it has done the page reads everything again.
Loads(c) == Becomes(c, [Idle EXCEPT !.pc = "load"])

-----------------------------------------------------------------------------
\* The page: what the administrator does.

Begins(r, request0) ==
    /\ At(r, "idle") /\ ops < MaxOps
    /\ ops' = ops + 1
    /\ Becomes(r, request0)
    /\ UNCHANGED <<rows, jobMap, generating, faults>>

AsksFor(r, kind, pc) == Begins(r, [Idle EXCEPT !.kind = kind, !.pc = pc])

Introspects(r) == AsksFor(r, "introspect", "introspect") /\ UNCHANGED <<shown, vouched>>
Suggests(r) == AsksFor(r, "suggest", "schema") /\ UNCHANGED <<shown, vouched>>
Publishes(r) == AsksFor(r, "publish", "draft") /\ UNCHANGED <<shown, vouched>>
Generates(r) ==
    /\ ~generating
    /\ AsksFor(r, "generate", "check")
    /\ UNCHANGED <<shown, vouched>>

\* What there is to edit, and the page's diagram with another binding of table t,
\* which is added to it if need be.
Base == IF shown = NoDiagram THEN [t \in {} |-> NoBinding] ELSE shown
Of(t) == IF t \in DOMAIN Base THEN Base[t] ELSE NoBinding
Edited(t, b) == [u \in DOMAIN Base \cup {t} |-> IF u = t THEN b ELSE Base[u]]

Saves(r) ==
    /\ Begins(r, [Idle EXCEPT !.kind = "save", !.pc = "schema", !.diagram = Base])
    /\ UNCHANGED <<shown, vouched>>

\* addTableToDimension and updateDimensionColumn: not saved yet.
PickColumn(t, d) ==
    /\ ops < MaxOps /\ ops' = ops + 1
    /\ \/ /\ ~Maintained(Of(t), d)
          /\ shown' = Edited(t, Added(Of(t), d))
          /\ UNCHANGED vouched
       \/ \E c \in Columns \cup {None} :
            /\ Maintained(Of(t), d)
            /\ shown' = Edited(t, Patch(Of(t), d, c))
            /\ vouched' = vouched \cup (IF c = None THEN {} ELSE {<<t, d, c>>})
    /\ UNCHANGED <<rows, jobMap, request, generating, faults>>

\* persistErDraft: what is saved at once.
Persists(r, D) ==
    /\ shown' = D
    /\ Begins(r, [Idle EXCEPT !.kind = "persist", !.pc = "schema", !.diagram = D])

RemoveTable(r, t, d) ==
    /\ Maintained(Of(t), d)
    /\ Persists(r, Edited(t, Removed(Of(t), d)))
    /\ UNCHANGED vouched

ConfirmRow(r, t, d) ==
    /\ Bound(Of(t), d) /\ PendingIn(Of(t), d)
    /\ Persists(r, Edited(t, Confirmed(Of(t), d)))
    /\ vouched' = vouched \cup {<<t, d, Column(Of(t), d)>>}

ConfirmAll(r) ==
    /\ \E t \in Tables : Pending(Of(t))
    /\ Persists(r, [t \in DOMAIN Base |-> ConfirmedAll(Base[t])])
    /\ vouched' = vouched \cup {v \in Tables \X Dimension \X Columns :
                                Pending(Of(v[1])) /\ Column(Of(v[1]), v[2]) = v[3]}

-----------------------------------------------------------------------------
\* The server.

ServerOnly == UNCHANGED page

\* The tables of the database as they are now.
Introspect(r) ==
    /\ At(r, "introspect")
    /\ schema' \in Known
    /\ Loads(r)
    /\ ServerOnly /\ UNCHANGED <<draft, published, jobMap, faults>>

\* startRegenerateDraft looks for a running job, and later puts its own in the
\* map; it answers at once.
CheckRunning(r) ==
    /\ At(r, "check")
    /\ IF current # None /\ status[current] = "running"
       THEN Ends(r) /\ generating' = TRUE
       ELSE Goes(r, "ready") /\ UNCHANGED generating
    /\ UNCHANGED <<rows, jobMap, shown, ops, vouched, faults>>

StartJob(r) ==
    /\ At(r, "ready")
    /\ IF TablesOf(schema) = {} THEN Ends(r) /\ UNCHANGED <<jobMap, generating>>
       ELSE /\ Goes(r, "schema")
            /\ current' = r /\ status' = [status EXCEPT ![r] = "running"]
            /\ generating' = TRUE
    /\ UNCHANGED <<rows, shown, ops, vouched, faults>>

\* getSchema: a model has nothing to work on without tables.
ReadSchema(r) ==
    LET asksModel == request[r].kind \in {"suggest", "generate"} IN
    /\ At(r, "schema")
    /\ asksModel => TablesOf(schema) # {}
    /\ Becomes(r, [request[r] EXCEPT !.pc = IF asksModel THEN "draft" ELSE "validate",
                                     !.schema = schema])
    /\ ServerOnly /\ UNCHANGED <<rows, jobMap, faults>>

ReadDraft(r) ==
    /\ At(r, "draft")
    /\ IF request[r].kind = "publish"
       THEN IF draft = NoDiagram THEN Ends(r)
            ELSE Becomes(r, [request[r] EXCEPT !.pc = "schema", !.diagram = draft])
       ELSE Becomes(r, [request[r] EXCEPT !.pc = "llm", !.diagram = draft])
    /\ ServerOnly /\ UNCHANGED <<rows, jobMap, faults>>

NormalizedAll(D) == [t \in DOMAIN D |-> Normalize(D[t])]
SanitizedAll(D, s) == [t \in DOMAIN D |-> Sanitized(D[t], s[t])]

\* saveDraft drops what does not fit and then insists on it.
Saved(r) == NormalizedAll(SanitizedAll(request[r].diagram, request[r].schema))
SaveValidates(r) ==
    /\ At(r, "validate") /\ request[r].kind \in {"save", "persist"}
    /\ IF TablesFit(Saved(r), request[r].schema) /\ ColumnsFit(Saved(r), request[r].schema)
       THEN Goes(r, "write") ELSE Ends(r)
    /\ ServerOnly /\ UNCHANGED <<rows, jobMap, faults>>

\* publish: everything fits and is confirmed.
PublishValidates(r) ==
    LET s == request[r].schema
        D == NormalizedAll(request[r].diagram) IN
    /\ At(r, "validate") /\ request[r].kind = "publish"
    /\ IF TablesFit(D, s) /\ ColumnsFit(D, s) /\ \A t \in DOMAIN D : ~Pending(D[t])
       THEN Becomes(r, [request[r] EXCEPT !.pc = "write", !.diagram = D])
       ELSE Ends(r)
    /\ ServerOnly /\ UNCHANGED <<rows, jobMap, faults>>

WriteSaved(r) ==
    /\ At(r, "write") /\ request[r].kind \in {"save", "persist"}
    /\ draft' = Saved(r)
    /\ Goes(r, "reply")
    /\ ServerOnly /\ UNCHANGED <<schema, published, jobMap, faults>>

WritePublished(r) ==
    /\ At(r, "write") /\ request[r].kind = "publish"
    /\ published' = request[r].diagram
    /\ Loads(r)
    /\ ServerOnly /\ UNCHANGED <<schema, draft, jobMap, faults>>

\* mergeDiagramWithSchema: the tables of the schema with the bindings they had.
Merged(D, s) ==
    [t \in TablesOf(s) |-> IF D # NoDiagram /\ t \in DOMAIN D THEN D[t] ELSE NoBinding]

WriteGenerated(r) ==
    /\ At(r, "llm") /\ request[r].kind = "generate"
    /\ draft' = Merged(request[r].diagram, request[r].schema)
    /\ status' = [status EXCEPT ![r] = "done"]
    /\ Ends(r)
    /\ ServerOnly /\ UNCHANGED <<schema, published, current, faults>>

GenerationFails(r) ==
    /\ request[r].kind = "generate" /\ request[r].pc \in {"schema", "draft", "llm"}
    /\ status' = [status EXCEPT ![r] = "failed"]
    /\ Ends(r)
    /\ ServerOnly /\ UNCHANGED <<rows, current, faults>>

\* The language model, or a query, throws.
RequestFails(r) ==
    /\ ~At(r, "idle") /\ ~At(r, "reply") /\ ~At(r, "load")
    /\ request[r].kind = "generate" => request[r].pc \in {"check", "ready"}
    /\ Ends(r)
    /\ ServerOnly /\ UNCHANGED <<rows, jobMap, faults>>

\* mergeDataScopeIntoDraft, for the tables the model has anything to say of.
WithSuggestions(D, s, suggestions) ==
    LET base == IF D # NoDiagram /\ DOMAIN D # {} THEN D ELSE Merged(D, s)
    IN  [t \in DOMAIN base |-> IF t \in DOMAIN suggestions THEN Suggested(base[t], suggestions[t])
                               ELSE base[t]]

WriteSuggested(r) ==
    LET s == request[r].schema IN
    /\ At(r, "llm") /\ request[r].kind = "suggest"
    /\ \E T \in SUBSET Tables : \E suggestions \in [T -> Ideas] :
         LET D == WithSuggestions(request[r].diagram, s, suggestions) IN
         /\ TablesFit(D, s)
         /\ draft' = SanitizedAll(D, s)
    /\ Loads(r)
    /\ ServerOnly /\ UNCHANGED <<schema, published, jobMap, faults>>

\* The server restarts: the requests break off, and the job map is empty.
Restart ==
    /\ Strikes("server")
    /\ request' = [c \in Callers |-> Idle]
    /\ current' = None
    /\ UNCHANGED <<rows, status, page>>

-----------------------------------------------------------------------------
\* The page: what it does with the answers.

Displayed == IF draft # NoDiagram THEN draft ELSE published

\* What has been saved is shown, as the server has it or as the page has sent it.
ShowSaved(r) ==
    /\ At(r, "reply")
    /\ IF request[r].kind = "persist" THEN shown' = Saved(r) /\ Ends(r)
       ELSE shown' = request[r].diagram /\ Loads(r)
    /\ UNCHANGED <<rows, jobMap, generating, ops, vouched, faults>>

\* load shows the diagram there is, in place of whatever has not been saved.
Load(c) ==
    /\ At(c, "load")
    /\ shown' = Displayed
    /\ Ends(c)
    /\ UNCHANGED <<rows, jobMap, generating, ops, vouched, faults>>

\* The page keeps what it shows.
LoadFails(c) ==
    /\ At(c, "load")
    /\ Ends(c)
    /\ UNCHANGED <<rows, jobMap, page, faults>>

\* Mutant of Poll: the page waits for a job that is lost.
PollIgnoringLost ==
    /\ generating /\ At(Poller, "idle")
    /\ current # None /\ status[current] # "running"
    /\ generating' = FALSE
    /\ IF status[current] = "done" THEN Loads(Poller) ELSE UNCHANGED request
    /\ UNCHANGED <<rows, jobMap, shown, ops, vouched, faults>>

\* Every three seconds while it waits for a generation.
Poll ==
    /\ generating /\ At(Poller, "idle")
    /\ current # None => status[current] # "running"
    /\ generating' = FALSE
    /\ IF current # None /\ status[current] = "done" THEN Loads(Poller) ELSE UNCHANGED request
    /\ UNCHANGED <<rows, jobMap, shown, ops, vouched, faults>>

-----------------------------------------------------------------------------
OfAdministrator ==
    \/ \E r \in Requests :
         \/ Introspects(r) \/ Suggests(r) \/ Publishes(r) \/ Generates(r) \/ Saves(r)
         \/ ConfirmAll(r)
         \/ \E t \in Tables, d \in Dimension : RemoveTable(r, t, d) \/ ConfirmRow(r, t, d)
    \/ \E t \in Tables, d \in Dimension : PickColumn(t, d)

OfServer(r) ==
    \/ Introspect(r) \/ CheckRunning(r) \/ StartJob(r) \/ ReadSchema(r) \/ ReadDraft(r)
    \/ SaveValidates(r) \/ PublishValidates(r) \/ WriteSaved(r) \/ WritePublished(r)
    \/ WriteGenerated(r) \/ WriteSuggested(r) \/ GenerationFails(r) \/ RequestFails(r)

OfPage ==
    \/ \E r \in Requests : ShowSaved(r)
    \/ \E c \in Callers : Load(c) \/ LoadFails(c)

Next == OfAdministrator \/ (\E r \in Requests : OfServer(r)) \/ OfPage \/ Poll \/ Restart

\* The server carries on with a generation, which has a time limit, and the page
\* polls as long as it waits.
Generation(r) ==
    /\ request[r].kind = "generate"
    /\ \/ CheckRunning(r) \/ StartJob(r) \/ ReadSchema(r) \/ ReadDraft(r)
       \/ WriteGenerated(r) \/ GenerationFails(r)
Fairness ==
    /\ \A r \in Requests : WF_vars(Generation(r))
    /\ WF_vars(Load(Poller) \/ LoadFails(Poller)) /\ WF_vars(Poll)

Spec == Init /\ [][Next]_vars /\ Fairness

-----------------------------------------------------------------------------
\* Whatever the language model suggests, and whoever writes over whose draft,
\* an administrator has picked or confirmed every column that is published.
PublishedIsVouched ==
    published # NoDiagram =>
      \A t \in DOMAIN published, d \in Dimension :
        Bound(published[t], d) => <<t, d, Column(published[t], d)>> \in vouched

\* The page does not wait for a generation for ever.
GenerationEnds == generating ~> ~generating
=============================================================================
