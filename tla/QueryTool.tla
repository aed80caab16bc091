------------------------------ MODULE QueryTool ------------------------------
(***************************************************************************)
(* A query tool at work, for the query capability or for a workflow: the   *)
(* data scope of the user, a statement written and reviewed by a language  *)
(* model in at most two attempts, the filter, the database and the reply.  *)
(* The model lists the tables of its statement beside it.  Diagram and     *)
(* filter go by that list, the blacklist by the names after FROM and JOIN; *)
(* nobody compares the two.  What else the checks look at is a choice.     *)
(***************************************************************************)
EXTENDS RequestContext

VARIABLES
    binds,    \* the bindings of the diagram the scope was resolved with
    clipped,  \* the tables the model may use
    attempt,
    draft,    \* tables the model lists for the statement
    named,    \* tables the statement names after FROM or JOIN
    sound,    \* whether the other checks on the statement pass
    filters,  \* conditions added to the statement: <<table, dimension>>
    \* History, read by properties only.
    sent      \* statements that reached the database, with their filters

queryVars == <<binds, clipped, attempt, draft, named, sound, filters, sent>>

Filters == Tables \X Dimension

QueryTypeOK ==
    /\ binds \in [Tables -> SUBSET Dimension]
    /\ clipped \subseteq Tables
    /\ attempt \in 0..1
    /\ draft \subseteq Tables /\ named \subseteq Tables
    /\ sound \in BOOLEAN
    /\ filters \subseteq Filters
    /\ sent \subseteq [listed : SUBSET Tables, named : SUBSET Tables, filters : SUBSET Filters]

QueryInit ==
    /\ binds = [t \in Tables |-> {}]
    /\ clipped = {} /\ draft = {} /\ named = {} /\ filters = {} /\ sent = {}
    /\ attempt = 0
    /\ sound = FALSE

QueryOnly == UNCHANGED <<configVars, at, ctxVars, approval, answer, tool, cleared>>

QueryFails(from) ==
    /\ Returns(from, "failed")
    /\ UNCHANGED queryVars

\* getPublished, and DataScopeResolveService.resolve.
ResolveScope ==
    /\ \/ /\ config.er.tables # {}
          /\ Goes("scope", "clip") /\ UNCHANGED outcome
          /\ binds' = config.er.binds
          /\ UNCHANGED <<clipped, attempt, draft, named, sound, filters, sent>>
       \/ config.er.tables = {} /\ QueryFails("scope")
    /\ QueryOnly /\ UNCHANGED runs

\* Nl2SqlService.generate reads the diagram again.
ClipDiagram ==
    /\ \/ /\ config.er.tables # {}
          /\ Goes("clip", "ask") /\ UNCHANGED outcome
          /\ clipped' = config.er.tables \ config.blacklist
          /\ attempt' = 0
          /\ UNCHANGED <<binds, draft, named, sound, filters, sent>>
       \/ QueryFails("clip")
    /\ QueryOnly /\ UNCHANGED runs

\* The model's answer; an error, or what is not JSON, is not asked for again.
AskModel ==
    /\ \/ /\ Goes("ask", "check") /\ UNCHANGED outcome
          /\ draft' \in SUBSET Tables /\ named' \in SUBSET Tables
          /\ sound' \in BOOLEAN
          /\ UNCHANGED <<binds, clipped, attempt, filters, sent>>
       \/ QueryFails("ask")
    /\ QueryOnly /\ UNCHANGED runs

\* assertReadonlySql: no table named is blacklisted.
Permitted == named \cap config.blacklist = {}

\* The checks a statement passes: read-only, the list inside the diagram, the
\* semantics, the model's review.
Passes == Permitted /\ sound /\ draft \subseteq clipped

\* Mutant of CheckStatement: one attempt too many.
CheckStatementThrice ==
    /\ \/ /\ Goes("check", "filter") /\ UNCHANGED outcome
          /\ Passes
          /\ UNCHANGED queryVars
       \/ /\ ~Passes
          /\ \/ /\ attempt <= 1 /\ attempt' = attempt + 1
                /\ Goes("check", "ask") /\ UNCHANGED outcome
                /\ UNCHANGED <<binds, clipped, draft, named, sound, filters, sent>>
             \/ attempt = 2 /\ QueryFails("check")
    /\ QueryOnly /\ UNCHANGED runs

\* A statement that fails a check is asked for once more.
CheckStatement ==
    /\ \/ /\ Goes("check", "filter") /\ UNCHANGED outcome
          /\ Passes
          /\ UNCHANGED queryVars
       \/ /\ ~Passes
          /\ \/ /\ attempt = 0 /\ attempt' = 1
                /\ Goes("check", "ask") /\ UNCHANGED outcome
                /\ UNCHANGED <<binds, clipped, draft, named, sound, filters, sent>>
             \/ attempt = 1 /\ QueryFails("check")
    /\ QueryOnly /\ UNCHANGED runs

\* Mutant of ApplyScope: a table without a binding is passed over.
ApplyScopeWhereBound ==
    /\ Goes("filter", "execute")
    /\ filters' = {f \in draft \X config.principal : f[2] \in binds[f[1]]}
    /\ UNCHANGED <<outcome, binds, clipped, attempt, draft, named, sound, sent>>
    /\ QueryOnly /\ UNCHANGED runs

\* SqlScopeFilterService.apply: a binding is missing, or the statement has a
\* condition on the column already, or the conditions are added - all this for
\* the tables the model has listed.
ApplyScope ==
    /\ \/ /\ \A t \in draft : config.principal \subseteq binds[t]
          /\ Goes("filter", "execute") /\ UNCHANGED outcome
          /\ filters' = draft \X config.principal
          /\ UNCHANGED <<binds, clipped, attempt, draft, named, sound, sent>>
       \/ config.principal # {} /\ QueryFails("filter")
    /\ QueryOnly /\ UNCHANGED runs

\* SqlToolService.execute; it may fail before or after the database has worked.
ExecuteSql ==
    /\ \/ /\ Permitted
          /\ runs' = Append(runs, tool)
          /\ sent' = sent \cup {[listed |-> draft, named |-> named, filters |-> filters]}
          /\ \/ at = 0 /\ Goes("execute", "summarize") /\ UNCHANGED outcome
             \/ at > 0 /\ Returns("execute", "ok")
             \/ Returns("execute", "failed")
       \/ Returns("execute", "failed") /\ UNCHANGED <<runs, sent>>
    /\ QueryOnly
    /\ UNCHANGED <<binds, clipped, attempt, draft, named, sound, filters>>

\* QueryResultService.summarize; a workflow takes the rows as they are.
Summarize ==
    /\ \E result \in {"ok", "failed"} : Returns("summarize", result)
    /\ QueryOnly
    /\ UNCHANGED <<queryVars, runs>>

RunQuery ==
    /\ \/ ResolveScope \/ ClipDiagram \/ AskModel \/ CheckStatement \/ ApplyScope
       \/ ExecuteSql \/ Summarize
    /\ UNCHANGED faults
=============================================================================
