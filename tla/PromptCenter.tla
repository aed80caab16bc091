----------------------------- MODULE PromptCenter ----------------------------
(***************************************************************************)
(* The prompts of one key: templates of the tenants and a global one, the  *)
(* versions of each, and the cache of the API server that renders them     *)
(* (prompt-template, prompt-version and prompt-resolver service).  Every   *)
(* await of a request is a point at which other requests run; a            *)
(* transaction is one step.                                                *)
(***************************************************************************)
EXTENDS Integers, FiniteSets

CONSTANTS
    Templates, Tenants, Contents, Editors, Consumers,
    NoTemplate, NoContent, NoEntry,
    Seeds,          \* who owns each template to begin with
    MaxVersions,    \* versions of one template
    MaxOps          \* requests of the editors

ASSUME BoundsAssumption == MaxVersions \in Nat \ {0} /\ MaxOps \in Nat
ASSUME NoTemplateAssumption == NoTemplate \notin Templates
ASSUME NoContentAssumption == NoContent \notin Contents

Global == "global"
Scopes == Tenants \cup {Global}
ASSUME ScopesAssumption == "none" \notin Scopes
ASSUME SeedsAssumption == Seeds \subseteq [Templates -> Scopes \cup {"none"}]

VersionNo == 1..MaxVersions
PromptVersionState == {"draft", "published", "deprecated"}
Row == [state : PromptVersionState \cup {"none"}, content : Contents \cup {NoContent}]
NoRow == [state |-> "none", content |-> NoContent]

VARIABLES
    owner, active, versions,    \* prompt_template and prompt_version
    cache,                      \* what the resolver keeps for each scope
    edit, render,               \* the requests in flight
    ops

storeVars == <<owner, active, versions>>
vars == <<owner, active, versions, cache, edit, render, ops>>

Entry == [template : Templates, version : VersionNo, content : Contents, late : BOOLEAN]

EditPc == {"idle", "create", "copy", "number", "insert", "write", "publish", "invalidate"}
Edit == [pc : EditPc, scope : Scopes, template : Templates \cup {NoTemplate},
         version : VersionNo, content : Contents \cup {NoContent}]
NoEdit == [pc |-> "idle", scope |-> Global, template |-> NoTemplate,
           version |-> 1, content |-> NoContent]
RenderPc == {"idle", "tenant", "global", "version", "fill"}
Render == [pc : RenderPc, scope : Scopes, channel : {"draft", "published"},
           template : Templates \cup {NoTemplate}, version : VersionNo,
           content : Contents \cup {NoContent}, late : BOOLEAN]
NoRender == [pc |-> "idle", scope |-> Global, channel |-> "published", template |-> NoTemplate,
             version |-> 1, content |-> NoContent, late |-> FALSE]

TypeOK ==
    /\ owner \in [Templates -> Scopes \cup {"none"}]
    /\ active \in [Templates -> BOOLEAN]
    /\ versions \in [Templates -> [VersionNo -> Row]]
    /\ cache \in [Scopes -> Entry \cup {NoEntry}]
    /\ edit \in [Editors -> Edit] /\ render \in [Consumers -> Render]
    /\ ops \in 0..MaxOps

InState(t, state) == {v \in VersionNo : versions[t][v].state = state}
Latest(vs) == CHOOSE v \in vs : \A u \in vs : u <= v

Init ==
    /\ owner \in Seeds
    /\ active = [t \in Templates |-> owner[t] # "none"]
    /\ \E c \in Contents :
         versions = [t \in Templates |-> [v \in VersionNo |->
                       IF owner[t] # "none" /\ v = 1 THEN [state |-> "published", content |-> c]
                       ELSE NoRow]]
    /\ cache = [k \in Scopes |-> NoEntry]
    /\ edit = [e \in Editors |-> NoEdit]
    /\ render = [c \in Consumers |-> NoRender]
    /\ ops = 0

-----------------------------------------------------------------------------
\* The requests of the editors.

Begins(e, request) ==
    /\ edit[e].pc = "idle" /\ ops < MaxOps
    /\ ops' = ops + 1
    /\ edit' = [edit EXCEPT ![e] = request]
    /\ UNCHANGED <<storeVars, cache, render>>

Ends(e) == edit' = [edit EXCEPT ![e] = NoEdit]

\* create: no template of the key has this scope.
CreateTemplate(e) ==
    \E s \in Scopes, c \in Contents :
      /\ \A t \in Templates : owner[t] # s
      /\ Begins(e, [NoEdit EXCEPT !.pc = "create", !.scope = s, !.content = c])

\* The unique key stops a second template of a tenant, but not of no tenant.
InsertTemplate(e) ==
    /\ edit[e].pc = "create"
    /\ \/ /\ edit[e].scope \in Tenants /\ \E t \in Templates : owner[t] = edit[e].scope
          /\ UNCHANGED storeVars
       \/ \E t \in Templates :
            /\ owner[t] = "none"
            /\ \A u \in Templates : owner[u] = edit[e].scope => edit[e].scope = Global
            /\ owner' = [owner EXCEPT ![t] = edit[e].scope]
            /\ active' = [active EXCEPT ![t] = TRUE]
            /\ versions' = [versions EXCEPT ![t] =
                 [v \in VersionNo |-> IF v = 1 THEN [state |-> "draft", content |-> edit[e].content]
                                      ELSE NoRow]]
       \/ /\ \A t \in Templates : owner[t] # "none"     \* the model has no more templates
          /\ UNCHANGED storeVars
    /\ Ends(e)
    /\ UNCHANGED <<cache, render, ops>>

\* update: the cache is not told.
UpdateTemplate(e) ==
    /\ edit[e].pc = "idle" /\ ops < MaxOps
    /\ \E t \in Templates :
         /\ owner[t] # "none"
         /\ active' = [active EXCEPT ![t] = ~active[t]]
    /\ ops' = ops + 1
    /\ UNCHANGED <<owner, versions, cache, edit, render>>

\* createDraftFromPublished, unless it finds a draft.
CreateDraft(e) ==
    \E t \in Templates :
      /\ owner[t] # "none" /\ InState(t, "draft") = {}
      /\ Begins(e, [NoEdit EXCEPT !.pc = "copy", !.template = t])

CopyPublished(e) ==
    LET t == edit[e].template
        published == InState(t, "published") IN
    /\ edit[e].pc = "copy"
    /\ IF published = {} THEN Ends(e)
       ELSE edit' = [edit EXCEPT ![e].pc = "number",
                                 ![e].content = versions[t][Latest(published)].content]
    /\ UNCHANGED <<storeVars, cache, render, ops>>

NumberDraft(e) ==
    LET free == InState(edit[e].template, "none") IN
    /\ edit[e].pc = "number"
    /\ IF free = {} THEN Ends(e)    \* MaxVersions
       ELSE \E v \in free :
              /\ \A u \in free : v <= u
              /\ edit' = [edit EXCEPT ![e].pc = "insert", ![e].version = v]
    /\ UNCHANGED <<storeVars, cache, render, ops>>

\* Two drafts of the same number violate the unique key.
InsertDraft(e) ==
    LET t == edit[e].template
        v == edit[e].version IN
    /\ edit[e].pc = "insert"
    /\ versions' = IF versions[t][v].state # "none" THEN versions
                   ELSE [versions EXCEPT ![t][v] =
                           [state |-> "draft", content |-> edit[e].content]]
    /\ Ends(e)
    /\ UNCHANGED <<owner, active, cache, render, ops>>

UpdateDraft(e) ==
    \E t \in Templates, c \in Contents : \E v \in InState(t, "draft") :
      Begins(e, [NoEdit EXCEPT !.pc = "write", !.template = t, !.version = v, !.content = c])

\* The version is written although it may be no draft any more.
WriteDraft(e) ==
    /\ edit[e].pc = "write"
    /\ versions' = [versions EXCEPT ![edit[e].template][edit[e].version].content = edit[e].content]
    /\ Ends(e)
    /\ UNCHANGED <<owner, active, cache, render, ops>>

Publish(e) ==
    \E t \in Templates : \E v \in InState(t, "draft") :
      Begins(e, [NoEdit EXCEPT !.pc = "publish", !.template = t, !.version = v])

Rollback(e) ==
    \E t \in Templates : \E v \in InState(t, "published") \cup InState(t, "deprecated") :
      Begins(e, [NoEdit EXCEPT !.pc = "publish", !.template = t, !.version = v])

\* Mutant of Deprecated: drafts aside, the version before is deprecated.
DeprecatedPrevious(rows, v) ==
    [u \in VersionNo |->
       IF rows[u].state = "published" /\ u < v THEN [rows[u] EXCEPT !.state = "deprecated"]
       ELSE rows[u]]

Deprecated(rows, v) ==
    [u \in VersionNo |->
       IF rows[u].state = "published" THEN [rows[u] EXCEPT !.state = "deprecated"] ELSE rows[u]]

\* The transaction of publish and of rollback.
Commit(e) ==
    LET t == edit[e].template
        v == edit[e].version IN
    /\ edit[e].pc = "publish"
    /\ versions' = [versions EXCEPT ![t] =
                      [Deprecated(versions[t], v) EXCEPT ![v].state = "published"]]
    /\ edit' = [edit EXCEPT ![e].pc = "invalidate"]
    /\ UNCHANGED <<owner, active, cache, render, ops>>

\* Mutant of Invalidated: only the entry of the global template is dropped.
InvalidatedGlobal(scope) == {Global}

Invalidated(scope) == {scope, Global}

\* A render that has read its version by now is late: it will put it into the
\* cache after all (late is for the properties, the code has no such field).
Invalidate(e) ==
    LET scope == owner[edit[e].template] IN
    /\ edit[e].pc = "invalidate"
    /\ cache' = [k \in Scopes |-> IF k \in Invalidated(scope) THEN NoEntry ELSE cache[k]]
    /\ render' = [c \in Consumers |->
                    [render[c] EXCEPT !.late = @ \/ (render[c].pc = "fill" /\ render[c].scope = scope)]]
    /\ Ends(e)
    /\ UNCHANGED <<storeVars, ops>>

-----------------------------------------------------------------------------
\* The renders of the consumers.

RenderOnly == UNCHANGED <<storeVars, cache, edit, ops>>
Turns(c, request) == render' = [render EXCEPT ![c] = request]

\* render, unless the cache has an answer.
StartRender(c) ==
    /\ render[c].pc = "idle"
    /\ \E k \in Scopes, channel \in {"draft", "published"} :
         /\ channel = "draft" \/ cache[k] = NoEntry
         /\ Turns(c, [NoRender EXCEPT !.pc = IF k = Global THEN "global" ELSE "tenant",
                                      !.scope = k, !.channel = channel])
    /\ RenderOnly

\* Mutant of Found: a template is found whether it is active or not.
FoundAny(scope) == {t \in Templates : owner[t] = scope}

Found(scope) == {t \in Templates : owner[t] = scope /\ active[t]}

\* resolveTemplate: the template of the tenant, else the global one.
ResolveTenant(c) ==
    /\ render[c].pc = "tenant"
    /\ IF Found(render[c].scope) = {} THEN Turns(c, [render[c] EXCEPT !.pc = "global"])
       ELSE \E t \in Found(render[c].scope) :
              Turns(c, [render[c] EXCEPT !.pc = "version", !.template = t])
    /\ RenderOnly

ResolveGlobal(c) ==
    /\ render[c].pc = "global"
    /\ IF Found(Global) = {} THEN Turns(c, NoRender)
       ELSE \E t \in Found(Global) : Turns(c, [render[c] EXCEPT !.pc = "version", !.template = t])
    /\ RenderOnly

\* Mutant of ReadVersion: nobody checks that there is a published version.
ReadVersionUnchecked(c) ==
    LET t == render[c].template
        vs == InState(t, "published") IN
    /\ render[c].pc = "version"
    /\ IF render[c].channel = "draft" THEN Turns(c, NoRender)
       ELSE Turns(c, [render[c] EXCEPT !.pc = "fill",
                        !.content = IF vs = {} THEN NoContent ELSE versions[t][Latest(vs)].content])
    /\ RenderOnly

\* A draft is shown to the editor and kept nowhere.
ReadVersion(c) ==
    LET t == render[c].template
        vs == InState(t, "published") IN
    /\ render[c].pc = "version"
    /\ IF render[c].channel = "draft" \/ vs = {} THEN Turns(c, NoRender)
       ELSE Turns(c, [render[c] EXCEPT !.pc = "fill", !.version = Latest(vs),
                                       !.content = versions[t][Latest(vs)].content])
    /\ RenderOnly

\* The rest of render, unless a variable of the prompt is missing.
Fill(c) ==
    LET r == render[c] IN
    /\ r.pc = "fill"
    /\ cache' = [cache EXCEPT ![r.scope] =
                   [template |-> r.template, version |-> r.version,
                    content |-> r.content, late |-> r.late]]
    /\ Turns(c, NoRender)
    /\ UNCHANGED <<storeVars, edit, ops>>

LacksVariable(c) ==
    /\ render[c].pc = "fill"
    /\ Turns(c, NoRender)
    /\ RenderOnly

\* The time to live of an entry is over.
Expire(k) ==
    /\ cache[k] # NoEntry
    /\ cache' = [cache EXCEPT ![k] = NoEntry]
    /\ UNCHANGED <<storeVars, edit, render, ops>>

\* The server restarts: its memory and its requests are gone.
Restart ==
    /\ cache' = [k \in Scopes |-> NoEntry]
    /\ edit' = [e \in Editors |-> NoEdit]
    /\ render' = [c \in Consumers |-> NoRender]
    /\ UNCHANGED <<storeVars, ops>>

-----------------------------------------------------------------------------
Request(e) ==
    \/ CreateTemplate(e) \/ UpdateTemplate(e) \/ CreateDraft(e)
    \/ UpdateDraft(e) \/ Publish(e) \/ Rollback(e)
Proceed(e) ==
    \/ InsertTemplate(e) \/ CopyPublished(e) \/ NumberDraft(e) \/ InsertDraft(e)
    \/ WriteDraft(e) \/ Commit(e) \/ Invalidate(e)
Continue(c) == ResolveTenant(c) \/ ResolveGlobal(c) \/ ReadVersion(c) \/ Fill(c) \/ LacksVariable(c)

Next ==
    \/ \E e \in Editors : Request(e) \/ Proceed(e)
    \/ \E c \in Consumers : StartRender(c) \/ Continue(c)
    \/ \E k \in Scopes : Expire(k)
    \/ Restart

\* What a server has begun it carries on, and every entry expires.
Fairness ==
    /\ \A e \in Editors : WF_vars(Proceed(e))
    /\ \A c \in Consumers : WF_vars(Continue(c))
    /\ \A k \in Scopes : WF_vars(Expire(k))

Spec == Init /\ [][Next]_vars /\ Fairness

-----------------------------------------------------------------------------
\* Whoever publishes or rolls back at the same time, a template that has ever
\* been published has exactly one published version.
OnePublished ==
    \A t \in Templates :
      InState(t, "published") \cup InState(t, "deprecated") # {}
        => \E v \in VersionNo : InState(t, "published") = {v}

Current(e, k) ==
    /\ active[e.template]
    /\ \/ owner[e.template] = k
       \/ owner[e.template] = Global /\ \A t \in Templates : owner[t] = k => ~active[t]
    /\ InState(e.template, "published") = {e.version}
    /\ e.content = versions[e.template][e.version].content

\* An entry taken from the template of its own scope lags behind only while
\* the publish is on its way, or when a render in flight has put it there.
OnlyLateFillsAreStale ==
    \A k \in Scopes :
      LET e == cache[k] IN
      e # NoEntry /\ ~e.late /\ owner[e.template] = k
        => \/ InState(e.template, "published") = {e.version}
           \/ \E d \in Editors : edit[d].pc = "invalidate" /\ edit[d].template = e.template

\* When the editors are done the cache comes to tell what they have published,
\* whatever it has missed: fallbacks, late fills, disabled templates.
CacheConverges == <>[](\A k \in Scopes : cache[k] # NoEntry => Current(cache[k], k))
=============================================================================
