---------------------------- MODULE PromptProofs -----------------------------
(***************************************************************************)
(* Theorems of PromptCenter, for any number of templates, versions and     *)
(* editors, and of renders that fill the cache while they publish.         *)
(***************************************************************************)
EXTENDS PromptCenter, TLAPS

\* Every request knows the template it is about.
Known ==
    /\ \A e \in Editors : edit[e].pc \notin {"idle", "create"} => edit[e].template \in Templates
    /\ \A c \in Consumers : render[c].pc \in {"version", "fill"} =>
         render[c].template \in Templates /\ owner[render[c].template] # "none"
    /\ \A k \in Scopes : cache[k] # NoEntry => owner[cache[k].template] # "none"

\* Whatever there is of a version has been written, and is never taken back.
Written ==
    /\ \A t \in Templates, v \in VersionNo : versions[t][v].state # "none" =>
         owner[t] # "none" /\ versions[t][v].content \in Contents
    /\ \A e \in Editors :
         /\ edit[e].pc \in {"create", "number", "insert", "write"} => edit[e].content \in Contents
         /\ edit[e].pc \in {"copy", "number", "insert"} => owner[edit[e].template] # "none"
         /\ edit[e].pc = "publish" => versions[edit[e].template][edit[e].version].state # "none"
    /\ \A c \in Consumers : render[c].pc = "fill" => render[c].content \in Contents

Invalidating(t) == \E d \in Editors : edit[d].pc = "invalidate" /\ edit[d].template = t

\* What a render is about to put into the cache is current, or it is late.
FillsAreFresh ==
    \A c \in Consumers :
      LET r == render[c] IN
      r.pc = "fill" /\ ~r.late /\ owner[r.template] = r.scope
        => InState(r.template, "published") = {r.version} \/ Invalidating(r.template)

IInv == TypeOK /\ Known /\ Written /\ OnePublished /\ FillsAreFresh /\ OnlyLateFillsAreStale

(***************************************************************************)
(* Versions.                                                               *)
(***************************************************************************)

\* The latest published version is the only one.
LEMMA LatestIsPublished ==
  ASSUME OnePublished, NEW t \in Templates, InState(t, "published") # {}
  PROVE  /\ Latest(InState(t, "published")) \in VersionNo
         /\ InState(t, "published") = {Latest(InState(t, "published"))}
<1>1. PICK v \in VersionNo : InState(t, "published") = {v}
  BY DEF OnePublished
<1>2. v \in Int
  BY BoundsAssumption DEF VersionNo
<1>3. Latest({v}) = v
  BY <1>2 DEF Latest
<1> QED
  BY <1>1, <1>3

\* What a commit makes of the versions of a template.
LEMMA CommitPublishesOne ==
  ASSUME NEW rows \in [VersionNo -> Row], NEW v \in VersionNo,
         NEW committed, committed = [Deprecated(rows, v) EXCEPT ![v].state = "published"]
  PROVE  /\ committed \in [VersionNo -> Row]
         /\ {u \in VersionNo : committed[u].state = "published"} = {v}
<1>1. Deprecated(rows, v) \in [VersionNo -> Row]
  BY DEF Deprecated, Row, PromptVersionState
<1>2. \A u \in VersionNo : Deprecated(rows, v)[u].state # "published"
  BY DEF Deprecated, Row
<1>3. committed[v] = [Deprecated(rows, v)[v] EXCEPT !.state = "published"]
  BY <1>1
<1>4. committed[v] \in Row /\ committed[v].state = "published"
  BY <1>1, <1>3 DEF Row, PromptVersionState
<1>5. \A u \in VersionNo \ {v} : committed[u] = Deprecated(rows, v)[u]
  BY <1>1
<1> QED
  BY <1>1, <1>2, <1>4, <1>5

(***************************************************************************)
(* Type correctness.                                                       *)
(***************************************************************************)
LEMMA EditTypes ==
  /\ NoEdit \in Edit /\ NoRender \in Render
  /\ 1 \in VersionNo /\ Global \in Scopes
<1>1. 1 \in VersionNo /\ Global \in Scopes
  BY BoundsAssumption DEF VersionNo, Scopes
<1>2. NoEdit \in Edit
  BY <1>1 DEF NoEdit, Edit, EditPc
<1>3. NoRender \in Render
  BY <1>1 DEF NoRender, Render, RenderPc
<1> QED
  BY <1>1, <1>2, <1>3

LEMMA InitType == Init => TypeOK
<1> SUFFICES ASSUME Init PROVE TypeOK
  OBVIOUS
<1>1. versions \in [Templates -> [VersionNo -> Row]]
  BY DEF Init, Row, NoRow, PromptVersionState
<1>2. owner \in [Templates -> Scopes \cup {"none"}] /\ active \in [Templates -> BOOLEAN]
  BY SeedsAssumption DEF Init
<1>3. ops \in 0..MaxOps
  BY BoundsAssumption DEF Init
<1> QED
  BY <1>1, <1>2, <1>3, EditTypes DEF Init, TypeOK

LEMMA BeginsType ==
  ASSUME TypeOK, NEW e \in Editors, NEW request \in Edit, Begins(e, request)
  PROVE  TypeOK'
<1>1. edit' \in [Editors -> Edit] /\ ops' \in 0..MaxOps
  BY BoundsAssumption DEF TypeOK, Begins
<1> QED
  BY <1>1 DEF TypeOK, Begins, storeVars

LEMMA RequestType ==
  ASSUME TypeOK, NEW e \in Editors, Request(e)
  PROVE  TypeOK'
<1>1. CASE UpdateTemplate(e)
  BY <1>1, BoundsAssumption DEF UpdateTemplate, TypeOK
<1>2. CASE ~UpdateTemplate(e)
  <2>1. \E request \in Edit : Begins(e, request)
    <3>1. CASE CreateTemplate(e)
      BY <3>1, EditTypes DEF CreateTemplate, Edit, EditPc
    <3>2. CASE CreateDraft(e)
      BY <3>2, EditTypes DEF CreateDraft, Edit, EditPc
    <3>3. CASE UpdateDraft(e)
      BY <3>3, EditTypes DEF UpdateDraft, Edit, EditPc, InState
    <3>4. CASE Publish(e)
      BY <3>4, EditTypes DEF Publish, Edit, EditPc, InState
    <3>5. CASE Rollback(e)
      BY <3>5, EditTypes DEF Rollback, Edit, EditPc, InState
    <3> QED
      BY <1>2, <3>1, <3>2, <3>3, <3>4, <3>5 DEF Request
  <2> QED
    BY <2>1, BeginsType
<1> QED
  BY <1>1, <1>2

LEMMA ProceedType ==
  ASSUME TypeOK, Known, OnePublished, NEW e \in Editors, Proceed(e)
  PROVE  TypeOK'
<1> USE DEF Ends
<1>0. edit[e] \in Edit /\ (edit[e].pc \notin {"idle", "create"} => edit[e].template \in Templates)
  BY DEF TypeOK, Known
<1>1. CASE InsertTemplate(e)
  <2>1. edit' \in [Editors -> Edit]
    BY <1>1, EditTypes DEF InsertTemplate, TypeOK
  <2>2. /\ owner' \in [Templates -> Scopes \cup {"none"}] /\ active' \in [Templates -> BOOLEAN]
    BY <1>0, <1>1 DEF InsertTemplate, TypeOK, storeVars, Edit
  <2>3. versions' \in [Templates -> [VersionNo -> Row]]
    <3>1. [v \in VersionNo |-> IF v = 1 THEN [state |-> "draft", content |-> edit[e].content]
                               ELSE NoRow] \in [VersionNo -> Row]
      BY <1>0 DEF Edit, Row, NoRow, PromptVersionState
    <3> QED
      BY <1>1, <3>1 DEF InsertTemplate, TypeOK, storeVars
  <2> QED
    BY <1>1, <2>1, <2>2, <2>3 DEF InsertTemplate, TypeOK
<1>2. CASE CopyPublished(e)
  <2> DEFINE t == edit[e].template
             published == InState(t, "published")
  <2>1. ASSUME published # {}
        PROVE  [edit[e] EXCEPT !.pc = "number", !.content = versions[t][Latest(published)].content] \in Edit
    <3>1. t \in Templates /\ Latest(published) \in VersionNo
      BY <1>0, <1>2, <2>1, LatestIsPublished DEF CopyPublished
    <3>2. versions[t][Latest(published)].content \in Contents \cup {NoContent}
      BY <3>1 DEF TypeOK, Row
    <3> QED
      BY <1>0, <3>2 DEF Edit, EditPc
  <2>2. edit' \in [Editors -> Edit]
    BY <1>2, <2>1, EditTypes DEF CopyPublished, TypeOK
  <2> QED
    BY <1>2, <2>2 DEF CopyPublished, TypeOK, storeVars
<1>3. CASE NumberDraft(e)
  <2>1. \A v \in VersionNo : [edit[e] EXCEPT !.pc = "insert", !.version = v] \in Edit
    BY <1>0 DEF Edit, EditPc
  <2>2. edit' \in [Editors -> Edit]
    BY <1>3, <2>1, EditTypes DEF NumberDraft, TypeOK, InState
  <2> QED
    BY <1>3, <2>2 DEF NumberDraft, TypeOK, storeVars
<1>4. CASE InsertDraft(e) \/ WriteDraft(e)
  <2>1. edit' \in [Editors -> Edit]
    BY <1>4, EditTypes DEF InsertDraft, WriteDraft, TypeOK
  <2>2. edit[e].template \in Templates /\ edit[e].version \in VersionNo
        /\ edit[e].content \in Contents \cup {NoContent}
    BY <1>0, <1>4 DEF InsertDraft, WriteDraft, Edit
  <2>3. versions' \in [Templates -> [VersionNo -> Row]]
    <3>1. CASE InsertDraft(e)
      BY <2>2, <3>1 DEF InsertDraft, TypeOK, Row, PromptVersionState
    <3>2. CASE WriteDraft(e)
      <4> DEFINE t == edit[e].template
                 v == edit[e].version
                 written == [versions[t][v] EXCEPT !.content = edit[e].content]
      <4>0. \A row \in Row, c \in Contents \cup {NoContent} : [row EXCEPT !.content = c] \in Row
        BY DEF Row
      <4>1. written \in Row /\ versions[t] \in [VersionNo -> Row]
        BY <2>2, <4>0 DEF TypeOK
      <4>2. versions' = [versions EXCEPT ![t] = [versions[t] EXCEPT ![v] = written]]
        BY <2>2, <3>2 DEF WriteDraft, TypeOK
      <4> QED
        BY <2>2, <4>1, <4>2 DEF TypeOK
    <3> QED
      BY <1>4, <3>1, <3>2
  <2> QED
    BY <1>4, <2>1, <2>3 DEF InsertDraft, WriteDraft, TypeOK
<1>5. CASE Commit(e)
  <2>1. edit' \in [Editors -> Edit]
    BY <1>0, <1>5 DEF Commit, TypeOK, Edit, EditPc
  <2>2. edit[e].template \in Templates /\ edit[e].version \in VersionNo
    BY <1>0, <1>5 DEF Commit, Edit
  <2>3. versions' \in [Templates -> [VersionNo -> Row]]
    BY <1>5, <2>2, CommitPublishesOne DEF Commit, TypeOK
  <2> QED
    BY <1>5, <2>1, <2>3 DEF Commit, TypeOK
<1>6. CASE Invalidate(e)
  <2>1. edit' \in [Editors -> Edit]
    BY <1>6, EditTypes DEF Invalidate, TypeOK
  <2>2. render' \in [Consumers -> Render]
    <3>1. \A c \in Consumers : render[c] \in Render
      BY DEF TypeOK
    <3>2. \A r \in Render, b \in BOOLEAN : [r EXCEPT !.late = b] \in Render
      BY DEF Render
    <3> QED
      BY <1>6, <3>1, <3>2 DEF Invalidate
  <2>3. cache' \in [Scopes -> Entry \cup {NoEntry}]
    BY <1>6 DEF Invalidate, TypeOK
  <2> QED
    BY <1>6, <2>1, <2>2, <2>3 DEF Invalidate, TypeOK, storeVars
<1> QED
  BY <1>1, <1>2, <1>3, <1>4, <1>5, <1>6 DEF Proceed

LEMMA RenderType ==
  ASSUME TypeOK, Known, Written, OnePublished, NEW c \in Consumers, StartRender(c) \/ Continue(c)
  PROVE  TypeOK'
<1> USE DEF RenderOnly, storeVars
<1>0. render[c] \in Render
  BY DEF TypeOK
<1>1. CASE StartRender(c)
  <2>1. \E request \in Render : Turns(c, request)
    BY <1>1, EditTypes DEF StartRender, Render, RenderPc
  <2> QED
    BY <1>1, <2>1 DEF StartRender, Turns, TypeOK
<1>2. CASE ResolveTenant(c) \/ ResolveGlobal(c)
  <2>1. \E request \in Render : Turns(c, request)
    BY <1>0, <1>2, EditTypes DEF ResolveTenant, ResolveGlobal, Found, Render, RenderPc
  <2> QED
    BY <1>2, <2>1 DEF ResolveTenant, ResolveGlobal, Turns, TypeOK
<1>3. CASE ReadVersion(c)
  <2> DEFINE t == render[c].template
             vs == InState(t, "published")
  <2>1. ASSUME vs # {}
        PROVE  [render[c] EXCEPT !.pc = "fill", !.version = Latest(vs),
                                 !.content = versions[t][Latest(vs)].content] \in Render
    <3>1. t \in Templates
      BY <1>3 DEF ReadVersion, Known
    <3>2. Latest(vs) \in VersionNo
      BY <2>1, <3>1, LatestIsPublished
    <3>3. versions[t][Latest(vs)].content \in Contents \cup {NoContent}
      BY <3>1, <3>2 DEF TypeOK, Row
    <3> QED
      BY <1>0, <3>2, <3>3 DEF Render, RenderPc
  <2>2. render' \in [Consumers -> Render]
    BY <1>3, <2>1, EditTypes DEF ReadVersion, Turns, TypeOK
  <2> QED
    BY <1>3, <2>2 DEF ReadVersion, TypeOK
<1>4. CASE Fill(c)
  <2>1. render[c].template \in Templates
    BY <1>4 DEF Fill, Known
  <2>2. cache' \in [Scopes -> Entry \cup {NoEntry}]
    <3> DEFINE r == render[c]
    <3>1. r.scope \in Scopes /\ r.version \in VersionNo /\ r.late \in BOOLEAN
      BY <1>0 DEF Render
    <3>2. r.content \in Contents
      BY <1>4 DEF Fill, Written
    <3> QED
      BY <1>4, <2>1, <3>1, <3>2 DEF Fill, TypeOK, Entry
  <2> QED
    BY <1>4, <2>2, EditTypes DEF Fill, Turns, TypeOK
<1>5. CASE LacksVariable(c)
  BY <1>5, EditTypes DEF LacksVariable, Turns, TypeOK
<1> QED
  BY <1>1, <1>2, <1>3, <1>4, <1>5 DEF Continue

LEMMA NextType ==
  ASSUME TypeOK, Known, Written, OnePublished, [Next]_vars
  PROVE  TypeOK'
<1>1. CASE Restart
  BY <1>1, EditTypes DEF Restart, TypeOK, storeVars
<1>2. CASE UNCHANGED vars
  BY <1>2 DEF vars, storeVars, TypeOK
<1>3. ASSUME NEW k \in Scopes, Expire(k)
      PROVE  TypeOK'
  BY <1>3 DEF Expire, TypeOK, storeVars
<1> QED
  BY <1>1, <1>2, <1>3, RequestType, ProceedType, RenderType DEF Next

(***************************************************************************)
(* What the steps leave alone.                                             *)
(***************************************************************************)

\* The steps of an editor that do not touch the cache and its renders.
OfEditor(e) == Request(e) \/ (Proceed(e) /\ ~Invalidate(e))

LEMMA NextCases ==
  ASSUME [Next]_vars
  PROVE  \/ \E e \in Editors : OfEditor(e) \/ Invalidate(e)
         \/ \E c \in Consumers : StartRender(c) \/ Continue(c)
         \/ \E k \in Scopes : Expire(k)
         \/ Restart \/ UNCHANGED vars
BY DEF Next, OfEditor

LEMMA EditorLeaves ==
  ASSUME NEW e \in Editors, OfEditor(e)
  PROVE  /\ UNCHANGED <<cache, render>>
         /\ ~CreateTemplate(e) /\ ~InsertTemplate(e) => UNCHANGED owner
         /\ \A d \in Editors \ {e} : TypeOK => edit'[d] = edit[d]
BY DEF OfEditor, Request, Proceed, CreateTemplate, UpdateTemplate, CreateDraft, UpdateDraft, Publish,
       Rollback, Begins, Ends, InsertTemplate, CopyPublished, NumberDraft, InsertDraft, WriteDraft,
       Commit, TypeOK, storeVars

LEMMA RenderLeaves ==
  ASSUME NEW c \in Consumers, StartRender(c) \/ Continue(c)
  PROVE  /\ UNCHANGED <<storeVars, edit>> /\ (~Fill(c) => UNCHANGED cache)
         /\ \A d \in Consumers \ {c} : TypeOK => render'[d] = render[d]
BY DEF StartRender, Continue, ResolveTenant, ResolveGlobal, ReadVersion, Fill, LacksVariable,
       RenderOnly, Turns, TypeOK

\* What a request asks for, ...
LEMMA RequestBegins ==
  ASSUME TypeOK, NEW e \in Editors, Request(e)
  PROVE  /\ UNCHANGED <<owner, versions>>
         /\ \/ UNCHANGED edit
            \/ edit'[e].pc = "create" /\ edit'[e].content \in Contents
            \/ /\ edit'[e].template \in Templates
               /\ \/ edit'[e].pc = "copy" /\ owner[edit'[e].template] # "none"
                  \/ edit'[e].pc = "write" /\ edit'[e].content \in Contents
                  \/ /\ edit'[e].pc = "publish"
                     /\ versions[edit'[e].template][edit'[e].version].state # "none"
<1>0. ASSUME NEW request, Begins(e, request)
      PROVE  edit'[e] = request /\ UNCHANGED <<owner, versions>>
  BY <1>0 DEF Begins, TypeOK, storeVars
<1>1. CASE CreateTemplate(e)
  <2>1. PICK scope \in Scopes, c \in Contents :
          Begins(e, [NoEdit EXCEPT !.pc = "create", !.scope = scope, !.content = c])
    BY <1>1 DEF CreateTemplate
  <2>2. edit'[e] = [NoEdit EXCEPT !.pc = "create", !.scope = scope, !.content = c]
    BY <1>0, <2>1
  <2> QED
    BY <1>0, <2>1, <2>2 DEF NoEdit
<1>2. CASE UpdateTemplate(e)
  BY <1>2 DEF UpdateTemplate
<1>3. CASE CreateDraft(e)
  <2>1. PICK t \in Templates : /\ owner[t] # "none"
                               /\ Begins(e, [NoEdit EXCEPT !.pc = "copy", !.template = t])
    BY <1>3 DEF CreateDraft
  <2>2. edit'[e] = [NoEdit EXCEPT !.pc = "copy", !.template = t]
    BY <1>0, <2>1
  <2> QED
    BY <1>0, <2>1, <2>2 DEF NoEdit
<1>4. CASE UpdateDraft(e)
  <2>1. PICK t \in Templates, c \in Contents, v \in VersionNo :
          Begins(e, [NoEdit EXCEPT !.pc = "write", !.template = t, !.version = v, !.content = c])
    BY <1>4 DEF UpdateDraft, InState
  <2>2. edit'[e] = [NoEdit EXCEPT !.pc = "write", !.template = t, !.version = v, !.content = c]
    BY <1>0, <2>1
  <2> QED
    BY <1>0, <2>1, <2>2 DEF NoEdit
<1>5. ASSUME NEW t \in Templates, NEW v \in VersionNo, versions[t][v].state # "none",
             Begins(e, [NoEdit EXCEPT !.pc = "publish", !.template = t, !.version = v])
      PROVE  /\ edit'[e].pc = "publish" /\ edit'[e].template \in Templates
             /\ versions[edit'[e].template][edit'[e].version].state # "none"
             /\ UNCHANGED <<owner, versions>>
  <2>1. edit'[e] = [NoEdit EXCEPT !.pc = "publish", !.template = t, !.version = v]
    BY <1>0, <1>5
  <2>2. edit'[e].pc = "publish" /\ edit'[e].template = t /\ edit'[e].version = v
    BY <2>1 DEF NoEdit
  <2> QED
    BY <1>0, <1>5, <2>2
<1>6. CASE Publish(e) \/ Rollback(e)
  BY <1>5, <1>6 DEF Publish, Rollback, InState
<1> QED
  BY <1>1, <1>2, <1>3, <1>4, <1>6 DEF Request

\* ... and how far a render comes.
LEMMA RenderTurns ==
  ASSUME TypeOK, NEW c \in Consumers, StartRender(c) \/ Continue(c)
  PROVE  \/ render'[c].pc \in {"idle", "tenant", "global"}
         \/ /\ render'[c].pc = "version"
            /\ \E t \in Templates : render'[c].template = t /\ owner[t] \in Scopes
         \/ /\ ReadVersion(c) /\ InState(render[c].template, "published") # {}
            /\ LET vs == InState(render[c].template, "published") IN
                 /\ render'[c].pc = "fill" /\ render'[c].version = Latest(vs)
                 /\ render'[c].content = versions[render[c].template][Latest(vs)].content
                 /\ render'[c].template = render[c].template
                 /\ render'[c].scope = render[c].scope /\ render'[c].late = render[c].late
<1>0. render[c] \in Render
  BY DEF TypeOK
<1>t. ASSUME NEW request, Turns(c, request)
      PROVE  render'[c] = request
  BY <1>t DEF Turns, TypeOK
<1>n. NoRender.pc = "idle"
  BY DEF NoRender
<1>1. CASE StartRender(c)
  BY <1>t, <1>1 DEF StartRender, NoRender
<1>2. CASE ResolveTenant(c) \/ ResolveGlobal(c)
  <2>1. ASSUME NEW t, Turns(c, [render[c] EXCEPT !.pc = "version", !.template = t])
        PROVE  render'[c].pc = "version" /\ render'[c].template = t
    BY <1>0, <1>t, <2>1 DEF Render
  <2>2. ASSUME Turns(c, [render[c] EXCEPT !.pc = "global"])
        PROVE  render'[c].pc = "global"
    BY <1>0, <1>t, <2>2 DEF Render
  <2>3. \A scope \in Scopes : \A t \in Found(scope) : t \in Templates /\ owner[t] \in Scopes
    BY DEF Found
  <2>4. render[c].scope \in Scopes
    BY <1>0 DEF Render
  <2>5. CASE ResolveTenant(c)
    BY <2>1, <2>2, <2>3, <2>4, <2>5 DEF ResolveTenant
  <2>6. CASE ResolveGlobal(c)
    BY <1>t, <1>n, <2>1, <2>3, <2>6, EditTypes DEF ResolveGlobal
  <2> QED
    BY <1>2, <2>5, <2>6
<1>3. CASE ReadVersion(c)
  <2> DEFINE vs == InState(render[c].template, "published")
  <2>1. ASSUME Turns(c, [render[c] EXCEPT
                 !.pc = "fill", !.version = Latest(vs),
                 !.content = versions[render[c].template][Latest(vs)].content])
        PROVE  /\ render'[c].pc = "fill" /\ render'[c].version = Latest(vs)
               /\ render'[c].content = versions[render[c].template][Latest(vs)].content
               /\ render'[c].template = render[c].template
               /\ render'[c].scope = render[c].scope /\ render'[c].late = render[c].late
    BY <1>0, <1>t, <2>1 DEF Render
  <2> QED
    BY <1>t, <1>n, <1>3, <2>1 DEF ReadVersion
<1>4. CASE Fill(c) \/ LacksVariable(c)
  BY <1>t, <1>n, <1>4 DEF Fill, LacksVariable
<1> QED
  BY <1>1, <1>2, <1>3, <1>4 DEF Continue

\* A template keeps its owner.
LEMMA OwnerStays ==
  ASSUME TypeOK, [Next]_vars, NEW t \in Templates, owner[t] # "none"
  PROVE  owner'[t] = owner[t]
<1>1. ASSUME NEW e \in Editors, OfEditor(e)
      PROVE  owner'[t] = owner[t]
  BY <1>1 DEF OfEditor, Request, Proceed, CreateTemplate, UpdateTemplate, CreateDraft, UpdateDraft,
              Publish, Rollback, Begins, InsertTemplate, CopyPublished, NumberDraft, InsertDraft,
              WriteDraft, Commit, TypeOK, storeVars
<1>2. CASE Restart \/ UNCHANGED vars \/ \E e \in Editors : Invalidate(e)
  BY <1>2 DEF Restart, vars, Invalidate, storeVars
<1>3. CASE \E k \in Scopes : Expire(k)
  BY <1>3 DEF Expire, storeVars
<1> QED
  BY <1>1, <1>2, <1>3, RenderLeaves, NextCases DEF storeVars

\* The version rows are changed by four steps only.
LEMMA VersionsLeft ==
  ASSUME [Next]_vars
  PROVE  \/ UNCHANGED versions
         \/ \E e \in Editors : InsertTemplate(e) \/ InsertDraft(e) \/ WriteDraft(e) \/ Commit(e)
<1>1. ASSUME NEW e \in Editors, OfEditor(e)
      PROVE  UNCHANGED versions \/ InsertTemplate(e) \/ InsertDraft(e) \/ WriteDraft(e) \/ Commit(e)
  BY <1>1 DEF OfEditor, Request, Proceed, CreateTemplate, UpdateTemplate, CreateDraft, UpdateDraft,
              Publish, Rollback, Begins, CopyPublished, NumberDraft, storeVars
<1>2. CASE Restart \/ UNCHANGED vars \/ \E e \in Editors : Invalidate(e)
  BY <1>2 DEF Restart, vars, Invalidate, storeVars
<1>3. CASE \E k \in Scopes : Expire(k)
  BY <1>3 DEF Expire, storeVars
<1> QED
  BY <1>1, <1>2, <1>3, RenderLeaves, NextCases DEF storeVars

\* What is published of a template changes by a commit alone.
LEMMA PublishedChanges ==
  ASSUME TypeOK, Known, Written, [Next]_vars, NEW t \in Templates
  PROVE  \/ /\ InState(t, "published")' = InState(t, "published")
            /\ InState(t, "deprecated")' = InState(t, "deprecated")
         \/ \E e \in Editors : /\ Commit(e) /\ edit[e].template = t
                               /\ InState(t, "published")' = {edit[e].version}
<1> USE DEF InState
<1>1. CASE UNCHANGED versions
  BY <1>1
<1>2. ASSUME NEW e \in Editors, InsertTemplate(e)
      PROVE  /\ InState(t, "published")' = InState(t, "published")
             /\ InState(t, "deprecated")' = InState(t, "deprecated")
  <2>1. CASE versions'[t] = versions[t]
    BY <2>1
  <2>2. CASE versions'[t] # versions[t]
    <3>1. owner[t] = "none" /\ \A v \in VersionNo : versions'[t][v].state \in {"draft", "none"}
      BY <1>2, <2>2 DEF InsertTemplate, storeVars, TypeOK, NoRow
    <3>2. \A v \in VersionNo : versions[t][v].state = "none"
      BY <3>1 DEF Written
    <3> QED
      BY <3>1, <3>2
  <2> QED
    BY <2>1, <2>2
<1>3. ASSUME NEW e \in Editors, InsertDraft(e) \/ WriteDraft(e)
      PROVE  /\ InState(t, "published")' = InState(t, "published")
             /\ InState(t, "deprecated")' = InState(t, "deprecated")
  <2>0. edit[e].template \in Templates /\ edit[e].version \in VersionNo
    BY <1>3 DEF InsertDraft, WriteDraft, Known, TypeOK, Edit
  <2>1. ASSUME NEW v \in VersionNo
        PROVE  \/ versions'[t][v].state = versions[t][v].state
               \/ versions[t][v].state = "none" /\ versions'[t][v].state = "draft"
    <3>1. CASE InsertDraft(e)
      BY <2>0, <3>1 DEF InsertDraft, TypeOK
    <3>2. CASE WriteDraft(e)
      <4>1. versions[t][v] \in Row /\ versions[t] \in [VersionNo -> Row]
        BY DEF TypeOK
      <4>2. versions'[t][v] = versions[t][v]
              \/ versions'[t][v] = [versions[t][v] EXCEPT !.content = edit[e].content]
        BY <2>0, <3>2, <4>1 DEF WriteDraft, TypeOK
      <4> QED
        BY <4>1, <4>2 DEF Row
    <3> QED
      BY <1>3, <3>1, <3>2
  <2> QED
    BY <2>1
<1>4. ASSUME NEW e \in Editors, Commit(e)
      PROVE  \/ /\ InState(t, "published")' = InState(t, "published")
                /\ InState(t, "deprecated")' = InState(t, "deprecated")
             \/ /\ edit[e].template = t
                /\ InState(t, "published")' = {edit[e].version}
  <2>0. edit[e].template \in Templates /\ edit[e].version \in VersionNo
    BY <1>4 DEF Commit, Known, TypeOK, Edit
  <2>1. CASE edit[e].template # t
    <3>1. versions'[t] = versions[t]
      BY <1>4, <2>1 DEF Commit, TypeOK
    <3> QED
      BY <3>1
  <2>2. CASE edit[e].template = t
    <3>1. versions[t] \in [VersionNo -> Row]
      BY DEF TypeOK
    <3>2. versions'[t] = [Deprecated(versions[t], edit[e].version)
                            EXCEPT ![edit[e].version].state = "published"]
      BY <1>4, <2>0, <2>2 DEF Commit, TypeOK
    <3> QED
      BY <2>0, <2>2, <3>1, <3>2, CommitPublishesOne
  <2> QED
    BY <2>1, <2>2
<1> QED
  BY <1>1, <1>2, <1>3, <1>4, VersionsLeft

(***************************************************************************)
(* The templates the requests and the entries are about.                   *)
(***************************************************************************)
LEMMA KnownStep ==
  ASSUME TypeOK, Known, [Next]_vars
  PROVE  Known'
<1>0. \A t \in Templates : owner[t] # "none" => owner'[t] # "none"
  BY OwnerStays
<1>k. \A k \in Scopes : cache[k] # NoEntry => cache[k].template \in Templates
  BY DEF TypeOK, Entry
<1>1. \A e \in Editors : edit'[e].pc \notin {"idle", "create"} => edit'[e].template \in Templates
  <2>1. ASSUME NEW d \in Editors, OfEditor(d) \/ Invalidate(d), NEW e \in Editors,
               edit'[e].pc \notin {"idle", "create"}
        PROVE  edit'[e].template \in Templates
    <3>1. CASE e # d
      <4>1. edit'[e] = edit[e]
        BY <2>1, <3>1, EditorLeaves DEF Invalidate, Ends, TypeOK
      <4> QED
        BY <2>1, <4>1 DEF Known
    <3>2. CASE e = d
      <4>0. edit[e] \in Edit /\ NoEdit.pc = "idle"
        BY DEF TypeOK, NoEdit
      <4>1. CASE Request(e)
        BY <2>1, <4>1, RequestBegins DEF Known
      <4>2. CASE InsertTemplate(e) \/ InsertDraft(e) \/ WriteDraft(e) \/ Invalidate(e)
        BY <2>1, <4>0, <4>2 DEF InsertTemplate, InsertDraft, WriteDraft, Invalidate, Ends, TypeOK
      <4>3. CASE CopyPublished(e)
        BY <2>1, <4>0, <4>3 DEF CopyPublished, Ends, TypeOK, Known, Edit
      <4>4. CASE NumberDraft(e)
        BY <2>1, <4>0, <4>4 DEF NumberDraft, Ends, TypeOK, Known, Edit
      <4>5. CASE Commit(e)
        BY <2>1, <4>0, <4>5 DEF Commit, TypeOK, Known, Edit
      <4> QED
        BY <2>1, <3>2, <4>1, <4>2, <4>3, <4>4, <4>5 DEF OfEditor, Proceed
    <3> QED
      BY <3>1, <3>2
  <2>2. CASE Restart
    BY <2>2 DEF Restart, NoEdit
  <2>3. CASE UNCHANGED vars \/ \E k \in Scopes : Expire(k)
    BY <2>3 DEF vars, Expire, Known
  <2> QED
    BY <2>1, <2>2, <2>3, NextCases, RenderLeaves DEF Known
<1>2. ASSUME NEW c \in Consumers, render'[c].pc \in {"version", "fill"}
      PROVE  render'[c].template \in Templates /\ owner'[render'[c].template] # "none"
  <2> DEFINE Fine == render[c].template \in Templates /\ owner[render[c].template] # "none"
  <2>1. CASE render'[c].template = render[c].template /\ render[c].pc \in {"version", "fill"}
    BY <1>0, <2>1 DEF Known
  <2>2. ASSUME NEW d \in Consumers, StartRender(d) \/ Continue(d)
        PROVE  Fine'
    <3>1. CASE d # c
      BY <1>2, <2>1, <2>2, <3>1, RenderLeaves
    <3>2. CASE d = c
      <4>1. CASE render'[c].pc = "version"
        <5>1. \E t \in Templates : render'[c].template = t /\ owner[t] \in Scopes
          BY <2>2, <3>2, <4>1, RenderTurns DEF TypeOK, Render
        <5> QED
          BY <1>0, <5>1, ScopesAssumption
      <4>2. CASE render'[c].pc = "fill"
        <5>1. render[c].pc = "version" /\ render'[c].template = render[c].template
          BY <2>2, <3>2, <4>2, RenderTurns DEF ReadVersion, TypeOK, Render
        <5> QED
          BY <2>1, <5>1
      <4> QED
        BY <1>2, <4>1, <4>2
    <3> QED
      BY <3>1, <3>2
  <2>3. CASE Restart
    BY <1>2, <2>3 DEF Restart, NoRender
  <2>4. ASSUME NEW e \in Editors, Invalidate(e)
        PROVE  Fine'
    <3>1. render[c] \in Render
      BY DEF TypeOK
    <3>2. render'[c].template = render[c].template /\ render'[c].pc = render[c].pc
      BY <2>4, <3>1 DEF Invalidate, Render
    <3> QED
      BY <1>2, <2>1, <3>2
  <2>5. CASE UNCHANGED render
    BY <1>2, <2>1, <2>5
  <2> QED
    BY <2>2, <2>3, <2>4, <2>5, NextCases, EditorLeaves DEF Expire, vars
<1>3. ASSUME NEW k \in Scopes, cache'[k] # NoEntry
      PROVE  owner'[cache'[k].template] # "none"
  <2>1. CASE cache'[k] = cache[k]
    BY <1>0, <1>3, <1>k, <2>1 DEF Known
  <2>2. ASSUME NEW c \in Consumers, Fill(c), cache'[k] # cache[k]
        PROVE  owner'[cache'[k].template] # "none"
    <3>1. cache'[k].template = render[c].template
      BY <2>2 DEF Fill, TypeOK
    <3>2. render[c].template \in Templates /\ owner[render[c].template] # "none"
      BY <2>2 DEF Fill, Known
    <3> QED
      BY <1>0, <3>1, <3>2
  <2>3. CASE Restart \/ \E e \in Editors : Invalidate(e)
    BY <1>3, <2>1, <2>3 DEF Restart, Invalidate
  <2>4. CASE \E j \in Scopes : Expire(j)
    BY <1>3, <2>1, <2>4 DEF Expire, TypeOK
  <2> QED
    BY <2>1, <2>2, <2>3, <2>4, NextCases, EditorLeaves, RenderLeaves DEF vars
<1> QED
  BY <1>1, <1>2, <1>3 DEF Known

(***************************************************************************)
(* What is written stays written.                                          *)
(***************************************************************************)
LEMMA WrittenStep ==
  ASSUME TypeOK, Known, Written, OnePublished, [Next]_vars
  PROVE  Written'
<1>0. \A t \in Templates : owner[t] # "none" => owner'[t] # "none"
  BY OwnerStays
<1>e. \A e \in Editors : /\ edit[e] \in Edit
                         /\ edit[e].pc \notin {"idle", "create"} => edit[e].template \in Templates
  BY DEF TypeOK, Known
<1>1. ASSUME NEW t \in Templates, NEW v \in VersionNo, versions'[t][v].state # "none"
      PROVE  owner'[t] # "none" /\ versions'[t][v].content \in Contents
  <2>1. CASE versions'[t][v] = versions[t][v]
    BY <1>0, <1>1, <2>1 DEF Written
  <2>2. ASSUME NEW e \in Editors, InsertTemplate(e), versions'[t][v] # versions[t][v]
        PROVE  owner'[t] # "none" /\ versions'[t][v].content \in Contents
    <3>1. /\ owner'[t] = edit[e].scope
          /\ versions'[t][v] = [state |-> "draft", content |-> edit[e].content]
             \/ versions'[t][v] = NoRow
      BY <2>2 DEF InsertTemplate, TypeOK, storeVars
    <3>2. edit[e].scope \in Scopes /\ edit[e].content \in Contents
      BY <1>e, <2>2 DEF InsertTemplate, Written, Edit
    <3> QED
      BY <1>1, <3>1, <3>2, ScopesAssumption DEF NoRow
  <2>3. ASSUME NEW e \in Editors, InsertDraft(e), versions'[t][v] # versions[t][v]
        PROVE  owner'[t] # "none" /\ versions'[t][v].content \in Contents
    <3>1. edit[e].template = t /\ versions'[t][v].content = edit[e].content
      BY <1>e, <2>3 DEF InsertDraft, TypeOK, Edit
    <3>2. owner[t] # "none" /\ edit[e].content \in Contents
      BY <2>3, <3>1 DEF InsertDraft, Written
    <3> QED
      BY <1>0, <3>1, <3>2
  <2>4. ASSUME NEW e \in Editors, WriteDraft(e), versions'[t][v] # versions[t][v]
        PROVE  owner'[t] # "none" /\ versions'[t][v].content \in Contents
    <3>1. versions[t][v] \in Row /\ versions[t] \in [VersionNo -> Row]
      BY DEF TypeOK
    <3>2. versions'[t][v] = [versions[t][v] EXCEPT !.content = edit[e].content]
      BY <1>e, <2>4, <3>1 DEF WriteDraft, TypeOK, Edit
    <3>3. versions'[t][v].state = versions[t][v].state /\ versions'[t][v].content = edit[e].content
      BY <3>1, <3>2 DEF Row
    <3> QED
      BY <1>0, <1>1, <2>4, <3>3 DEF WriteDraft, Written
  <2>5. ASSUME NEW e \in Editors, Commit(e), versions'[t][v] # versions[t][v]
        PROVE  owner'[t] # "none" /\ versions'[t][v].content \in Contents
    <3>0. edit[e].template = t /\ edit[e].version \in VersionNo /\ versions[t] \in [VersionNo -> Row]
      BY <1>e, <2>5 DEF Commit, TypeOK, Edit
    <3>1. versions'[t] = [Deprecated(versions[t], edit[e].version)
                            EXCEPT ![edit[e].version].state = "published"]
      BY <2>5, <3>0 DEF Commit, TypeOK
    <3>2. \A u \in VersionNo : Deprecated(versions[t], edit[e].version)[u] \in Row
      BY <3>0 DEF Deprecated, Row, PromptVersionState
    <3>3. \A u \in VersionNo : Deprecated(versions[t], edit[e].version)[u].content = versions[t][u].content
      BY <3>0 DEF Deprecated, Row
    <3>4. versions'[t][v] = Deprecated(versions[t], edit[e].version)[v]
            \/ versions'[t][v] = [Deprecated(versions[t], edit[e].version)[v] EXCEPT !.state = "published"]
      BY <3>0, <3>1 DEF Deprecated
    <3>5. versions'[t][v].content = versions[t][v].content
      BY <3>2, <3>3, <3>4 DEF Row
    <3>6. versions[t][v].state # "none"
      <4>1. CASE v = edit[e].version
        BY <2>5, <3>0, <4>1 DEF Commit, Written
      <4>2. CASE v # edit[e].version
        BY <1>1, <3>0, <3>1, <4>2 DEF Deprecated, Row
      <4> QED
        BY <4>1, <4>2
    <3> QED
      BY <1>0, <3>5, <3>6 DEF Written
  <2> QED
    BY <2>1, <2>2, <2>3, <2>4, <2>5, VersionsLeft
<1>2. ASSUME NEW e \in Editors
      PROVE  /\ edit'[e].pc \in {"create", "number", "insert", "write"} => edit'[e].content \in Contents
             /\ edit'[e].pc \in {"copy", "number", "insert"} => owner'[edit'[e].template] # "none"
             /\ edit'[e].pc = "publish"
                  => versions'[edit'[e].template][edit'[e].version].state # "none"
  <2> DEFINE Kept == \A t \in Templates, v \in VersionNo :
                       versions[t][v].state # "none" => versions'[t][v].state # "none"
             Fine == /\ edit[e].pc \in {"create", "number", "insert", "write"} => edit[e].content \in Contents
                     /\ edit[e].pc \in {"copy", "number", "insert"} => owner[edit[e].template] # "none"
                     /\ edit[e].pc = "publish" => versions[edit[e].template][edit[e].version].state # "none"
  <2>0. Kept
    <3>1. ASSUME NEW d \in Editors, InsertTemplate(d)
          PROVE  Kept
      <4>1. ASSUME NEW t \in Templates, versions'[t] # versions[t]
            PROVE  owner[t] = "none"
        BY <3>1, <4>1 DEF InsertTemplate, TypeOK, storeVars
      <4> QED
        BY <4>1 DEF Written
    <3>2. ASSUME NEW d \in Editors, InsertDraft(d)
          PROVE  Kept
      BY <1>e, <3>2 DEF InsertDraft, TypeOK, Edit
    <3>3. ASSUME NEW d \in Editors, WriteDraft(d), NEW t \in Templates, NEW v \in VersionNo
          PROVE  versions'[t][v].state = versions[t][v].state
      <4>1. versions[t][v] \in Row /\ versions[t] \in [VersionNo -> Row]
        BY DEF TypeOK
      <4>2. versions'[t][v] = versions[t][v]
              \/ versions'[t][v] = [versions[t][v] EXCEPT !.content = edit[d].content]
        BY <1>e, <3>3, <4>1 DEF WriteDraft, TypeOK, Edit
      <4> QED
        BY <4>1, <4>2 DEF Row
    <3>4. ASSUME NEW d \in Editors, Commit(d), NEW t \in Templates, NEW v \in VersionNo,
                 versions[t][v].state # "none"
          PROVE  versions'[t][v].state # "none"
      <4>1. CASE edit[d].template # t
        BY <3>4, <4>1 DEF Commit, TypeOK
      <4>2. CASE edit[d].template = t
        <5>0. edit[d].version \in VersionNo /\ versions[t] \in [VersionNo -> Row]
          BY <1>e DEF TypeOK, Edit
        <5>1. versions'[t] = [Deprecated(versions[t], edit[d].version)
                                EXCEPT ![edit[d].version].state = "published"]
          BY <3>4, <4>2 DEF Commit, TypeOK
        <5>2. Deprecated(versions[t], edit[d].version)[v].state # "none"
              /\ Deprecated(versions[t], edit[d].version)[v] \in Row
          BY <3>4, <5>0 DEF Deprecated, Row, PromptVersionState
        <5> QED
          BY <5>0, <5>1, <5>2 DEF Deprecated, Row
      <4> QED
        BY <4>1, <4>2
    <3> QED
      BY <3>1, <3>2, <3>3, <3>4, VersionsLeft
  <2>1. Fine
    BY DEF Written
  <2>2. CASE edit'[e] = edit[e]
    BY <1>0, <1>e, <2>0, <2>1, <2>2 DEF Edit
  <2>3. CASE Request(e)
    BY <2>2, <2>3, RequestBegins
  <2>4. CASE CopyPublished(e)
    <3> DEFINE t == edit[e].template
               published == InState(t, "published")
    <3>1. ASSUME published # {}
          PROVE  versions[t][Latest(published)].content \in Contents
      <4>1. t \in Templates /\ Latest(published) \in published
        BY <1>e, <2>4, <3>1, LatestIsPublished DEF CopyPublished
      <4> QED
        BY <4>1 DEF InState, Written
    <3> QED
      BY <1>0, <1>e, <2>1, <2>4, <3>1 DEF CopyPublished, Ends, NoEdit, TypeOK, storeVars, Edit
  <2>5. CASE NumberDraft(e)
    BY <1>0, <1>e, <2>1, <2>5 DEF NumberDraft, Ends, NoEdit, TypeOK, storeVars, Edit
  <2>6. CASE InsertTemplate(e) \/ InsertDraft(e) \/ WriteDraft(e) \/ Commit(e) \/ Invalidate(e)
    BY <1>e, <2>6 DEF InsertTemplate, InsertDraft, WriteDraft, Commit, Invalidate, Ends, NoEdit, TypeOK, Edit
  <2>7. CASE Restart
    BY <2>7 DEF Restart, NoEdit
  <2>8. ASSUME NEW d \in Editors \ {e}, OfEditor(d) \/ Invalidate(d)
        PROVE  edit'[e] = edit[e]
    BY <2>8, EditorLeaves DEF Invalidate, Ends, TypeOK
  <2>9. CASE UNCHANGED vars \/ \E k \in Scopes : Expire(k)
    BY <2>2, <2>9 DEF vars, Expire
  <2> QED
    BY <2>2, <2>3, <2>4, <2>5, <2>6, <2>7, <2>8, <2>9, NextCases, RenderLeaves DEF OfEditor, Proceed
<1>3. ASSUME NEW c \in Consumers, render'[c].pc = "fill"
      PROVE  render'[c].content \in Contents
  <2>1. CASE render'[c].pc = render[c].pc /\ render'[c].content = render[c].content
    BY <1>3, <2>1 DEF Written
  <2>2. ASSUME NEW d \in Consumers, StartRender(d) \/ Continue(d)
        PROVE  render'[c].content \in Contents
    <3>1. CASE d # c
      BY <2>1, <2>2, <3>1, RenderLeaves
    <3>2. CASE d = c /\ ReadVersion(c)
      <4> DEFINE t == render[c].template
                 vs == InState(t, "published")
      <4>0. render[c] \in Render
        BY DEF TypeOK
      <4>1. vs # {} /\ render'[c].content = versions[t][Latest(vs)].content
        BY <1>3, <3>2, <4>0, RenderTurns DEF Continue, Render
      <4>2. t \in Templates /\ Latest(vs) \in vs
        BY <3>2, <4>1, LatestIsPublished DEF ReadVersion, Known
      <4> QED
        BY <4>1, <4>2 DEF InState, Written
    <3>3. CASE d = c /\ ~ReadVersion(c)
      BY <1>3, <2>2, <3>3, RenderTurns
    <3> QED
      BY <3>1, <3>2, <3>3
  <2>3. CASE Restart
    BY <1>3, <2>3 DEF Restart, NoRender
  <2>4. ASSUME NEW e \in Editors, Invalidate(e)
        PROVE  render'[c].content \in Contents
    <3>1. render[c] \in Render
      BY DEF TypeOK
    <3> QED
      BY <2>1, <2>4, <3>1 DEF Invalidate, Render
  <2>5. CASE UNCHANGED render
    BY <2>1, <2>5
  <2> QED
    BY <2>2, <2>3, <2>4, <2>5, NextCases, EditorLeaves DEF Expire, vars
<1> QED
  BY <1>1, <1>2, <1>3 DEF Written

(***************************************************************************)
(* One published version, and a cache that lags behind for a reason.       *)
(***************************************************************************)
LEMMA OnePublishedStep ==
  ASSUME TypeOK, Known, Written, OnePublished, [Next]_vars
  PROVE  OnePublished'
<1> SUFFICES ASSUME NEW t \in Templates,
                    InState(t, "published")' \cup InState(t, "deprecated")' # {}
             PROVE  \E v \in VersionNo : InState(t, "published")' = {v}
  BY DEF OnePublished
<1>1. CASE /\ InState(t, "published")' = InState(t, "published")
           /\ InState(t, "deprecated")' = InState(t, "deprecated")
  BY <1>1 DEF OnePublished
<1>2. CASE \E e \in Editors : Commit(e) /\ InState(t, "published")' = {edit[e].version}
  BY <1>2 DEF TypeOK, Edit
<1> QED
  BY <1>1, <1>2, PublishedChanges

\* The version that was the current one still is, or an editor is about to
\* invalidate the cache, unless one just does.
LEMMA StaysFresh ==
  ASSUME TypeOK, Known, Written, [Next]_vars, ~Restart, NEW t \in Templates, NEW v,
         InState(t, "published") = {v} \/ Invalidating(t),
         \A e \in Editors : Invalidate(e) => edit[e].template # t
  PROVE  (InState(t, "published") = {v} \/ Invalidating(t))'
<1>1. CASE Invalidating(t)
  <2>1. PICK d \in Editors : edit[d].pc = "invalidate" /\ edit[d].template = t
    BY <1>1 DEF Invalidating
  <2>2. ~Request(d) /\ ~Proceed(d)
    <3>1. ~Request(d)
      BY <2>1 DEF Request, CreateTemplate, UpdateTemplate, CreateDraft, UpdateDraft, Publish, Rollback, Begins
    <3>2. ~Proceed(d)
      BY <2>1 DEF Proceed, InsertTemplate, CopyPublished, NumberDraft, InsertDraft, WriteDraft, Commit
    <3> QED
      BY <3>1, <3>2
  <2>3. edit'[d] = edit[d]
    <3>1. ASSUME NEW e \in Editors \ {d}, OfEditor(e) \/ Invalidate(e)
          PROVE  edit'[d] = edit[d]
      BY <3>1, EditorLeaves DEF Invalidate, Ends, TypeOK
    <3> QED
      BY <2>2, <3>1, NextCases, RenderLeaves DEF OfEditor, Expire, vars, Proceed
  <2> QED
    BY <2>1, <2>3 DEF Invalidating
<1>2. CASE InState(t, "published") = {v} /\ ~Invalidating(t)
  <2>1. CASE InState(t, "published")' = InState(t, "published")
    BY <1>2, <2>1
  <2>2. CASE \E e \in Editors : Commit(e) /\ edit[e].template = t
    <3>1. PICK e \in Editors : Commit(e) /\ edit[e].template = t
      BY <2>2
    <3>2. edit'[e].pc = "invalidate" /\ edit'[e].template = t
      BY <3>1 DEF Commit, TypeOK, Edit
    <3> QED
      BY <3>2 DEF Invalidating
  <2> QED
    BY <2>1, <2>2, PublishedChanges
<1> QED
  BY <1>1, <1>2

LEMMA FillsAreFreshStep ==
  ASSUME TypeOK, Known, Written, OnePublished, FillsAreFresh, [Next]_vars
  PROVE  FillsAreFresh'
<1> SUFFICES ASSUME NEW c \in Consumers, render'[c].pc = "fill", ~render'[c].late,
                    owner'[render'[c].template] = render'[c].scope
             PROVE  (InState(render[c].template, "published") = {render[c].version}
                     \/ Invalidating(render[c].template))'
  BY DEF FillsAreFresh
<1> DEFINE t == render[c].template
<1>0. render[c] \in Render
  BY DEF TypeOK
<1>1. CASE (StartRender(c) \/ Continue(c)) /\ ~UNCHANGED render
  <2>1. /\ ReadVersion(c) /\ InState(t, "published") # {}
        /\ render'[c].template = t /\ render'[c].version = Latest(InState(t, "published"))
    BY <1>1, RenderTurns
  <2>2. t \in Templates /\ UNCHANGED versions
    BY <2>1 DEF ReadVersion, RenderOnly, storeVars, Known
  <2>3. PICK u \in Templates : u = t
    BY <2>2
  <2>4. PICK v \in VersionNo : v = Latest(InState(t, "published")) /\ InState(u, "published") = {v}
    BY <2>1, <2>3, LatestIsPublished
  <2>5. InState(u, "published")' = {v}
    BY <2>2, <2>4 DEF InState
  <2>6. render'[c].template = u /\ render'[c].version = v
    BY <2>1, <2>3, <2>4
  <2> QED
    BY <2>5, <2>6 DEF InState
<1>2. ASSUME render[c].pc = "fill", ~render[c].late, render'[c].template = t,
             render'[c].version = render[c].version, render'[c].scope = render[c].scope, ~Restart,
             \A e \in Editors : Invalidate(e) => edit[e].template # t
      PROVE  (InState(render[c].template, "published") = {render[c].version}
              \/ Invalidating(render[c].template))'
  <2>1. t \in Templates /\ owner[t] # "none"
    BY <1>2 DEF Known
  <2>2. owner[t] = render[c].scope
    BY <1>2, <2>1, OwnerStays
  <2>3. InState(t, "published") = {render[c].version} \/ Invalidating(t)
    BY <1>2, <2>2 DEF FillsAreFresh
  <2>4. PICK u \in Templates, v \in VersionNo : u = t /\ v = render[c].version
    BY <1>0, <2>1 DEF Render
  <2>5. (InState(u, "published") = {v} \/ Invalidating(u))'
    BY <1>2, <2>3, <2>4, StaysFresh
  <2>6. render'[c].template = u /\ render'[c].version = v
    BY <1>2, <2>4
  <2> QED
    BY <2>5, <2>6 DEF InState, Invalidating
<1>3. ASSUME NEW e \in Editors, Invalidate(e)
      PROVE  (InState(render[c].template, "published") = {render[c].version}
              \/ Invalidating(render[c].template))'
  <2>1. ~Restart \/ render'[c] = NoRender
    BY DEF Restart
  <2>2. ~Restart
    BY <2>1 DEF NoRender
  <2>3. ASSUME NEW d \in Editors, Invalidate(d)
        PROVE  /\ render[c].pc = "fill" /\ ~render[c].late /\ render'[c].template = t
               /\ render'[c].version = render[c].version /\ render'[c].scope = render[c].scope
               /\ edit[d].template # t /\ UNCHANGED owner
    <3> DEFINE b == render[c].late \/ (render[c].pc = "fill" /\ render[c].scope = owner[edit[d].template])
    <3>1. render'[c] = [render[c] EXCEPT !.late = b] /\ UNCHANGED owner
      BY <2>3 DEF Invalidate, storeVars
    <3>2. /\ render'[c].late = b /\ render'[c].pc = render[c].pc /\ render'[c].template = t
          /\ render'[c].version = render[c].version /\ render'[c].scope = render[c].scope
      BY <1>0, <3>1 DEF Render
    <3>3. render[c].pc = "fill" /\ ~render[c].late /\ render[c].scope # owner[edit[d].template]
      BY <3>2
    <3>4. owner[t] = render[c].scope
      BY <3>1, <3>2
    <3> QED
      BY <3>1, <3>2, <3>3, <3>4
  <2> QED
    BY <1>2, <1>3, <2>2, <2>3
<1>4. CASE UNCHANGED render /\ ~Restart /\ ~\E e \in Editors : Invalidate(e)
  BY <1>2, <1>4
<1>5. ASSUME NEW d \in Consumers, d # c, StartRender(d) \/ Continue(d)
      PROVE  (InState(render[c].template, "published") = {render[c].version}
              \/ Invalidating(render[c].template))'
  <2>1. render'[c] = render[c]
    BY <1>5, RenderLeaves
  <2>2. ~Restart
    BY DEF Restart, NoRender
  <2>3. ~\E e \in Editors : Invalidate(e)
    <3>1. UNCHANGED edit
      BY <1>5, RenderLeaves
    <3>2. \A e \in Editors : Invalidate(e) => edit[e].pc = "invalidate" /\ edit'[e].pc = "idle"
      BY DEF Invalidate, Ends, NoEdit, TypeOK
    <3> QED
      BY <3>1, <3>2
  <2> QED
    BY <1>2, <2>1, <2>2, <2>3
<1>6. CASE Restart
  BY <1>6 DEF Restart, NoRender
<1> QED
  BY <1>1, <1>3, <1>4, <1>5, <1>6, NextCases, EditorLeaves DEF Expire, vars

LEMMA EntriesAreFreshStep ==
  ASSUME TypeOK, Known, Written, FillsAreFresh, OnlyLateFillsAreStale, [Next]_vars
  PROVE  OnlyLateFillsAreStale'
<1> SUFFICES ASSUME NEW k \in Scopes, cache'[k] # NoEntry, ~cache'[k].late,
                    owner'[cache'[k].template] = k
             PROVE  (InState(cache[k].template, "published") = {cache[k].version}
                     \/ Invalidating(cache[k].template))'
  BY DEF OnlyLateFillsAreStale, Invalidating
<1>0. ~Restart
  BY DEF Restart
<1>1. CASE cache'[k] = cache[k]
  <2> DEFINE t == cache[k].template
  <2>1. t \in Templates /\ owner[t] # "none"
    BY <1>1 DEF TypeOK, Entry, Known
  <2>2. owner[t] = k
    BY <1>1, <2>1, OwnerStays
  <2>3. InState(t, "published") = {cache[k].version} \/ Invalidating(t)
    BY <1>1, <2>2 DEF OnlyLateFillsAreStale, Invalidating
  <2>4. \A e \in Editors : Invalidate(e) => edit[e].template # t
    BY <2>2 DEF Invalidate, Invalidated
  <2>5. PICK u \in Templates, v \in VersionNo : u = t /\ v = cache[k].version
    BY <1>1, <2>1 DEF TypeOK, Entry
  <2>6. (InState(u, "published") = {v} \/ Invalidating(u))'
    BY <1>0, <2>3, <2>4, <2>5, StaysFresh
  <2>7. cache'[k].template = u /\ cache'[k].version = v
    BY <1>1, <2>5
  <2> QED
    BY <2>6, <2>7 DEF InState, Invalidating
<1>2. ASSUME NEW c \in Consumers, Fill(c), cache'[k] # cache[k]
      PROVE  (InState(cache[k].template, "published") = {cache[k].version}
              \/ Invalidating(cache[k].template))'
  <2> DEFINE r == render[c]
  <2>1. /\ k = r.scope /\ cache'[k].template = r.template /\ cache'[k].version = r.version
        /\ cache'[k].late = r.late /\ r.pc = "fill"
    BY <1>2 DEF Fill, TypeOK
  <2>2. UNCHANGED <<versions, edit, owner>>
    BY <1>2 DEF Fill, storeVars
  <2>3. InState(r.template, "published") = {r.version} \/ Invalidating(r.template)
    BY <2>1, <2>2 DEF FillsAreFresh
  <2> QED
    BY <2>1, <2>2, <2>3 DEF InState, Invalidating
<1>3. CASE \E j \in Scopes : Expire(j)
  BY <1>1, <1>3 DEF Expire, TypeOK
<1>4. CASE \E e \in Editors : Invalidate(e)
  BY <1>1, <1>4 DEF Invalidate
<1> QED
  BY <1>0, <1>1, <1>2, <1>3, <1>4, NextCases, EditorLeaves, RenderLeaves DEF vars

(***************************************************************************)
(* The theorems.                                                           *)
(***************************************************************************)
LEMMA InitInvariant == Init => IInv
<1> SUFFICES ASSUME Init PROVE IInv
  OBVIOUS
<1>1. TypeOK
  BY InitType
<1>2. /\ \A e \in Editors : edit[e].pc = "idle"
      /\ \A c \in Consumers : render[c].pc = "idle"
      /\ \A k \in Scopes : cache[k] = NoEntry
  BY DEF Init, NoEdit, NoRender
<1>3. PICK c \in Contents :
        \A t \in Templates, v \in VersionNo :
          versions[t][v] = IF owner[t] # "none" /\ v = 1 THEN [state |-> "published", content |-> c]
                           ELSE NoRow
  BY DEF Init
<1>4. \A t \in Templates, v \in VersionNo :
        /\ versions[t][v].state \in {"published", "none"}
        /\ versions[t][v].state = "published" <=> owner[t] # "none" /\ v = 1
        /\ versions[t][v].state = "published" => versions[t][v].content \in Contents
  BY <1>3 DEF NoRow
<1>5. OnePublished
  <2> SUFFICES ASSUME NEW t \in Templates, InState(t, "published") \cup InState(t, "deprecated") # {}
               PROVE  \E v \in VersionNo : InState(t, "published") = {v}
    BY DEF OnePublished
  <2>1. owner[t] # "none"
    BY <1>4 DEF InState
  <2>2. InState(t, "published") = {1}
    BY <1>4, <2>1, EditTypes DEF InState
  <2> QED
    BY <2>2, EditTypes
<1> QED
  BY <1>1, <1>2, <1>4, <1>5 DEF IInv, Known, Written, FillsAreFresh, OnlyLateFillsAreStale

LEMMA Inductive == Spec => []IInv
<1>1. IInv /\ [Next]_vars => IInv'
  BY NextType, KnownStep, WrittenStep, OnePublishedStep, FillsAreFreshStep, EntriesAreFreshStep DEF IInv
<1> QED
  BY <1>1, InitInvariant, PTL DEF Spec

\* Every variable keeps its type; above all no version that was never written
\* comes into the cache.
THEOREM PromptTypeCorrect == Spec => []TypeOK
<1>1. IInv => TypeOK
  BY DEF IInv
<1> QED
  BY <1>1, Inductive, PTL

\* However publications, rollbacks and drafts interleave, a template that has
\* been published has exactly one published version.
THEOREM OneVersionIsPublished == Spec => []OnePublished
<1>1. IInv => OnePublished
  BY DEF IInv
<1> QED
  BY <1>1, Inductive, PTL

\* A cached prompt of the scope's own template is the published one, but while
\* the publish has not invalidated it yet, or when a render that had read the
\* version before put it there afterwards.
THEOREM StaleEntriesAreLate == Spec => []OnlyLateFillsAreStale
<1>1. IInv => OnlyLateFillsAreStale
  BY DEF IInv
<1> QED
  BY <1>1, Inductive, PTL
=============================================================================
