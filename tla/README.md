# Shellder Agent: a TLA+ verification project

Shellder Agent runs enterprise capabilities (questions over a knowledge base,
queries, actions, workflows) behind a chat and an Open API. Two processes share
one MySQL schema and a set of Redis queues: the API server
(`shellder-agent-server`) and the job worker (`shellder-job-worker`). A web
console and an embedded Copilot are their clients.

The project models the parts of the system where processes, requests and people
meet on the same rows: the asynchronous task pipeline and the two queues beside
it (notifications, document processing); a chat, from the message through
routing, policy and the capability handlers to the event stream the page listens
to; the prompts behind it with their cache; and the ER diagrams its queries
depend on. The sections are: the inventory, the plan, the model, the runs, the
proofs, and what is not promised or not modelled.

## 1. Inventory

| Part | State it keeps | Operations | Hard behaviour | What makes it correct |
|---|---|---|---|---|
| Task center (`task.service.ts`, `task.controller.ts`) | `task`, `task_step`, `task_log` | create, PATCH, progress, logs | PATCH races the worker; the row is created before its job | a pending task has a job |
| Task queue (`task-queue.service.ts`, BullMQ) | jobs of queue `shellder.task` | add, retry, stall | redelivery after a crash; two retry counters | every job is settled; retries are bounded |
| Job worker (`task.processor.ts`) | locals of `process(job)` | load, prepare, loop over steps, park, complete, fail | works on a snapshot, writes without looking again | order of steps, one attempt at a time, completed means done |
| Task execution (`task-execution.service.ts`) | `task_step`, `approval` | prepareTask, executeStep, executeCapability | materialises without a transaction; outlives its caller | tools behind a confirmation run only after an approval |
| Approval center (`approval-runtime.service.ts`, `approval.service.ts`) | `approval` | create, review, link, resume | check-then-write; status and queue are not one | a decision is final; an approved task is resumed |
| Timeout scan (`task-timeout.processor.ts`) | none | time out tasks, expire approvals | read-then-write against reviews | a running task ends; a decision beats a timeout |
| Notifications (`notification-queue.service.ts`, `notification.processor.ts`) | jobs of queue `shellder.notification`, entries of `task_log` | announce, send, log | at-least-once delivery, deduplication by job id and by log | no repetition without a fault; one message per event |
| Document processing (`document-processing-queue.service.ts`, `document-processing.processor.ts`) | `kb_layer_processing_job`, jobs | schedule, claim, compile, embed, settle | job ids of jobs that are over, redelivery of a running record | done means embedded; a scheduled document is processed |
| Agent runtime (`agent-runtime.service.ts`) | `session`, `message`, SSE channels | sendMessage, executeOrchestration, confirmation interrupt, resume | interrupts and resumption, time limits that do not cancel | what was to be confirmed runs once per approval; a parked session can be released |
| Sessions and messages (`session.service.ts`, `copilot.controller.ts`) | `session.status`, `message.seq` | create, update, remove, append, snapshot, stream | read-max-then-insert; events are kept for nobody | an answer comes after its question and reaches a page that listens |
| Capability routing (`routing-engine.service.ts`) | capabilities, routing rules | stage 1 (type), stage 2 (rule and tools) | several reads, the configuration may change between them | the best rule with a tool to offer decides; only enabled tools run |
| Policy engine (`policy.service.ts`) | policy rules | evaluate | asked tool by tool, while rules change | no request gets past it with a tool the rules would stop |
| Capability handlers (`*.handler.ts`) | `task`, `task_step` of a workflow | handle a question, a query, an action, a workflow | steps that fail, queries that throw half-way | steps in order, none after a failure, the task settled |
| Queries (`nl2sql.service.ts`, `data-scope-*.ts`) | none | resolve the scope, clip, generate, validate, filter, execute | the published diagram is read twice; the model is wrong at times | the tables listed for a statement are confined to the user's scope |
| Prompt center (`prompt-version.service.ts`, `prompt-resolver.service.ts`) | templates, versions, cache | create, edit, publish, roll back, render | invalidation races a read | one published version, and the cache comes to tell it |
| Connectors and ER diagrams (`er-diagram.service.ts`, `connector-schema.service.ts`, the ER panel) | schema, draft, published diagram, map of jobs | introspect, suggest, generate, edit, confirm, publish | a model's work overlaps with edits; the job map is in memory | what is published was confirmed; waiting ends |
| Copilot page (`copilot/page.tsx`) | what it shows | send, listen, read again, confirm | loses events whenever it is not connected | it shows what it has been told of, unless something else covers it |
| Other tools and connectors, knowledge base, language models | settings | CRUD and calls to external systems | I/O | - |
| Auth, roles, tenants, audit, dashboard, settings, Open API keys, skills | rows | CRUD, checks per request | - | - |
| Other pages of the console, configuration, deployment | none the servers depend on | - | - | - |

How they interact: the server creates a task row and adds a job; the worker
reads the row, sets it running and calls the server over HTTP
(`/internal/tasks/*`) to materialise the steps and to execute each of them; the
server creates an approval when a tool needs one, and the worker parks the
task; a review approves it, sets the task pending again and adds a new job; the
timeout scan, a repeatable job in the worker, writes over tasks and approvals
that take too long.

A chat message is numbered and stored, routed to a capability and its tools,
cleared by the policies or parked for a confirmation, handled, and answered. The
page hears of it by server-sent events and then reads the session again. A
review resumes a parked request in the API server itself, or hands a task linked
to it to the worker. Queries read the published ER diagram of a database, and
every call of a language model renders a published prompt. Nobody locks a row,
and nearly all writes are unconditional updates by primary key.

## 2. Plan

1. **Task pipeline** (done): `TaskStore`, `TaskQueue`, `TaskExecution`,
   `TaskProcessor`, `ApprovalRuntime`, `TaskTimeout`, composed by `TaskSystem`;
   the abstract specification `OrderedWorkflow`.
2. **Proofs of the pipeline's safety properties** (done): `GuardedCalls`,
   `RunningIsVisible`, `StepOrder`, `CompletedCoversSteps` and the refinement;
   `OneAttemptAtATime`, `RetriesBounded`, `DecisionBeatsTimeout` and
   `PendingIsCarried`.
3. **Notifications** (done): `Notification` over `BullQueue` and `Faults`, with
   its safety theorems.
4. **Document processing** (done): `DocumentProcessing` over the same, with its
   safety theorems.
5. **A chat** (done): one request in full, `ChatRequest`, composed of `Policy`,
   `CapabilityRouting`, `CapabilityHandlers` and `QueryTool` over the shared state
   of `RequestContext`; the requests, reviews and scans of one session,
   `ChatSession`; the page and its stream, `ChatStream`. All three with their
   safety properties as theorems. Left: the composition of `ChatSession` with the
   pipeline, of which it has what touches the session (the jobs' beginning and
   end, and the guard of a step).
6. **Prompt versions and their cache** (done): `PromptCenter`, with its safety
   theorems.
7. **ER diagrams** (done): `ErDiagram` over `DataScope`, with `PublishedIsVouched` as
   a theorem. Left: relationships.

## 3. The model

| Module | Models | State | Actions |
|---|---|---|---|
| `TaskStore` | the rows of one task (Prisma schema, `task.service.ts`) | status, startedAt, retryCount, step, approval, expired | `Patch`, `Elapse`, `Expire` |
| `Faults` | failures, counted by kind | faults | `Strikes` |
| `BullQueue` | a BullMQ queue as the code uses it (external) | jobState, attemptsMade, stalled | `AddJob`, `PickUp`, `JobReturns`, `JobThrows`, `JobsStall`, `Forget` |
| `TaskQueue` | `TaskQueueService.enqueue`: always a job of its own | | `Enqueue` |
| `TaskExecution` | the server's internal handlers, one per job | handler, target, reply | prepare, materialise, execute a step behind its guard, run a capability |
| `TaskProcessor` | `TaskProcessor.process`, one action per query or call | pc, snap, cur, verdict | load, start, prepare, snapshot, run, park, succeed, fail, complete, count, verdict, rethrow, return |
| `ApprovalRuntime` | `TaskController.create` and `submitConfirmation` | creating, review, subject, decision | read, decide, link, resume, enqueue |
| `TaskTimeout` | `TaskTimeoutProcessor` | scan, hits | read tasks, time out, read approvals, mark, link |
| `TaskSystem` | their composition, faults, fairness, properties | | |
| `OrderedWorkflow` | what the pipeline promises about a task | created, called, done, approved, complete | `Create`, `Approve`, `Invoke`, `Record`, `Complete`, `Revoke` |
| `MCTaskSystem` | instances for TLC | | |
| `Notification` | `NotificationQueueService`, its callers, `NotificationProcessor`, the sender | announced, message, pc, result, logged | announce, check, send, log, settle |
| `DocumentProcessing` | `uploadFile`, `scheduleAfterUpload`, `DocumentProcessingProcessor` | record, bullJobId, startedAt, upload, seen, pc, versions of the file | upload, read, write, add, mark; check, claim, compile, embed, finish, fail, settle |
| `Policy` | `PolicyService.evaluate` | | |
| `RequestContext` | what the parts of a request share, and the administrator | the configuration, pc, capability, toolIds, runs, outcome | `Edit` |
| `CapabilityRouting` | `RoutingEngineService`, `resolveToolIds` | the rule that is looked at, the best so far | route, score a rule, conclude, resolve the tools |
| `CapabilityHandlers` | the handlers of the four capabilities, the invocation of a tool | the workflow's task and its steps | handle, invoke, start and record a step, run a sub-tool, settle |
| `QueryTool` | data scope, NL2SQL, execution | the statement and its filters | resolve, clip, ask, check, filter, execute, summarise |
| `ChatRequest` | `executeOrchestration`, the interrupt and `resumeFromApproval`, composing the above | | check the policy, interrupt, approve, reject, time out, reply |
| `ChatSession` | requests, tasks of the task API, reviews, late handlers, the worker's guard and the scan on one session | status, approvals, linked tasks, verdicts, jobs | send, decide, park, find, mark, ask, handle; submit, link, resume, settle; serve, guard, ask and park for a step, end; expire, fail; `Update` |
| `ChatStream` | `appendMessage`, the SSE channel, the Copilot page | messages and numbers, the session's status, stream, events, readings, replies awaited | send, orchestrate, append, settle, emit; subscribe, break, reconnect; receive, fetch, hydrate; confirm and its reply |
| `PromptCenter` | templates, versions, resolver and cache | rows, cache, requests in flight | create, edit, publish, roll back, invalidate; resolve, read, fill; `Expire`, `Restart` |
| `DataScope` | the bindings of a table and what console and server do to them | | |
| `ErDiagram` | `ErDiagramService`, the introspection, the ER panel | schema, draft, published, jobs, requests in flight, page | introspect, generate, suggest, save, publish; edit, confirm, load, poll; `Restart` |
| `MC*` | instances for TLC | | |
| `TaskInvariants` | the inductive invariants | | |
| `TaskProofs`, `NotificationProofs`, `DocumentProofs`, `RequestProofs`, `StreamProofs`, `SessionProofs`, `PromptProofs`, `DiagramProofs` | theorems | | |

An action ends where the code awaits a query or a call, so every interleaving
of two processes between two queries is a behaviour of the model. `called`,
`done` and `granted` are history variables: the tools invoked, the steps once
recorded completed, the approvals once granted.

**Job ids.** The task pipeline lets BullMQ choose the ids, so a job is never a
repetition of another. The two other queues use ids of their own making, and
BullMQ ignores a job whose id it still knows, in whatever state that job is:
`AddJob` does nothing unless the id is free. `removeOnComplete` and
`removeOnFail` free it at some later time (`Forget`).

**Time.** `startedAt` keeps what the scan can tell apart: null, recent, older
than `timeout_ms`. `Elapse` and `Expire` let time pass at any moment.

**Faults.** The worker dies (its jobs stall; BullMQ hands a stalled job out
again once and fails it the second time); the server dies (handlers and
requests stop where they are); a connection breaks while its handler goes on; a
query throws, in the worker inside or outside its try block, in a handler, a
review or a scan; Redis refuses a job. `MaxFaults` bounds how often each kind
strikes.

**Abstractions of the pipeline.**
- One task. Tasks share no rows; the jobs, reviews and scans that work on the
  same task are what can interfere. The worker's concurrency (5) is no bound on
  jobs of one task, which `Jobs` bounds.
- The task is of type `async`. A `scheduled` task that needs a confirmation is
  not resumed by the worker path and goes to the agent runtime instead.
- The status of the session an approval belongs to is in `ChatSession`, not
  here; logs and notifications are left out. A log entry that cannot be written is
  a fault like any other query.
- A handler of a job whose connection was lost ends before the next call of the
  same job is served. Without this bound two `prepareTask` calls could
  materialise the steps twice.
- A job's lock does not run out while its worker lives.
- Deleting a session with its tasks is not modelled.
- No handler reports `pending_confirm` for a capability without steps, so
  `executeCapability` has the outcomes ok, failed, error.
- The identifiers written for tracing (`job_id`, `current_node`, `reviewer_id`)
  are read by none of the modelled code.

**Abstractions of notifications.** Sending is an outcome: delivered (or logged
as a mock), failed, or delivered with the answer lost. Templates, connectors and
the text are left out. `alreadySent` reads the last 30 entries of a task's log; a
task is taken to have fewer, so the log is the set of messages known to be sent.

**Abstractions of document processing.** One document, since documents share
nothing but the worker. Its layer (compile and embed, or embed only) and whether
its job id fits into `bull_job_id`, `VARCHAR(64)`, are chosen initially: an id of
tenant, layer and path often does not, and the write then throws. The id's three
parts are joined by colons, which BullMQ accepts for three parts; a path with a
colon is an `AddDocument` that throws. A file is its version number. No caller
sets `force`; the embed endpoint works past the record and is left out.

**Abstractions of a request.** A rule has the score the matching gives it, a
policy rule the clauses of its condition, of which `holds` says which are true
of a tool. A statement is two sets of tables, independent of each other: those
the model lists beside it (`referencedTables`), by which the diagram is checked
and the filters are added, and those its text names after FROM or JOIN
(`extractTables`), by which the blacklist is. Whether its other checks pass is a
choice; so are what a model classifies and what a tool returns. That a filter is
added is recorded; how it is written into the text is not modelled. The
configuration changes between two steps of the request, at most `MaxEdits` times.

**Abstractions of a session.** Where routing and policy lead a request is one
choice (`ChatRequest` has the whole of it). `completed` and `cancelled`, which
are treated alike, are "closed"; `Updates` are the statuses set by hand, any of
the four. `Errands` are the tasks the task API creates with the session's id. Of
the worker there is what touches the session: it takes a queued task, has the
server guard its steps query by query (`GuardStep`, `AskForStep`, `ParkForStep`),
and records how the job has ended; its queue, and that a job may be served twice
at once, are the pipeline's matter. A task asks for at most one approval. A handler
that nobody waits for any more runs on as "late". `stray` is history: the session
was parked by hand, or by the guard for an approval that was decided by then.
Deleting sessions is left out.

**Abstractions of the stream.** The page stays at one session; it is told of
messages by `confirm`, `done` and `error` events, while `routing_result`, on
which nothing depends, is left out, and the snapshot a stream begins with, which
the page does not read, is part of the step `Subscribe`. A session that has failed
takes messages as an active one does, and is not distinguished from it; that
somebody closes it is left out. Creating the approval, which never fails here, is
part of telling of it, and a decision and what it does to the session are one
step; `ChatSession` takes both apart. `missed` is history: the messages of which
an event was sent while the page was not listening, or whose confirmation another
has replaced or the reply to another has wiped.

**Abstractions of prompts.** The templates are those of one key; variables only
decide whether a render fails. `late` is history: the render that filled the entry had
read the version before an invalidation. `MaxVersions` and `MaxOps` bound the
rows and the editors' requests.

**Abstractions of diagrams.** A diagram is the set of its tables, each with a
binding (column, and whether a suggestion is pending, per dimension); display
names, relationships and the version number are left out. A reserved name stands
as a missing column does: both are dropped. One page stays open, so the check
for a running generation when it is opened is left out, and so is editing the
diagram as JSON. Each button waits for its own request only, so `Requests` may be
in flight together. `Ideas` bounds what the model suggests. `vouched` is history:
the columns an administrator has picked or confirmed.

## 4. Runs

The runs `task_*` use `MCTaskSystem`, the others the MC module of their component.
`Attempts` (3, for documents 2) and `MaxStalled = 1` are the code's and BullMQ's
values; `CHECK_DEADLOCK FALSE` because a task, a message, a document or a chat
may be over.

| Run | Instance | Properties | States |
|---|---|---|---|
| `task_retry` | two steps, the first without a tool, the second behind a confirmation; one job, review and scan; every fault, the worker's death twice; PATCH to running | `TypeOK`, `StepOrder`, `RunningIsVisible`, `RetriesBounded` | 2.3 million |
| `task_confirm` | two steps, the second behind a confirmation; two jobs, two reviews, a scan; `MaxRetries` 4 above `Attempts` 3; PATCH to cancelled | `GuardedCalls`, `CompletedCoversSteps`, `OneAttemptAtATime`, `PendingIsCarried`, `DecisionBeatsTimeout`, `ImplementsWorkflow` | 0.8 million |
| `task_live` | one step behind a confirmation; two jobs; the worker dies up to twice | `RunningEnds`, `JobsEnd` | 0.3 million |
| `task_capability` | no steps | `PendingLeaves` | 251 |
| `task_parked` | one step behind a confirmation, one review | `ParkedAwaitsReview` violated | |
| `notify` | a task announced twice and an approval without a task; every fault once | `DuplicatesNeedFaults`, `CompletedIsDelivered`, `AnnouncementsSettle` | 0.2 million |
| `document` | one document of either layer, uploaded twice; every fault once | `DoneIsEmbedded`, `FailedIsNotSettled`, `NoneLeftBehind` | 0.3 million |
| `pipeline` | one message, five families of configurations (rules, policies, capability types, workflows, queries), one change meanwhile, one failed query | `TypeOK`, `RoutedByBestRule`, `UnaskedAreCleared`, `RightTools`, `StepsRunInSequence`, `WorkflowTaskSettles`, `ListedTablesAreConfined` | 2.8 million |
| `chat` | a message, a task of the task API, a review, the scan, updates by hand to active and pending_confirm; one failed query, the server dies once | `TypeOK`, `RunsAreGranted`, `ParkedHasApproval`, `ParkedIsReleased`, `ApprovedIsCarried` | 0.5 million |
| `stream` | two messages (symmetric), one broken connection | `AnswersFollow`, `AnswersAreSeen`, `ConfirmationsAreSeen` | 4.4 million |
| `prompt` | a global template, alone or beside one of the tenant; two editors with three requests, two versions, one consumer | `TypeOK`, `OnePublished`, `OnlyLateFillsAreStale`, `CacheConverges` | 0.2 million |
| `diagram` | one table whose column comes and goes, no draft or one with suggestions; two requests in flight, three operations, one restart | `PublishedIsVouched`, `GenerationEnds` | 0.4 million |

*Why the bounds are enough.* Two steps are the least with an order; two jobs
and two reviews are the least that overlap; one approval suffices because the
guard creates no second one while one is pending or approved, and a task with a
rejected or timed-out approval is failed. `MaxRetries = 2` distinguishes the
last failure from the others, and 4, in `task_confirm`, has the row promise a
retry when BullMQ, after 3 attempts, makes none. Two events with one job id are the least that
deduplicate, and a third without a task takes the other branch of `buildJobId`;
two uploads are the least that overlap, with each other or with an attempt. In `chat` a
message and a task of its own are the least two that park the session and are
released from it apart; several messages are in the theorems. Two messages on one
page, and two editors, are the least that read the same highest number; two
versions the least of which one deprecates the other. A request decides by
comparing two rules, two policies, two capabilities or two tables, so each family
takes pairs, in every order. Three operations are the least with which a diagram
is suggested or picked, confirmed and published. Each
kind of fault once reaches every path of the code that handles one, and the
theorems of section 5 lift the bounds.

*What the passing runs show.* Whatever the interleaving, tools run in order and
behind their approvals; a completed task has completed every step there is; no
failure outside the approval path doubles an attempt; a running task can be
seen by the scan. `ImplementsWorkflow` is the summary: the pipeline implements
`OrderedWorkflow`, with `created` the materialised steps, `approved` that some
approval was ever granted, and `complete` the task's status.

A notification is repeated only by a fault between its delivery and its record,
and a job that BullMQ calls completed has delivered. A document that is done was
embedded, in the version that was there at the claim or a newer one, and only a
fault or an ignored job leaves a document behind.

In a chat, the rule that decides is the best that has a tool to offer; what runs
unasked was let pass by the policy or went around it in one of the two ways of
section 6, whatever changes meanwhile; a workflow runs in order and stops at a
failure; each table listed for a statement is filtered in every dimension the
user is limited in. A request behind a confirmation runs no oftener than it was
approved, also when its time limit has struck, and a session parked for an
approval that is still to be decided is released by a review or by the scan. The
page shows every answer and every confirmation it has been told of and that
nothing has covered or wiped. Of a prompt one version is published, the cache
lags behind it only by a render that was on its way, and in the end does not lag.
A published column was seen by an administrator, whatever the model suggests over his edits, and a
page does not wait for a generation that a restart has lost.

*Fairness.* The pipeline's `FairSpec` makes every process that is in the middle of something
go on: the worker's attempts and the server's handlers (Node's event loop and
BullMQ), a review once opened, the scan (a repeatable job every minute), and the
clock. Nothing obliges anybody to open a review, to PATCH the task, or a fault
to strike. Under it `RunningEnds` holds even when the job is lost, thanks to the
scan, and `JobsEnd` because a job has finitely many attempts. The `FairSpec` of
notifications asks only that the worker goes on with its jobs. In `ChatSession`
requests, reviews and the scan go on once begun (a handler that hangs is left by
`TimeOut`), and nobody has to review anything. In `PromptCenter` requests go on
and cache entries expire, which `cacheTtlMs` sees to. In `ErDiagram` a generation
goes on, as the call of the model has a time limit, and the page polls every three
seconds while it waits. `ChatRequest` and `ChatStream` assume none.

*Finding.* One run violates what a document of the repository says; `PROJECT.json`
quotes it. A review may be faster than the worker. The server creates the
approval and answers; before the worker writes `pending_confirm`, somebody
approves: the task is set pending and queued, then overwritten, and the new job
skips it. It is parked with nothing left to approve.

What the passing properties do not promise is as telling. `PendingIsCarried`
excepts a task whose job was given up: in `task_confirm`, where `MaxRetries` is
above `Attempts`, the task stays pending after the third failure, though the log
says it will be retried.
`DecisionBeatsTimeout` speaks of the scan only: of two overlapping reviews the
later decides. `DuplicatesNeedFaults` allows a repetition per fault, since a
message is sent before it is logged.

## 5. Proofs

Proved for every number of steps, jobs, reviews, scans, approvals, announced
events, uploads, rules, tools, tables, messages, editors, versions and faults,
from the named assumptions on the constants alone unless stated (among them
`StoreAssumption`, `QueueAssumption`, `FaultAssumption`, `TopicAssumption`,
`DocAssumption`, `ConfigsAssumption`, `ReviewsAssumption`, `BoundsAssumption`,
`NoDiagramAssumption`). Every invariant and action property of a passing run is
the subject of a theorem:

| Theorem | Module | What it says | Inductive invariant |
|---|---|---|---|
| `TypeCorrect` | `TaskProofs` | every variable keeps its type; a call about a step is about a step of the workflow | `TypeOK /\ StepsInRange` |
| `CallsAreGuarded` | `TaskProofs` | `GuardedCalls` | `GuardInv` |
| `RunningTasksAreVisible` | `TaskProofs` | `RunningIsVisible` | `VisibleInv` |
| `StepsInOrder` | `TaskProofs` | `StepOrder` | `OrderInv` |
| `CompletionCoversSteps` | `TaskProofs` | `CompletedCoversSteps`, unless an operator may PATCH the task to completed | `PipelineInv` |
| `PipelineImplementsWorkflow` | `TaskProofs` | `ImplementsWorkflow`, under the same assumption | `PipelineInv` |
| `OneAttempt` | `TaskProofs` | `OneAttemptAtATime` | `JobsInv` |
| `RetriesAreBounded` | `TaskProofs` | `RetriesBounded` | `JobsInv /\ RetryInv` |
| `PendingHasCarrier` | `TaskProofs` | `PendingIsCarried`, unless an operator may PATCH the task to pending | `JobsInv /\ CarryInv` |
| `DecisionsBeatTimeouts` | `TaskProofs` | `DecisionBeatsTimeout`, an action property | `TypeOK` |
| `NotificationTypeCorrect`, `DuplicatesAreBlamed`, `CompletionMeansDelivery` | `NotificationProofs` | `TypeOK`, `DuplicatesNeedFaults`, `CompletedIsDelivered` | `IInv` |
| `DocumentTypeCorrect`, `DoneMeansEmbedded`, `FailureReachesTheQueue` | `DocumentProofs` | `TypeOK`, `DoneIsEmbedded`, `FailedIsNotSettled` | `IInv` |
| `NoDocumentLeftBehind` | `DocumentProofs` | `NoneLeftBehind` | `IInv /\ Tended` |
| `RequestTypes`, `BestRuleIsTaken`, `UnaskedIsCleared`, `ToolsAreRight`, `StepsInSequence`, `WorkflowSettles`, `ListedTablesConfined` | `RequestProofs` | `TypeOK`, `RoutedByBestRule`, `UnaskedAreCleared`, `RightTools`, `StepsRunInSequence`, `WorkflowTaskSettles`, `ListedTablesAreConfined` | `IInv`, which `RequestInvariant` states |
| `StreamTypeCorrect`, `AnswersFollowQuestions`, `AnswersArriveAtPage`, `ConfirmationsArriveAtPage` | `StreamProofs` | `TypeOK`, `AnswersFollow`, `AnswersAreSeen`, `ConfirmationsAreSeen` | `IInv` |
| `SessionTypeCorrect`, `ApprovalsAreNeeded`, `ParkedSessionsAreReleased` | `SessionProofs` | `TypeOK`, `RunsAreGranted`, `ParkedHasApproval` | `IInv` |
| `PromptTypeCorrect`, `OneVersionIsPublished`, `StaleEntriesAreLate` | `PromptProofs` | `TypeOK`, `OnePublished`, `OnlyLateFillsAreStale` | `IInv` |
| `PublishedDiagramIsVouched` | `DiagramProofs` | `PublishedIsVouched` | `IInv`, which `DiagramInvariant` states |

The types of notifications, documents and the stream are proved and no longer
checked by a run.

`TaskInvariants` holds the pipeline's invariants, each a conjunction of named parts, most
of them about one job.

- *`GuardInv`.* Between the guard's query and the invocation lie other
  processes' steps, and the approval the guard saw may be decided again. What
  survives is history: the approval was granted once. So the invariant says that
  an approved row was granted, and that a handler past its guard has a grant
  behind it.
- *`VisibleInv`.* A review sets the task running and leaves `started_at` alone.
  It may, because there is a review only where an approval was created, and
  that happens only in a call of an attempt that has set `started_at`. The
  invariant says that as long as it is null nothing has gone that far.
- *`OrderInv`.* An attempt trusts a snapshot, which other jobs outdate. The
  invariant relates three things for each job: the snapshot is older than the
  rows (what it calls present is present, what it calls completed is done); the
  loop has seen to everything it has passed; and the step a handler serves is
  the step of a loop, perhaps of an attempt that is over. `Grows` is the lemma
  that rows are never lost.
- *`CallInv`.* An answer the worker has not consumed is about the step it is at,
  also after a lost connection or a crash, and success means that the tool ran.
- *`FixedInv`.* Until the steps are all there, or a retry finds a part of them,
  there is one job and nothing was executed, so no second job and no approval
  exist. It is what excludes a snapshot without steps that appear later.
- *`CoverInv`.* From then on every loop knows every step.
- *`ReviewInv`, `SingleInv`.* Why there is one job until an approval is granted:
  only creation and an approved review add one, a review that has gone so far has
  granted an approval, and while the task is being created there is neither job
  nor review. `JobStep` and `RestStep` say once what the steps of an attempt and
  all others do to the jobs; every proof about the queue starts from these two.
- *`RetryInv`.* That failures are bounded is not inductive: the one job may yet
  count another. So the invariant says that the bound is reached only once the job
  is `Spent`: it is over, or about to return, or about to write the verdict that the
  task has failed. A fault between count and verdict keeps the job alive and raises
  the bound by one.
- *`CarryInv`.* Two counters decide about a retry: `retry_count`, which says that
  the task is pending again, and BullMQ's `attemptsMade`, which says whether the job
  runs again. `AttemptInv`, which holds while no query has thrown, is that a job has
  made no more attempts than failures have been counted: so a pending task whose job
  is used up tells of `MaxRetries > Attempts` or of a thrown query, which is what
  `GivenUp` names. The code has `attempts: 3` (`task-queue.service.ts:26`) and a
  default of 3 for `max_retries` (`schema.prisma:619`), but `create-task.dto.ts:42`
  admits up to 10; the theorem assumes nothing of the two.

- *Notifications.* What keeps a message from being sent again differs: about a
  task it is the log, otherwise the job itself, which is added once. `Repeatable`
  says when neither does, and the invariant bounds the deliveries of a repeatable
  message by the faults that can have lost a record.
- *Documents.* While an attempt is at work, uploads may queue the record again
  but nobody settles it (`Settled`), and the attempt carries the version it
  claimed from compile to embed to the record (`Carried`). `Tended` says who will
  move a record that is queued or running on: the attempt past its claim, the job
  that will claim it, or the upload about to add one.
- *Requests.* Each property has a part of its own. `PhaseInv` tells from where the
  request is what cannot have happened yet. `RoutedInv`: the best rule so far is the
  best of those looked at (`Seen`). `ClearedInv`: nothing leaves the policy uncleared
  and unasked. `ToolInv`, `ConfinedInv`: a tool and a statement are fit from their
  choice to their use, unless the administrator intervenes. `SequenceInv`: what has
  run covers the steps before this one, and this one once it has succeeded. That a
  sequence of rules of any length has a best (`BestExists`) is induction, and is
  proved without the induction theorems, which take an operator: `LeastElement`
  gets a least number from the well-foundedness of inclusion among finite sets, and
  a least counterexample contradicts itself.
- *Streams.* `Numbered` bounds the number of every question by the highest there
  is, which every later number exceeds. What an answer or a confirmation has yet
  to do is followed from its row to the page: it is shown, being read, on its
  way, or missed (`AnswersArrive`, `ConfirmationsArrive`); `AnsweredLast` says that
  an answered message does not begin anew, and `SubmittedIsDecided` that a message
  whose reply the page awaits is not parked again, so the reply may take its
  confirmation away.
- *Sessions.* `Granted` charges every run to an approval: what has run, and the
  reviews that have granted a run that is still to come (`Credit`), are no more
  than the approvals. `AskedAtTheEnd` says that an approval is asked for when the
  request is over, so that only reviews can run it; `Waited` and `Reviewed` say what
  a handler and a review stand for. `ParkedForAReason` is needed because the scan
  fails the session before it fails the task: in between somebody may park the
  session anew, for a reason of his own. `stray` sets
  apart the two ways of parking a session without one.
- *Prompts.* `FillsAreFresh` follows a version from the query to the cache: it is
  still the published one, or an invalidation is to come, or the render is late.
  `Known` and `Written` say that what a request carries exists.
- *Diagrams.* `SettledBefore` says of each operation of `DataScope` that it settles
  nothing: what is settled in its result was settled in its argument, with the same
  column. So a language model can only propose. The invariant says of every copy of
  the diagram (the draft and the page's in `DiagramsVouched`, those in flight in
  `RequestsVouched`) that what is settled in it has been vouched for, however
  outdated the copy is; `vouched` only grows, so a copy that is written over a newer
  one is still vouched for. A publication that has been validated has nothing
  pending, so all of it is settled.

The refinement maps `MaterialiseStep` to `Create`, `InvokeTool` to `Invoke`,
`StepSucceeds` (and `SuccessThrows`, when the record was written) to `Record`,
`Decide` to `Approve` or a stutter, `CompleteTask` to `Complete`, every other
write of the status to `Revoke` or a stutter, and everything else to a stutter.
The assumption `"completed" \notin PatchTo` is needed: `PATCH /tasks/:id` accepts
any status.

Model-checked only: liveness, which is out of the prover's reach (`RunningEnds`,
`JobsEnd`, `PendingLeaves`, `AnnouncementsSettle`, `ParkedIsReleased`,
`ApprovedIsCarried`, `CacheConverges`, `GenerationEnds`), and the counterexample to
`ParkedAwaitsReview`.

## 6. What is not promised, and what is not modelled

The model has the following behaviours of the code, and the properties are stated
to allow for them. Where a comment or a log line of the repository says otherwise
it is named; the other behaviours no document excludes:

- Two reviews that overlap both succeed and queue the task twice; the attempt
  with the older snapshot executes a completed step again.
- A crash while the steps are inserted leaves part of them, which the retry
  takes for the whole workflow and completes. `CompletedCoversSteps` speaks of the
  steps there are.
- BullMQ ignores an announcement whose job id it still knows. The id of an
  approval's notification is made of its task, so a second approval of a task may
  not be told of.
- An upload can queue a document under the id of a job that is over; it stays
  queued until the queue forgets that job. A document whose worker died is found
  running by the redelivered job, which skips it if that is less than 30 minutes
  later.
- A request is parked as soon as its routing rule wants a confirmation
  (`agent-runtime.service.ts:247`), and an approved one is resumed at its handler
  (`agent-runtime.service.ts:633`): the policy is not asked about it.
  `UnaskedAreCleared` covers the requests nobody reviewed.
- The policy is meant to be asked before a tool is executed
  (`agent-runtime.service.ts:45`, `policy.service.ts:24`), and is asked about the
  tools of the request. Two ways lead around it: the sub-tools of a workflow, which are
  invoked with `skipPolicy` (`workflow-tool.invoker.ts:217`), and the tool a message
  itself names to a capability without tools (`action.handler.ts:41`, `:115`).
  `UnaskedAreCleared` names both and says that there is no third.
- Diagram and data scope are applied to the tables the model lists
  (`nl2sql.service.ts:273`); no code compares the list with the statement. A table
  the statement uses and the list leaves out is not filtered, and one the text names
  after a comma is not seen by the blacklist either (`sql-tool.service.ts:229`).
  `ListedTablesAreConfined` promises no more.
- The two retry counters may disagree: a task with more than 3 `max_retries` is
  pending after the third failure, the log promises a retry, and no job is left.
- The worker's guard creates the approval (`task-execution.service.ts:343`) and parks
  the session afterwards (`:376`): when somebody decides in between, the session
  stays parked with nothing to approve. So it does when it is set to
  `pending_confirm` by hand (`update-session.dto.ts:10`), and when a request parks it
  and creating the approval fails (`agent-runtime.service.ts:526`). `stray` and the
  faults in `ParkedHasApproval` are these cases.
- Approving one request sets the session active (`approval-runtime.service.ts:340`)
  although another still waits. The reply to a decision takes away whatever
  confirmation the page shows by then (`page.tsx:636`), and the reading after it does
  not look for approvals: another message may wait unseen. A confirmation found
  pending may be decided when it is shown, and one whose reply was lost stays on the
  page, which takes no message meanwhile.
- The page looks again only when it is told to: an answer that comes while its stream
  is down, or between the snapshot and the subscription, is not shown until the next.
- A draft that is saved while it is being published changes the published text.
  A tenant without a template of its own keeps the global text it has cached
  until the entry expires.
- The draft of a diagram has no version to compare: what an administrator
  confirms while a model works is lost when the model's draft is written, and of
  two generations that look for a running job at the same time both start. What
  is lost is confirmed again, never published unseen.

Not modelled are the components marked `not_modelled` in `PROJECT.json`, each with
its reason: CRUD modules whose operations touch one row and interact with
nothing, calls to external systems, authentication and permissions, which are
data to everything here, and the administration pages of the console, which
keep nothing but forms.
