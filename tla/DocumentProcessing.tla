------------------------- MODULE DocumentProcessing --------------------------
(***************************************************************************)
(* Processing of an uploaded document.  The API server stores the file,    *)
(* keeps a record of its processing in kb_layer_processing_job and adds a  *)
(* job; the worker claims the record, has the external wiki service        *)
(* compile a raw document and embed the result, and settles the record.    *)
(* A document has one record and one job id, made of tenant, layer and     *)
(* path; no caller sets force.                                             *)
(***************************************************************************)
EXTENDS BullQueue, Faults

CONSTANTS
    Doc,      \* the job id of the document
    Uploads   \* uploads of the document (bound)

ASSUME DocAssumption == Jobs = {Doc}

\* The worker's file status; a record that does not exist is "absent".
RecordStatus == {"absent", "queued", "running", "done", "failed"}

Operation == {"compile_and_embed", "embed_only"}

UploadPc == {"idle", "read", "write", "add", "mark", "over"}
WorkerPc == {"idle", "check", "claim", "compile", "embed", "finish", "fail", "throw", "return"}

VARIABLES
    operation,  \* what the layer of the document asks for
    idFits,     \* whether the job id fits into bull_job_id, VARCHAR(64)
    record,     \* the record's status
    bullJobId,  \* whether the record has the id of its job
    startedAt,  \* null, or less or more than 30 minutes ago
    upload,     \* where uploadFile is
    seen,       \* the status of the record it has read
    pc,         \* where process(job) is
    content,    \* version of the uploaded file
    compiled,   \* version the wiki document was compiled from
    embedded,   \* version in the index
    \* History, read by properties only.
    claimed,    \* content when the job last claimed the record
    ignored     \* an added job was ignored, the known one not being about to run

docVars == <<operation, idFits>>
recordVars == <<record, bullJobId, startedAt>>
uploadVars == <<upload, seen>>
wikiVars == <<compiled, embedded>>
vars == <<queueVars, faults, docVars, recordVars, uploadVars, pc, content,
          wikiVars, claimed, ignored>>

TypeOK ==
    /\ QueueTypeOK
    /\ faults \in [FaultKind -> Nat]
    /\ operation \in Operation /\ idFits \in BOOLEAN
    /\ record \in RecordStatus
    /\ bullJobId \in BOOLEAN
    /\ startedAt \in {"null", "recent", "old"}
    /\ upload \in [Uploads -> UploadPc]
    /\ seen \in [Uploads -> RecordStatus]
    /\ pc \in WorkerPc
    /\ content \in Nat
    /\ compiled \in 0..content /\ embedded \in 0..content /\ claimed \in 0..content
    /\ ignored \in BOOLEAN

Init ==
    /\ QueueInit
    /\ faults = NoFaultYet
    /\ operation \in Operation
    /\ idFits \in BOOLEAN
    /\ record = "absent"
    /\ bullJobId = FALSE
    /\ startedAt = "null"
    /\ upload = [u \in Uploads |-> "idle"]
    /\ seen = [u \in Uploads |-> "absent"]
    /\ pc = "idle"
    /\ content = 0 /\ compiled = 0 /\ embedded = 0 /\ claimed = 0
    /\ ignored = FALSE

UploadGoes(u, from, to) ==
    /\ upload[u] = from
    /\ upload' = [upload EXCEPT ![u] = to]

WorkerGoes(from, to) == pc = from /\ pc' = to

WorkerOnly == UNCHANGED <<docVars, uploadVars, content, ignored>>
UploadOnly == UNCHANGED <<docVars, startedAt, pc, wikiVars, claimed>>

-----------------------------------------------------------------------------
\* uploadFile: the wiki service has stored the file.
Upload(u) ==
    /\ UploadGoes(u, "idle", "read")
    /\ content' = content + 1
    /\ UploadOnly
    /\ UNCHANGED <<queueVars, faults, record, bullJobId, seen, ignored>>

\* The document is taken care of already.
Scheduled ==
    \/ record \in {"done", "running"}
    \/ record = "queued" /\ bullJobId

ReadRecord(u) ==
    /\ UploadGoes(u, "read", IF Scheduled THEN "over" ELSE "write")
    /\ seen' = [seen EXCEPT ![u] = record]
    /\ UploadOnly
    /\ UNCHANGED <<queueVars, faults, record, bullJobId, content, ignored>>

\* The record is created, once, or queued again, whatever has become of it
\* since it was read.
WriteRecord(u) ==
    /\ IF seen[u] = "absent" /\ record # "absent"
       THEN UploadGoes(u, "write", "over") /\ UNCHANGED record
       ELSE UploadGoes(u, "write", "add") /\ record' = "queued"
    /\ UploadOnly
    /\ UNCHANGED <<queueVars, faults, bullJobId, seen, content, ignored>>

AddDocument(u) ==
    /\ UploadGoes(u, "add", "mark")
    /\ AddJob(Doc)
    /\ ignored' = (ignored \/ jobState[Doc] \notin {"free", "waiting"})
    /\ UploadOnly
    /\ UNCHANGED <<faults, record, bullJobId, seen, content>>

\* The id is written; one that is too long throws, which uploadFile swallows.
MarkRecord(u) ==
    /\ UploadGoes(u, "mark", "over")
    /\ bullJobId' = (bullJobId \/ idFits)
    /\ UploadOnly
    /\ UNCHANGED <<queueVars, faults, record, seen, content, ignored>>

\* A query or queue.add throws; uploadFile swallows it.
UploadThrows(u) ==
    /\ \/ \E at \in {"read", "write", "mark"} : UploadGoes(u, at, "over") /\ Strikes("db")
       \/ UploadGoes(u, "add", "over") /\ Strikes("redis")
    /\ UploadOnly
    /\ UNCHANGED <<queueVars, record, bullJobId, seen, content, ignored>>

ServerDies ==
    /\ \E u \in Uploads : upload[u] \notin {"idle", "over"}
    /\ Strikes("server")
    /\ upload' = [u \in Uploads |-> IF upload[u] = "idle" THEN "idle" ELSE "over"]
    /\ UploadOnly
    /\ UNCHANGED <<queueVars, record, bullJobId, seen, content, ignored>>

-----------------------------------------------------------------------------
Start ==
    /\ PickUp(Doc)
    /\ WorkerGoes("idle", "check")
    /\ WorkerOnly
    /\ UNCHANGED <<faults, recordVars, wikiVars, claimed>>

\* A record that is done, or running for less than 30 minutes, is skipped.
CheckRecord ==
    /\ WorkerGoes("check",
         IF record = "done" \/ (record = "running" /\ startedAt = "recent")
         THEN "return" ELSE "claim")
    /\ WorkerOnly
    /\ UNCHANGED <<queueVars, faults, recordVars, wikiVars, claimed>>

Claim ==
    /\ WorkerGoes("claim", IF operation = "embed_only" THEN "embed" ELSE "compile")
    /\ record' = "running"
    /\ startedAt' = "recent"
    /\ claimed' = content
    /\ WorkerOnly
    /\ UNCHANGED <<queueVars, faults, bullJobId, wikiVars>>

\* Mutant of Compile: an error is not thrown.
CompileQuietly ==
    /\ WorkerGoes("compile", "embed")
    /\ compiled' \in {compiled, content}
    /\ WorkerOnly
    /\ UNCHANGED <<queueVars, faults, recordVars, embedded, claimed>>

\* wiki.compile; an error may come after the deed.
Compile ==
    /\ \/ WorkerGoes("compile", "embed") /\ compiled' = content
       \/ WorkerGoes("compile", "fail") /\ compiled' \in {compiled, content}
    /\ WorkerOnly
    /\ UNCHANGED <<queueVars, faults, recordVars, embedded, claimed>>

\* wiki.embedWiki, of the compiled document or of the uploaded one.
Embed ==
    LET new == IF operation = "embed_only" THEN content ELSE compiled
    IN  /\ \/ WorkerGoes("embed", "finish") /\ embedded' = new
           \/ WorkerGoes("embed", "fail") /\ embedded' \in {embedded, new}
        /\ WorkerOnly
        /\ UNCHANGED <<queueVars, faults, recordVars, compiled, claimed>>

Finish ==
    /\ WorkerGoes("finish", "return")
    /\ record' = "done"
    /\ WorkerOnly
    /\ UNCHANGED <<queueVars, faults, bullJobId, startedAt, wikiVars, claimed>>

\* Mutant of Fail: the error is thrown on without a word in the record.
FailSilently ==
    /\ WorkerGoes("fail", "throw")
    /\ WorkerOnly
    /\ UNCHANGED <<queueVars, faults, recordVars, wikiVars, claimed>>

\* The catch block.
Fail ==
    /\ WorkerGoes("fail", "throw")
    /\ record' = "failed"
    /\ WorkerOnly
    /\ UNCHANGED <<queueVars, faults, bullJobId, startedAt, wikiVars, claimed>>

\* Mutant of Settle: the catch block does not throw the error on.
SettleQuietly ==
    /\ \E last \in {"return", "throw"} : WorkerGoes(last, "idle")
    /\ JobReturns(Doc)
    /\ WorkerOnly
    /\ UNCHANGED <<faults, recordVars, wikiVars, claimed>>

\* process returns, or throws, to BullMQ.
Settle ==
    /\ \/ WorkerGoes("return", "idle") /\ JobReturns(Doc)
       \/ WorkerGoes("throw", "idle") /\ JobThrows(Doc)
    /\ WorkerOnly
    /\ UNCHANGED <<faults, recordVars, wikiVars, claimed>>

\* A query throws: the first two outside the try block, the others (the scope
\* of the tenant among them) inside, or in the catch block.
QueryThrows ==
    /\ Strikes("db")
    /\ \/ \E at \in {"check", "claim", "fail"} : WorkerGoes(at, "throw")
       \/ \E at \in {"compile", "embed", "finish"} : WorkerGoes(at, "fail")
    /\ WorkerOnly
    /\ UNCHANGED <<queueVars, recordVars, wikiVars, claimed>>

WorkerDies ==
    /\ jobState[Doc] = "active"
    /\ Strikes("worker")
    /\ JobsStall
    /\ pc' = "idle"
    /\ WorkerOnly
    /\ UNCHANGED <<recordVars, wikiVars, claimed>>

\* 30 minutes have gone by since the record was claimed.
Age ==
    /\ startedAt = "recent"
    /\ startedAt' = "old"
    /\ UNCHANGED <<queueVars, faults, docVars, record, bullJobId, uploadVars, pc,
                   content, wikiVars, claimed, ignored>>

Forgotten ==
    /\ Forget(Doc)
    /\ UNCHANGED <<faults, docVars, recordVars, uploadVars, pc, content, wikiVars,
                   claimed, ignored>>

-----------------------------------------------------------------------------
UploadFile(u) ==
    \/ Upload(u) \/ ReadRecord(u) \/ WriteRecord(u) \/ AddDocument(u)
    \/ MarkRecord(u) \/ UploadThrows(u)

Process ==
    \/ Start \/ CheckRecord \/ Claim \/ Compile \/ Embed \/ Finish \/ Fail
    \/ Settle \/ QueryThrows

Next ==
    \/ \E u \in Uploads : UploadFile(u)
    \/ Process \/ ServerDies \/ WorkerDies \/ Age \/ Forgotten

Spec == Init /\ [][Next]_vars

-----------------------------------------------------------------------------
\* A record that is done: what is in the index is at least as new as the file
\* was when the job claimed the record, though uploads go on meanwhile.
DoneIsEmbedded == record = "done" => claimed > 0 /\ embedded >= claimed

\* BullMQ never takes a failed document for processed: the error reaches it.
FailedIsNotSettled == record = "failed" => jobState[Doc] # "completed"

Quiet == \A u \in Uploads : upload[u] \in {"idle", "over"}
HasJob == jobState[Doc] \in {"waiting", "active"}

\* A record is left queued or running without a job only after a fault, or
\* when a job added for it was ignored.
NoneLeftBehind ==
    Quiet /\ record \in {"queued", "running"} /\ ~HasJob
      => ignored \/ faults # NoFaultYet
=============================================================================
