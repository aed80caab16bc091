--------------------------- MODULE DocumentProofs ----------------------------
(***************************************************************************)
(* Theorems of DocumentProcessing, for any number of uploads and faults.   *)
(***************************************************************************)
EXTENDS DocumentProcessing, TLAPS

\* The processor is at work on the active job.
AtWork == pc # "idle" <=> jobState[Doc] = "active"

\* There is no job without an uploaded file.
Uploaded ==
    /\ \A u \in Uploads : upload[u] # "idle" => content > 0
    /\ jobState[Doc] # "free" => content > 0

\* Between its claim and its end an attempt has the record to itself, up to
\* uploads, which queue it again and never settle it.
Busy == {"compile", "embed", "finish", "fail"}

Settled ==
    /\ pc \in Busy => record # "done" /\ claimed > 0
    /\ pc = "return" \/ jobState[Doc] = "completed" => record # "failed"

\* How far the attempt has carried the file it claimed.
Carried ==
    /\ pc = "embed" /\ operation = "compile_and_embed" => compiled >= claimed
    /\ pc = "finish" => embedded >= claimed
    /\ DoneIsEmbedded

IInv == TypeOK /\ AtWork /\ Uploaded /\ Settled /\ Carried

(***************************************************************************)
(* Type correctness.                                                       *)
(***************************************************************************)
LEMMA InitType == Init => TypeOK
<1> SUFFICES ASSUME Init PROVE TypeOK
  OBVIOUS
<1>1. QueueTypeOK
  BY DEF Init, QueueInit, QueueTypeOK, JobState
<1>2. /\ faults \in [FaultKind -> Nat]
      /\ upload \in [Uploads -> UploadPc]
      /\ seen \in [Uploads -> RecordStatus]
  BY DEF Init, NoFaultYet, UploadPc, RecordStatus
<1>3. /\ content \in Nat
      /\ compiled \in 0..content /\ embedded \in 0..content /\ claimed \in 0..content
  BY DEF Init
<1>4. record \in RecordStatus /\ pc \in WorkerPc
  BY DEF Init, RecordStatus, WorkerPc
<1>5. bullJobId \in BOOLEAN /\ ignored \in BOOLEAN
  BY DEF Init
<1> QED
  BY <1>1, <1>2, <1>3, <1>4, <1>5 DEF Init, TypeOK

LEMMA UploadType ==
  ASSUME TypeOK, NEW u \in Uploads, UploadFile(u)
  PROVE  TypeOK'
<1> USE QueueAssumption, FaultAssumption, DocAssumption
    DEF TypeOK, QueueTypeOK, JobState, FaultKind, Operation, RecordStatus,
        UploadPc, WorkerPc, queueVars, docVars, recordVars, uploadVars,
        wikiVars, UploadGoes, UploadOnly, Strikes
<1>1. CASE Upload(u)
  BY <1>1 DEF Upload
<1>2. CASE ReadRecord(u)
  BY <1>2 DEF ReadRecord
<1>3. CASE WriteRecord(u)
  BY <1>3 DEF WriteRecord
<1>4. CASE AddDocument(u)
  BY <1>4 DEF AddDocument, AddJob
<1>5. CASE MarkRecord(u)
  BY <1>5 DEF MarkRecord
<1>6. CASE UploadThrows(u)
  BY <1>6 DEF UploadThrows
<1> QED
  BY <1>1, <1>2, <1>3, <1>4, <1>5, <1>6 DEF UploadFile

LEMMA NextType ==
  ASSUME TypeOK, [Next]_vars
  PROVE  TypeOK'
<1> USE QueueAssumption, FaultAssumption, DocAssumption
    DEF TypeOK, QueueTypeOK, JobState, FaultKind, Operation, RecordStatus,
        UploadPc, WorkerPc, queueVars, docVars, recordVars, uploadVars,
        wikiVars, WorkerGoes, WorkerOnly, Strikes
<1>1. CASE Start
  BY <1>1 DEF Start, PickUp
<1>2. CASE CheckRecord
  BY <1>2 DEF CheckRecord
<1>3. CASE Claim
  BY <1>3 DEF Claim
<1>4. CASE Compile
  BY <1>4 DEF Compile
<1>5. CASE Embed
  BY <1>5 DEF Embed
<1>6. CASE Finish
  BY <1>6 DEF Finish
<1>7. CASE Fail
  BY <1>7 DEF Fail
<1>8. CASE Settle
  BY <1>8 DEF Settle, JobReturns, JobThrows
<1>9. CASE QueryThrows
  BY <1>9 DEF QueryThrows
<1>10. CASE ServerDies
  BY <1>10 DEF ServerDies, UploadOnly
<1>11. CASE WorkerDies
  BY <1>11 DEF WorkerDies, JobsStall
<1>12. CASE Age
  BY <1>12 DEF Age
<1>13. CASE Forgotten
  BY <1>13 DEF Forgotten, Forget
<1>14. CASE UNCHANGED vars
  BY <1>14 DEF vars
<1> QED
  BY <1>1, <1>2, <1>3, <1>4, <1>5, <1>6, <1>7, <1>8, <1>9, <1>10, <1>11,
     <1>12, <1>13, <1>14, UploadType DEF Next, Process

(***************************************************************************)
(* The other parts of the invariant.                                       *)
(***************************************************************************)
LEMMA InitInvariant == Init => IInv
BY InitType, DocAssumption
   DEF Init, QueueInit, IInv, AtWork, Uploaded, Settled, Carried, Busy,
       DoneIsEmbedded

\* An upload can only queue the record, and only add a job that is not known.
LEMMA UploadStep ==
  ASSUME IInv, NEW u \in Uploads, UploadFile(u)
  PROVE  /\ record' \in {record, "queued"}
         /\ \/ jobState'[Doc] = jobState[Doc]
            \/ /\ upload[u] # "idle"
               /\ jobState[Doc] = "free" /\ jobState'[Doc] = "waiting"
         /\ content' >= content
         /\ \A v \in Uploads :
              upload'[v] # "idle" => upload[v] # "idle" \/ content' > 0
         /\ UNCHANGED <<operation, pc, compiled, embedded, claimed>>
<1> USE DocAssumption
    DEF IInv, TypeOK, QueueTypeOK, UploadGoes, UploadOnly, queueVars, docVars,
        wikiVars
<1>1. CASE Upload(u)
  BY <1>1 DEF Upload
<1>2. CASE ReadRecord(u)
  BY <1>2 DEF ReadRecord
<1>3. CASE WriteRecord(u)
  BY <1>3 DEF WriteRecord, Uploaded
<1>4. CASE AddDocument(u)
  BY <1>4 DEF AddDocument, AddJob
<1>5. CASE MarkRecord(u)
  BY <1>5 DEF MarkRecord
<1>6. CASE UploadThrows(u)
  BY <1>6 DEF UploadThrows
<1> QED
  BY <1>1, <1>2, <1>3, <1>4, <1>5, <1>6 DEF UploadFile

LEMMA UploadInvariant ==
  ASSUME IInv, TypeOK', NEW u \in Uploads, UploadFile(u)
  PROVE  IInv'
<1>1. AtWork'
  BY UploadStep DEF IInv, AtWork
<1>2. Uploaded'
  BY UploadStep DEF IInv, TypeOK, Uploaded
<1>3. Settled'
  BY UploadStep DEF IInv, Settled, Busy
<1>4. Carried'
  BY UploadStep DEF IInv, Carried, DoneIsEmbedded
<1> QED
  BY <1>1, <1>2, <1>3, <1>4 DEF IInv

LEMMA NextInvariant ==
  ASSUME IInv, TypeOK', [Next]_vars
  PROVE  IInv'
<1> USE DocAssumption
    DEF IInv, TypeOK, QueueTypeOK, AtWork, Uploaded, Settled, Carried, Busy,
        DoneIsEmbedded, WorkerPc, queueVars, docVars, recordVars, uploadVars,
        wikiVars, WorkerGoes, WorkerOnly
<1>1. CASE Start
  BY <1>1 DEF Start, PickUp
<1>2. CASE CheckRecord
  BY <1>2 DEF CheckRecord
<1>3. CASE Claim
  BY <1>3 DEF Claim
<1>4. CASE Compile
  BY <1>4 DEF Compile
<1>5. CASE Embed
  BY <1>5 DEF Embed, Operation
<1>6. CASE Finish
  BY <1>6 DEF Finish
<1>7. CASE Fail
  BY <1>7 DEF Fail
<1>8. CASE Settle
  BY <1>8 DEF Settle, JobReturns, JobThrows
<1>9. CASE QueryThrows
  BY <1>9 DEF QueryThrows
<1>10. CASE ServerDies
  BY <1>10 DEF ServerDies, UploadOnly
<1>11. CASE WorkerDies
  BY <1>11 DEF WorkerDies, JobsStall
<1>12. CASE Age
  BY <1>12 DEF Age
<1>13. CASE Forgotten
  BY <1>13 DEF Forgotten, Forget
<1>14. CASE UNCHANGED vars
  BY <1>14 DEF vars
<1> QED
  BY <1>1, <1>2, <1>3, <1>4, <1>5, <1>6, <1>7, <1>8, <1>9, <1>10, <1>11,
     <1>12, <1>13, <1>14, UploadInvariant DEF Next, Process

LEMMA Invariant == Spec => []IInv
<1>1. IInv /\ [Next]_vars => IInv'
  <2>1. IInv => TypeOK
    BY DEF IInv
  <2> QED
    BY <2>1, NextType, NextInvariant
<1> QED
  BY InitInvariant, <1>1, PTL DEF Spec

(***************************************************************************)
(* The theorems.                                                           *)
(***************************************************************************)
\* Record, queue and processor keep the types of their state.
THEOREM DocumentTypeCorrect == Spec => []TypeOK
<1>1. IInv => TypeOK
  BY DEF IInv
<1> QED
  BY <1>1, Invariant, PTL

\* The status done is set only after the file that was there when the record
\* was claimed has gone through compile and embed.
THEOREM DoneMeansEmbedded == Spec => []DoneIsEmbedded
<1>1. IInv => DoneIsEmbedded
  BY DEF IInv, Carried
<1> QED
  BY <1>1, Invariant, PTL

\* An attempt that has set the status failed does not return: BullMQ counts it
\* as failed and tries again.
THEOREM FailureReachesTheQueue == Spec => []FailedIsNotSettled
<1>1. IInv => FailedIsNotSettled
  BY DEF IInv, Settled, FailedIsNotSettled
<1> QED
  BY <1>1, Invariant, PTL

(***************************************************************************)
(* No document is left behind.                                             *)
(***************************************************************************)
\* Until a fault strikes or an added job is ignored, a running record is in the hands of an
\* attempt past its claim, and a queued one has a job that will claim it, or an upload about
\* to add one.
Smooth == ~ignored /\ faults = NoFaultYet

Tended ==
    Smooth =>
      /\ record = "running" => pc \in Busy
      /\ record = "queued" => \/ jobState[Doc] = "waiting"
                              \/ pc \in {"check", "claim"}
                              \/ \E u \in Uploads : upload[u] = "add"

\* A fault is remembered.
LEMMA FaultIsRemembered ==
  ASSUME TypeOK, NEW f \in FaultKind, Strikes(f)
  PROVE  faults' # NoFaultYet
BY DEF TypeOK, Strikes, NoFaultYet

LEMMA UploadTended ==
  ASSUME IInv, Tended, NEW u \in Uploads, UploadFile(u)
  PROVE  Tended'
<1> USE DocAssumption
    DEF IInv, TypeOK, QueueTypeOK, UploadGoes, UploadOnly, queueVars, docVars, wikiVars, Tended,
        Smooth
<1>1. CASE Upload(u)
  BY <1>1 DEF Upload
<1>2. CASE ReadRecord(u)
  BY <1>2 DEF ReadRecord
<1>3. CASE WriteRecord(u)
  BY <1>3 DEF WriteRecord
<1>4. CASE AddDocument(u)
  BY <1>4 DEF AddDocument, AddJob
<1>5. CASE MarkRecord(u)
  BY <1>5 DEF MarkRecord
<1>6. CASE UploadThrows(u)
  BY <1>6, FaultIsRemembered DEF UploadThrows, FaultKind
<1> QED
  BY <1>1, <1>2, <1>3, <1>4, <1>5, <1>6 DEF UploadFile

LEMMA NextTended ==
  ASSUME IInv, Tended, [Next]_vars
  PROVE  Tended'
<1> USE DocAssumption
    DEF IInv, TypeOK, QueueTypeOK, AtWork, Busy, queueVars, docVars, recordVars, uploadVars,
        wikiVars, WorkerGoes, WorkerOnly, Tended, Smooth
<1>1. CASE Start
  BY <1>1 DEF Start, PickUp
<1>2. CASE CheckRecord
  BY <1>2 DEF CheckRecord
<1>3. CASE Claim \/ Compile \/ Embed \/ Finish \/ Fail
  BY <1>3 DEF Claim, Compile, Embed, Finish, Fail
<1>4. CASE Settle
  BY <1>4 DEF Settle, JobReturns, JobThrows
<1>5. CASE QueryThrows \/ ServerDies \/ WorkerDies
  BY <1>5, FaultIsRemembered DEF QueryThrows, ServerDies, WorkerDies, FaultKind
<1>6. CASE Age
  BY <1>6 DEF Age
<1>7. CASE Forgotten
  BY <1>7 DEF Forgotten, Forget
<1>8. CASE UNCHANGED vars
  BY <1>8 DEF vars
<1> QED
  BY <1>1, <1>2, <1>3, <1>4, <1>5, <1>6, <1>7, <1>8, UploadTended DEF Next, Process

\* A record that is queued or running, with no upload under way and no job that BullMQ still
\* has to run, tells of a fault, or of a job ignored because its predecessor under the same
\* id had not been forgotten.
THEOREM NoDocumentLeftBehind == Spec => []NoneLeftBehind
<1>1. Init => Tended
  BY DEF Init, Tended
<1>2. IInv /\ Tended /\ [Next]_vars => Tended'
  BY NextTended
<1>3. IInv /\ Tended => NoneLeftBehind
  <2> SUFFICES ASSUME IInv, Tended, Quiet, record \in {"queued", "running"}, ~HasJob, Smooth
               PROVE  FALSE
    BY DEF NoneLeftBehind, Smooth
  <2>1. jobState[Doc] \notin {"waiting", "active"} /\ pc = "idle"
    BY DEF HasJob, IInv, AtWork
  <2>2. \A u \in Uploads : upload[u] # "add"
    BY DEF Quiet
  <2> QED
    BY <2>1, <2>2 DEF Tended, Busy
<1> QED
  BY <1>1, <1>2, <1>3, Invariant, PTL DEF Spec
=============================================================================
