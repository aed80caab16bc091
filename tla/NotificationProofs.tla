------------------------- MODULE NotificationProofs --------------------------
(***************************************************************************)
(* Theorems of Notification, for any number of jobs, events and faults.    *)
(*                                                                         *)
(* A message whose deliveries already exceed the faults must never be sent *)
(* again.  Repeatable says when it could be, and the invariant bounds the  *)
(* deliveries of a repeatable message by the faults.  A message about a    *)
(* task is settled by the task's log, one about an approval alone by its   *)
(* job, which is added once.                                               *)
(***************************************************************************)
EXTENDS Notification, TLAPS

Blamed == faults["worker"] + faults["net"] + faults["db"]

Sent(j) == result[j] = "sent"

\* Every event of the job id has been announced.
Exhausted(j) == \A e \in Events : Topic[e] = j => e \in announced

\* Nothing keeps the message of the job from being sent once more.
Repeatable(j) ==
    IF j \in AboutTask
    THEN j \notin logged /\ ~(pc[j] = "log" /\ Sent(j))
    ELSE ~ \/ pc[j] = "settle" /\ Sent(j)
           \/ jobState[j] = "completed"
           \/ jobState[j] = "free" /\ Exhausted(j)

\* The processor is at work on the active jobs.
AtWork(j) == pc[j] # "idle" <=> jobState[j] = "active"

\* Where the processor can be with a message.
Placed(j) ==
    /\ pc[j] = "send" => j \notin logged
    /\ pc[j] = "log" => j \in AboutTask

\* The one event of an approval without a task is announced before its job is added.
AddedOnce(j) == j \notin AboutTask /\ jobState[j] # "free" => Exhausted(j)

\* Deliveries and the faults to blame for them.
Accounted(j) ==
    /\ delivered[j] <= 1 + Blamed
    /\ Repeatable(j) => delivered[j] <= Blamed

\* What is taken as sent was delivered.
Justified(j) ==
    /\ Sent(j) => delivered[j] > 0
    /\ j \in logged => delivered[j] > 0
    /\ jobState[j] = "completed" => delivered[j] > 0

Sound(j) ==
    AtWork(j) /\ Placed(j) /\ AddedOnce(j) /\ Accounted(j) /\ Justified(j)

IInv == TypeOK /\ \A j \in Jobs : Sound(j)

(***************************************************************************)
(* Type correctness.                                                       *)
(***************************************************************************)
LEMMA InitType == Init => TypeOK
BY DEF Init, TypeOK, QueueInit, QueueTypeOK, JobState, NoFaultYet, FaultKind, NotifyPc

LEMMA NextType ==
  ASSUME IInv, [Next]_vars
  PROVE  TypeOK'
<1> USE QueueAssumption, FaultAssumption, TopicAssumption
    DEF IInv, TypeOK, QueueTypeOK, queueVars, notifyVars, JobState,
        FaultKind, NotifyPc, Goes, Strikes
<1>1. ASSUME NEW e \in Events, Announce(e)
      PROVE  TypeOK'
  BY <1>1 DEF Announce, AddJob
<1>2. ASSUME NEW e \in Events, AnnounceThrows(e)
      PROVE  TypeOK'
  BY <1>2 DEF AnnounceThrows
<1>3. ASSUME NEW j \in Jobs, Start(j)
      PROVE  TypeOK'
  BY <1>3 DEF Start, PickUp
<1>4. ASSUME NEW j \in Jobs, CheckSent(j)
      PROVE  TypeOK'
  <2>1. pc' \in [Jobs -> NotifyPc]
    BY <1>4 DEF CheckSent
  <2>2. jobState' \in [Jobs -> JobState]
    BY <1>4 DEF CheckSent, JobReturns
  <2> QED
    BY <1>4, <2>1, <2>2 DEF CheckSent, JobReturns
<1>5. ASSUME NEW j \in Jobs, Send(j)
      PROVE  TypeOK'
  <2>1. delivered' \in [Jobs -> Nat]
    BY <1>5 DEF Send, Delivers
  <2>2. /\ pc' \in [Jobs -> NotifyPc]
        /\ result' \in [Jobs -> {"sent", "failed"}]
    BY <1>5 DEF Send
  <2> QED
    BY <1>5, <2>1, <2>2 DEF Send
<1>6. ASSUME NEW j \in Jobs, SendUnanswered(j)
      PROVE  TypeOK'
  <2>1. delivered' \in [Jobs -> Nat]
    BY <1>6 DEF SendUnanswered, Delivers
  <2>2. /\ pc' \in [Jobs -> NotifyPc]
        /\ result' \in [Jobs -> {"sent", "failed"}]
        /\ faults' \in [FaultKind -> Nat]
    BY <1>6 DEF SendUnanswered
  <2> QED
    BY <1>6, <2>1, <2>2 DEF SendUnanswered
<1>7. ASSUME NEW j \in Jobs, Log(j)
      PROVE  TypeOK'
  BY <1>7 DEF Log, Sound, Placed
<1>8. ASSUME NEW j \in Jobs, Settle(j)
      PROVE  TypeOK'
  BY <1>8 DEF Settle, JobReturns, JobThrows
<1>9. ASSUME NEW j \in Jobs, QueryThrows(j)
      PROVE  TypeOK'
  BY <1>9 DEF QueryThrows, JobThrows
<1>10. ASSUME NEW j \in Jobs, Forgotten(j)
       PROVE  TypeOK'
  BY <1>10 DEF Forgotten, Forget
<1>11. CASE WorkerDies
  BY <1>11 DEF WorkerDies, JobsStall
<1>12. CASE UNCHANGED vars
  BY <1>12 DEF vars
<1> QED
  BY <1>1, <1>2, <1>3, <1>4, <1>5, <1>6, <1>7, <1>8, <1>9, <1>10, <1>11,
     <1>12 DEF Next, Process

(***************************************************************************)
(* Soundness of the deliveries.                                            *)
(***************************************************************************)
\* What the soundness of a job reads of it is as it was.
Same(j) ==
    /\ pc'[j] = pc[j]
    /\ jobState'[j] = jobState[j]
    /\ result'[j] = result[j]
    /\ delivered'[j] = delivered[j]
    /\ j \in logged' <=> j \in logged

\* Faults and announcements only grow.
Grows == Blamed <= Blamed' /\ announced \subseteq announced'

LEMMA SameStaysSound ==
  ASSUME TypeOK, TypeOK', Grows, NEW j \in Jobs, Same(j), Sound(j)
  PROVE  Sound(j)'
<1> DEFINE F == Blamed
<1>1. F \in Nat /\ F' \in Nat /\ delivered[j] \in Nat
  BY DEF TypeOK, FaultKind, Blamed
<1>2. AtWork(j)' /\ Placed(j)' /\ AddedOnce(j)' /\ Justified(j)'
  BY DEF Sound, Same, Grows, AtWork, Placed, AddedOnce, Exhausted, Justified, Sent
<1>3. Repeatable(j)' => Repeatable(j)
  BY DEF Same, Grows, Repeatable, Exhausted, Sent
<1>4. Accounted(j)'
  BY <1>1, <1>3 DEF Sound, Same, Grows, Accounted
<1> QED
  BY <1>2, <1>4 DEF Sound

LEMMA InitSound == Init => \A j \in Jobs : Sound(j)
BY DEF Init, QueueInit, NoFaultYet, FaultKind, Sound, AtWork, Placed, AddedOnce,
       Accounted, Blamed, Repeatable, Justified, Sent

LEMMA NextSound ==
  ASSUME IInv, [Next]_vars, TypeOK'
  PROVE  \A j \in Jobs : Sound(j)'
<1> USE DEF queueVars, notifyVars, Goes
<1>1. ASSUME NEW e \in Events, Announce(e)
      PROVE  \A j \in Jobs : Sound(j)'
  <2> DEFINE t == Topic[e]
  <2>1. t \in Jobs /\ Sound(t)
    BY TopicAssumption DEF IInv
  <2>2. Grows /\ Blamed' = Blamed
    BY <1>1 DEF Announce, Grows, Blamed, IInv, TypeOK, FaultKind
  <2>3. \A j \in Jobs \ {t} : Same(j)
    BY <1>1 DEF Announce, AddJob, Same, IInv, TypeOK, QueueTypeOK
  <2>4. CASE jobState[t] # "free"
    BY <1>1, <2>2, <2>3, <2>4, SameStaysSound
       DEF Announce, AddJob, Same, IInv, TypeOK, QueueTypeOK
  <2>5. CASE jobState[t] = "free"
    <3>1. /\ jobState'[t] = "waiting"
          /\ pc'[t] = pc[t] /\ result'[t] = result[t]
          /\ delivered'[t] = delivered[t] /\ logged' = logged
      BY <1>1, <2>1, <2>5 DEF Announce, AddJob, IInv, TypeOK, QueueTypeOK
    <3>2. t \notin AboutTask => ~ Exhausted(t) /\ Exhausted(t)'
      BY <1>1, <2>1, TopicAssumption DEF Announce, Exhausted
    <3>3. pc[t] = "idle"
      BY <2>1, <2>5 DEF Sound, AtWork
    <3>4. AtWork(t)' /\ Placed(t)' /\ AddedOnce(t)' /\ Justified(t)'
      BY <2>1, <2>5, <3>1, <3>2, <3>3
         DEF Sound, AtWork, Placed, AddedOnce, Justified, Sent
    <3>5. Repeatable(t)' => Repeatable(t)
      BY <2>5, <3>1, <3>2, <3>3 DEF Repeatable, Sent
    <3>6. Accounted(t)'
      BY <2>1, <2>2, <3>1, <3>5 DEF Sound, Accounted
    <3> QED
      BY <2>2, <2>3, <3>4, <3>6, SameStaysSound DEF Sound, IInv
  <2> QED
    BY <2>4, <2>5
<1>2. ASSUME NEW e \in Events, AnnounceThrows(e)
      PROVE  \A j \in Jobs : Sound(j)'
  <2>1. Grows
    BY <1>2 DEF AnnounceThrows, Strikes, Grows, Blamed, IInv, TypeOK, FaultKind
  <2>2. \A j \in Jobs : Same(j)
    BY <1>2 DEF AnnounceThrows, Same
  <2> QED
    BY <2>1, <2>2, SameStaysSound DEF IInv
<1>3. ASSUME NEW j \in Jobs, Start(j)
      PROVE  \A k \in Jobs : Sound(k)'
  <2>1. Grows /\ Blamed' = Blamed
    BY <1>3 DEF Start, Grows, Blamed, IInv, TypeOK, FaultKind
  <2>2. \A k \in Jobs \ {j} : Same(k)
    BY <1>3 DEF Start, PickUp, Same, IInv, TypeOK, QueueTypeOK
  <2>3. /\ jobState[j] = "waiting" /\ jobState'[j] = "active"
        /\ pc'[j] = "check"
        /\ UNCHANGED <<result, logged, delivered, announced>>
    BY <1>3 DEF Start, PickUp, IInv, TypeOK, QueueTypeOK
  <2>4. Sound(j) /\ pc[j] = "idle"
    BY <2>3 DEF IInv, Sound, AtWork
  <2>5. Sound(j)'
    BY <2>1, <2>3, <2>4
       DEF Sound, AtWork, Placed, AddedOnce, Exhausted, Accounted, Repeatable,
           Justified, Sent
  <2> QED
    BY <2>1, <2>2, <2>5, SameStaysSound DEF IInv
<1>4. ASSUME NEW j \in Jobs, CheckSent(j)
      PROVE  \A k \in Jobs : Sound(k)'
  <2>1. Grows /\ Blamed' = Blamed
    BY <1>4 DEF CheckSent, Grows, Blamed, Strikes, IInv, TypeOK, FaultKind
  <2>2. \A k \in Jobs \ {j} : Same(k)
    BY <1>4 DEF CheckSent, JobReturns, Same, IInv, TypeOK, QueueTypeOK
  <2>3. /\ pc[j] = "check"
        /\ \/ j \in logged /\ jobState'[j] = "completed" /\ pc'[j] = "idle"
           \/ j \notin logged /\ jobState'[j] = jobState[j] /\ pc'[j] = "send"
        /\ UNCHANGED <<result, logged, delivered, announced>>
    BY <1>4 DEF CheckSent, JobReturns, IInv, TypeOK, QueueTypeOK
  <2>4. Sound(j) /\ jobState[j] = "active"
    BY <2>3 DEF IInv, Sound, AtWork, Placed
  <2>5. Sound(j)'
    BY <2>1, <2>3, <2>4
       DEF IInv, TypeOK, Blamed, FaultKind, Sound, AtWork, Placed, AddedOnce,
           Exhausted, Accounted, Repeatable, Justified, Sent
  <2> QED
    BY <2>1, <2>2, <2>5, SameStaysSound DEF IInv
<1>5. ASSUME NEW j \in Jobs, Send(j)
      PROVE  \A k \in Jobs : Sound(k)'
  <2>1. Grows /\ Blamed' = Blamed
    BY <1>5 DEF Send, Grows, Blamed, Strikes, IInv, TypeOK, FaultKind
  <2>2. \A k \in Jobs \ {j} : Same(k)
    BY <1>5 DEF Send, Delivers, Same, IInv, TypeOK, QueueTypeOK
  <2>3. /\ pc[j] = "send"
        /\ pc'[j] = IF j \in AboutTask THEN "log" ELSE "settle"
        /\ \/ result'[j] = "sent" /\ delivered'[j] = delivered[j] + 1
           \/ result'[j] = "failed" /\ delivered'[j] = delivered[j]
        /\ UNCHANGED <<jobState, logged, announced>>
    BY <1>5 DEF Send, Delivers, IInv, TypeOK, QueueTypeOK
  <2>4. Sound(j) /\ jobState[j] = "active" /\ j \notin logged
    BY <2>3 DEF IInv, Sound, AtWork, Placed
  <2>5. Sound(j)'
    BY <2>1, <2>3, <2>4
       DEF IInv, TypeOK, Blamed, FaultKind, Sound, AtWork, Placed, AddedOnce,
           Exhausted, Accounted, Repeatable, Justified, Sent
  <2> QED
    BY <2>1, <2>2, <2>5, SameStaysSound DEF IInv
<1>6. ASSUME NEW j \in Jobs, SendUnanswered(j)
      PROVE  \A k \in Jobs : Sound(k)'
  <2>1. Grows /\ Blamed' = Blamed + 1
    BY <1>6 DEF SendUnanswered, Grows, Blamed, Strikes, IInv, TypeOK, FaultKind
  <2>2. \A k \in Jobs \ {j} : Same(k)
    BY <1>6 DEF SendUnanswered, Delivers, Same, IInv, TypeOK, QueueTypeOK
  <2>3. /\ pc[j] = "send"
        /\ pc'[j] = IF j \in AboutTask THEN "log" ELSE "settle"
        /\ result'[j] = "failed" /\ delivered'[j] = delivered[j] + 1
        /\ UNCHANGED <<jobState, logged, announced>>
    BY <1>6 DEF SendUnanswered, Delivers, IInv, TypeOK, QueueTypeOK
  <2>4. Sound(j) /\ jobState[j] = "active" /\ j \notin logged
    BY <2>3 DEF IInv, Sound, AtWork, Placed
  <2>5. Sound(j)'
    BY <2>1, <2>3, <2>4
       DEF IInv, TypeOK, Blamed, FaultKind, Sound, AtWork, Placed, AddedOnce,
           Exhausted, Accounted, Repeatable, Justified, Sent
  <2> QED
    BY <2>1, <2>2, <2>5, SameStaysSound DEF IInv
<1>7. ASSUME NEW j \in Jobs, Log(j)
      PROVE  \A k \in Jobs : Sound(k)'
  <2>1. Grows /\ Blamed' = Blamed
    BY <1>7 DEF Log, Grows, Blamed, Strikes, IInv, TypeOK, FaultKind
  <2>2. \A k \in Jobs \ {j} : Same(k)
    BY <1>7 DEF Log, Same, IInv, TypeOK, QueueTypeOK
  <2>3. /\ pc[j] = "log" /\ pc'[j] = "settle"
        /\ j \in logged' <=> j \in logged \/ Sent(j)
        /\ UNCHANGED <<jobState, result, delivered, announced>>
    BY <1>7 DEF Log, Sent, IInv, TypeOK, QueueTypeOK
  <2>4. Sound(j) /\ jobState[j] = "active" /\ j \in AboutTask
    BY <2>3 DEF IInv, Sound, AtWork, Placed
  <2>5. Sound(j)'
    BY <2>1, <2>3, <2>4
       DEF IInv, TypeOK, Blamed, FaultKind, Sound, AtWork, Placed, AddedOnce,
           Exhausted, Accounted, Repeatable, Justified, Sent
  <2> QED
    BY <2>1, <2>2, <2>5, SameStaysSound DEF IInv
<1>8. ASSUME NEW j \in Jobs, Settle(j)
      PROVE  \A k \in Jobs : Sound(k)'
  <2>1. Grows /\ Blamed' = Blamed
    BY <1>8 DEF Settle, Grows, Blamed, Strikes, IInv, TypeOK, FaultKind
  <2>2. \A k \in Jobs \ {j} : Same(k)
    BY <1>8 DEF Settle, JobReturns, JobThrows, Same, IInv, TypeOK, QueueTypeOK
  <2>3. /\ pc[j] = "settle" /\ pc'[j] = "idle"
        /\ IF Sent(j) THEN jobState'[j] = "completed"
                     ELSE jobState'[j] \in {"waiting", "failed"}
        /\ UNCHANGED <<result, logged, delivered, announced>>
    BY <1>8 DEF Settle, JobReturns, JobThrows, Sent, IInv, TypeOK, QueueTypeOK
  <2>4. Sound(j) /\ jobState[j] = "active"
    BY <2>3 DEF IInv, Sound, AtWork, Placed
  <2>5. Sound(j)'
    BY <2>1, <2>3, <2>4
       DEF IInv, TypeOK, Blamed, FaultKind, Sound, AtWork, Placed, AddedOnce,
           Exhausted, Accounted, Repeatable, Justified, Sent
  <2> QED
    BY <2>1, <2>2, <2>5, SameStaysSound DEF IInv
<1>9. ASSUME NEW j \in Jobs, QueryThrows(j)
      PROVE  \A k \in Jobs : Sound(k)'
  <2>1. Grows /\ Blamed' = Blamed + 1
    BY <1>9 DEF QueryThrows, Grows, Blamed, Strikes, IInv, TypeOK, FaultKind
  <2>2. \A k \in Jobs \ {j} : Same(k)
    BY <1>9 DEF QueryThrows, JobThrows, Same, IInv, TypeOK, QueueTypeOK
  <2>3. /\ pc[j] \in {"check", "send", "log"} /\ pc'[j] = "idle"
        /\ jobState'[j] \in {"waiting", "failed"}
        /\ UNCHANGED <<result, logged, delivered, announced>>
    BY <1>9 DEF QueryThrows, JobThrows, IInv, TypeOK, QueueTypeOK
  <2>4. Sound(j) /\ jobState[j] = "active"
    BY <2>3 DEF IInv, Sound, AtWork, Placed
  <2>5. Sound(j)'
    BY <2>1, <2>3, <2>4
       DEF IInv, TypeOK, Blamed, FaultKind, Sound, AtWork, Placed, AddedOnce,
           Exhausted, Accounted, Repeatable, Justified, Sent
  <2> QED
    BY <2>1, <2>2, <2>5, SameStaysSound DEF IInv
<1>10. ASSUME NEW j \in Jobs, Forgotten(j)
      PROVE  \A k \in Jobs : Sound(k)'
  <2>1. Grows /\ Blamed' = Blamed
    BY <1>10 DEF Forgotten, Grows, Blamed, Strikes, IInv, TypeOK, FaultKind
  <2>2. \A k \in Jobs \ {j} : Same(k)
    BY <1>10 DEF Forgotten, Forget, Same, IInv, TypeOK, QueueTypeOK
  <2>3. /\ jobState[j] \in {"completed", "failed"} /\ jobState'[j] = "free"
        /\ UNCHANGED <<pc, result, logged, delivered, announced>>
    BY <1>10 DEF Forgotten, Forget, IInv, TypeOK, QueueTypeOK
  <2>4. Sound(j) /\ pc[j] = "idle"
    BY <2>3 DEF IInv, Sound, AtWork, Placed
  <2>5. Sound(j)'
    BY <2>1, <2>3, <2>4
       DEF IInv, TypeOK, Blamed, FaultKind, Sound, AtWork, Placed, AddedOnce,
           Exhausted, Accounted, Repeatable, Justified, Sent
  <2> QED
    BY <2>1, <2>2, <2>5, SameStaysSound DEF IInv
<1>11. ASSUME WorkerDies
       PROVE  \A k \in Jobs : Sound(k)'
  <2>1. Grows /\ Blamed' = Blamed + 1
    BY <1>11 DEF WorkerDies, Grows, Blamed, Strikes, IInv, TypeOK, FaultKind
  <2> SUFFICES ASSUME NEW k \in Jobs
               PROVE  Sound(k)'
    OBVIOUS
  <2>2. /\ pc'[k] = "idle"
        /\ IF jobState[k] = "active" THEN jobState'[k] \in {"waiting", "failed"}
                                     ELSE jobState'[k] = jobState[k]
        /\ UNCHANGED <<result, logged, delivered, announced>>
    BY <1>11 DEF WorkerDies, JobsStall, IInv, TypeOK, QueueTypeOK
  <2> QED
    BY <2>1, <2>2
       DEF IInv, TypeOK, Blamed, FaultKind, Sound, AtWork, Placed, AddedOnce,
           Exhausted, Accounted, Repeatable, Justified, Sent
<1>12. CASE UNCHANGED vars
  <2>1. Grows /\ \A j \in Jobs : Same(j)
    BY <1>12 DEF vars, Grows, Same, Blamed, IInv, TypeOK, FaultKind
  <2> QED
    BY <2>1, SameStaysSound DEF IInv
<1> QED
  BY <1>1, <1>2, <1>3, <1>4, <1>5, <1>6, <1>7, <1>8, <1>9, <1>10, <1>11,
     <1>12 DEF Next, Process

LEMMA Invariant == Spec => []IInv
<1>1. Init => IInv
  BY InitType, InitSound DEF IInv
<1>2. IInv /\ [Next]_vars => IInv'
  BY NextType, NextSound DEF IInv
<1> QED
  BY <1>1, <1>2, PTL DEF Spec

(***************************************************************************)
(* The theorems.                                                           *)
(***************************************************************************)
\* NotificationProcessor and its queue keep the types of their state.
THEOREM NotificationTypeCorrect == Spec => []TypeOK
<1>1. IInv => TypeOK
  BY DEF IInv
<1> QED
  BY <1>1, Invariant, PTL

\* Job id and task log together: every delivery of a message beyond the first
\* is accounted for by a fault between a delivery and its record.
THEOREM DuplicatesAreBlamed == Spec => []DuplicatesNeedFaults
<1>1. IInv => DuplicatesNeedFaults
  BY DEF IInv, Sound, Accounted, Blamed, DuplicatesNeedFaults, TypeOK, FaultKind
<1> QED
  BY <1>1, Invariant, PTL

\* process returns without throwing only if the message was delivered, now or
\* by an earlier attempt.
THEOREM CompletionMeansDelivery == Spec => []CompletedIsDelivered
<1>1. IInv => CompletedIsDelivered
  BY DEF IInv, Sound, Justified, CompletedIsDelivered
<1> QED
  BY <1>1, Invariant, PTL
=============================================================================
