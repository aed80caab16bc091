------------------------------ MODULE BullQueue ------------------------------
(***************************************************************************)
(* A BullMQ queue as the queues of the job worker use it: a job whose      *)
(* attempt throws is retried until its attempts are used up; a job whose   *)
(* worker died is handed out again once, and fails when it stalls again    *)
(* (maxStalledCount); a job added under an id that the queue still knows   *)
(* is ignored.                                                             *)
(***************************************************************************)
EXTENDS Naturals, FiniteSets

CONSTANTS
    Jobs,        \* job ids
    Attempts,    \* attempts option of queue.add
    MaxStalled   \* BullMQ's maxStalledCount (default 1)

ASSUME QueueAssumption ==
    /\ Attempts \in Nat \ {0}
    /\ MaxStalled \in Nat

\* "free": the queue has no job of this id; "waiting" includes the delay
\* before a retry.
JobState == {"free", "waiting", "active", "completed", "failed"}

VARIABLES
    jobState,      \* where BullMQ keeps the job
    attemptsMade,  \* failed attempts of the job
    stalled        \* times the job was found stalled

queueVars == <<jobState, attemptsMade, stalled>>

QueueTypeOK ==
    /\ jobState \in [Jobs -> JobState]
    /\ attemptsMade \in [Jobs -> Nat]
    /\ stalled \in [Jobs -> Nat]

QueueInit ==
    /\ jobState = [j \in Jobs |-> "free"]
    /\ attemptsMade = [j \in Jobs |-> 0]
    /\ stalled = [j \in Jobs |-> 0]

\* queue.add.
AddJob(j) ==
    /\ jobState' = [jobState EXCEPT ![j] = IF @ = "free" THEN "waiting" ELSE @]
    /\ UNCHANGED <<attemptsMade, stalled>>

PickUp(j) ==
    /\ jobState[j] = "waiting"
    /\ jobState' = [jobState EXCEPT ![j] = "active"]
    /\ UNCHANGED <<attemptsMade, stalled>>

\* The processor returned: the job is completed, whatever it returned.
JobReturns(j) ==
    /\ jobState' = [jobState EXCEPT ![j] = "completed"]
    /\ UNCHANGED <<attemptsMade, stalled>>

\* The processor threw: a retry, unless the attempts are used up.
JobThrows(j) ==
    /\ attemptsMade' = [attemptsMade EXCEPT ![j] = @ + 1]
    /\ jobState' = [jobState EXCEPT ![j] =
                      IF attemptsMade[j] + 1 < Attempts THEN "waiting"
                                                        ELSE "failed"]
    /\ UNCHANGED stalled

\* The locks of the active jobs run out: each goes back to waiting, or fails
\* when it has stalled too often.
JobsStall ==
    /\ jobState' = [j \in Jobs |->
                      IF jobState[j] # "active" THEN jobState[j]
                      ELSE IF stalled[j] < MaxStalled THEN "waiting"
                      ELSE "failed"]
    /\ stalled' = [j \in Jobs |->
                     IF jobState[j] = "active" THEN stalled[j] + 1
                                               ELSE stalled[j]]
    /\ UNCHANGED attemptsMade

\* removeOnComplete, removeOnFail: the queue forgets a job that is over, once
\* enough others have followed.
Forget(j) ==
    /\ jobState[j] \in {"completed", "failed"}
    /\ jobState' = [jobState EXCEPT ![j] = "free"]
    /\ attemptsMade' = [attemptsMade EXCEPT ![j] = 0]
    /\ stalled' = [stalled EXCEPT ![j] = 0]
=============================================================================
