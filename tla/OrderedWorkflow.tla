--------------------------- MODULE OrderedWorkflow ---------------------------
(***************************************************************************)
(* What the pipeline promises about one workflow task, whatever jobs,      *)
(* reviews, scans and failures do to it: tools run in the configured       *)
(* order, each after all the steps before it have succeeded; a tool that   *)
(* needs confirmation runs only once somebody has approved; a step is      *)
(* recorded completed only if its tool ran; and the task is recorded       *)
(* completed only when every step created for it has been.                 *)
(***************************************************************************)
EXTENDS Naturals

CONSTANTS
    NSteps,    \* steps of the workflow
    Confirm,   \* those that need an approval
    Toolless   \* those that run no tool

VARIABLES
    created,   \* the steps created for the task
    called,    \* the steps whose tool has run at least once
    done,      \* the steps once recorded completed
    approved,  \* somebody has approved
    complete   \* the task is recorded completed

vars == <<created, called, done, approved, complete>>

Steps == 1..NSteps
Before(k) == 1..(k - 1)

Init ==
    /\ created = {}
    /\ called = {}
    /\ done = {}
    /\ ~approved
    /\ ~complete

Create(k) ==
    /\ Before(k) \subseteq created
    /\ done = {}
    /\ created' = created \cup {k}
    /\ UNCHANGED <<called, done, approved, complete>>

Approve ==
    /\ approved'
    /\ UNCHANGED <<created, called, done, complete>>

Invoke(k) ==
    /\ k \in created
    /\ Before(k) \subseteq done
    /\ k \in Confirm => approved
    /\ called' = called \cup {k}
    /\ UNCHANGED <<created, done, approved, complete>>

Record(k) ==
    /\ k \in called \cup Toolless
    /\ Before(k) \subseteq done
    /\ done' = done \cup {k}
    /\ UNCHANGED <<created, called, approved, complete>>

Complete ==
    /\ created \subseteq done
    /\ complete'
    /\ UNCHANGED <<created, called, done, approved>>

\* Another process overwrites the status.
Revoke ==
    /\ ~complete'
    /\ UNCHANGED <<created, called, done, approved>>

Next ==
    \/ \E k \in Steps : Create(k) \/ Invoke(k) \/ Record(k)
    \/ Approve
    \/ Complete
    \/ Revoke

Spec == Init /\ [][Next]_vars
=============================================================================
