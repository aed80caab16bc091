---------------------------- MODULE MCTaskSystem -----------------------------
(***************************************************************************)
(* Instances of TaskSystem for TLC: fault budgets and symmetry.            *)
(***************************************************************************)
EXTENDS TaskSystem, TLC

NoFaults == [f \in FaultKind |-> 0]

\* Each kind of fault once, and a second death of the worker, which exhausts
\* the one redelivery BullMQ grants a stalled job.
EveryFault == [f \in FaultKind |-> IF f = "worker" THEN 2 ELSE 1]

WorkerCrashes == [NoFaults EXCEPT !["worker"] = 2]

\* Jobs, reviews and approvals are interchangeable in every formula checked
\* with these configurations.
Symmetry ==
    Permutations(Jobs) \cup Permutations(Reviewers) \cup Permutations(Approvals)
=============================================================================
