------------------------------- MODULE Faults --------------------------------
(***************************************************************************)
(* Failures strike a bounded number of times, counted by kind.             *)
(***************************************************************************)
EXTENDS Naturals

\* The worker dies, the API server dies, a connection breaks, a query throws,
\* Redis refuses a job.
FaultKind == {"worker", "server", "net", "db", "redis"}

CONSTANT MaxFaults  \* how often each kind of fault may strike (bound)

ASSUME FaultAssumption == MaxFaults \in [FaultKind -> Nat]

VARIABLE faults  \* faults that have struck so far, by kind

NoFaultYet == [f \in FaultKind |-> 0]

Strikes(f) ==
    /\ faults[f] < MaxFaults[f]
    /\ faults' = [faults EXCEPT ![f] = @ + 1]
=============================================================================
