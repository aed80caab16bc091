SPECIFICATION Spec
CONSTANTS
    NSteps = 2
    Confirm = {2}
    Toolless = {1}
    MaxRetries = 2
    Approvals = {a1}
    PatchTo = {"running"}
    MaxFaults <- EveryFault
    Jobs = {j1}
    Attempts = 3
    MaxStalled = 1
    Reviewers = {r1}
    Scans = {s1}
INVARIANT TypeOK
INVARIANT StepOrder
INVARIANT RunningIsVisible
INVARIANT RetriesBounded
CHECK_DEADLOCK FALSE
