SPECIFICATION Spec
CONSTANTS
    NSteps = 2
    Confirm = {2}
    Toolless = {}
    MaxRetries = 4
    Approvals = {a1}
    PatchTo = {"cancelled"}
    MaxFaults <- NoFaults
    Jobs = {j1, j2}
    Attempts = 3
    MaxStalled = 1
    Reviewers = {r1, r2}
    Scans = {s1}
INVARIANT GuardedCalls
INVARIANT CompletedCoversSteps
INVARIANT OneAttemptAtATime
INVARIANT PendingIsCarried
PROPERTY DecisionBeatsTimeout
PROPERTY ImplementsWorkflow
SYMMETRY Symmetry
CHECK_DEADLOCK FALSE
