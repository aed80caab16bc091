SPECIFICATION Spec
CONSTANTS
    NSteps = 1
    Confirm = {1}
    Toolless = {}
    MaxRetries = 3
    Approvals = {a1}
    PatchTo = {}
    MaxFaults <- NoFaults
    Jobs = {j1, j2}
    Attempts = 3
    MaxStalled = 1
    Reviewers = {r1}
    Scans = {}
INVARIANT ParkedAwaitsReview
CHECK_DEADLOCK FALSE
