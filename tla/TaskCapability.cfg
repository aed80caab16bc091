SPECIFICATION FairSpec
CONSTANTS
    NSteps = 0
    Confirm = {}
    Toolless = {}
    MaxRetries = 2
    Approvals = {a1}
    PatchTo = {}
    MaxFaults <- NoFaults
    Jobs = {j1}
    Attempts = 3
    MaxStalled = 1
    Reviewers = {r1}
    Scans = {s1}
PROPERTY PendingLeaves
CHECK_DEADLOCK FALSE
