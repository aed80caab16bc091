SPECIFICATION FairSpec
CONSTANTS
    NSteps = 1
    Confirm = {1}
    Toolless = {}
    MaxRetries = 1
    Approvals = {a1}
    PatchTo = {}
    MaxFaults <- WorkerCrashes
    Jobs = {j1, j2}
    Attempts = 3
    MaxStalled = 1
    Reviewers = {r1}
    Scans = {s1}
PROPERTY RunningEnds
PROPERTY JobsEnd
CHECK_DEADLOCK FALSE
