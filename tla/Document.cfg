SPECIFICATION Spec
CONSTANTS
    doc = doc
    u1 = u1
    u2 = u2
    Doc = doc
    Jobs <- OneJob
    Uploads <- TwoUploads
    Attempts = 2
    MaxStalled = 1
    MaxFaults <- EachOnce
SYMMETRY Sym
INVARIANT DoneIsEmbedded
INVARIANT FailedIsNotSettled
INVARIANT NoneLeftBehind
CHECK_DEADLOCK FALSE
