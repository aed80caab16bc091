SPECIFICATION FairSpec
CONSTANTS
    Events <- AllEvents
    Jobs <- AllJobs
    Topic <- JobIds
    AboutTask <- TaskJobs
    Attempts = 3
    MaxStalled = 1
    MaxFaults <- EachOnce
INVARIANT DuplicatesNeedFaults
INVARIANT CompletedIsDelivered
PROPERTY AnnouncementsSettle
CHECK_DEADLOCK FALSE
