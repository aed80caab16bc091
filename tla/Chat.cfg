SPECIFICATION Spec
CONSTANTS
    Requests = {r1}
    Errands = {e1}
    Reviews = {v1}
    Updates = {"active", "pending_confirm"}
    None = None
    MaxFaults <- OneFault
INVARIANT TypeOK
INVARIANT RunsAreGranted
INVARIANT ParkedHasApproval
PROPERTY ParkedIsReleased
PROPERTY ApprovedIsCarried
CHECK_DEADLOCK FALSE
