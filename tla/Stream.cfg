SPECIFICATION Spec
CONSTANTS
    Messages = {m1, m2}
    MaxFaults <- OneBreak
INVARIANT AnswersFollow
INVARIANT AnswersAreSeen
INVARIANT ConfirmationsAreSeen
SYMMETRY Symmetry
CHECK_DEADLOCK FALSE
