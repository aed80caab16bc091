SPECIFICATION Spec
CONSTANTS
    orders = orders
    x = x
    y = y
    Tables <- MCTables
    Columns <- MCColumns
    None = None
    Requests = {r1, r2}
    Poller = poller
    NoDiagram = NoDiagram
    Drafts <- MCDrafts
    Known <- MCKnown
    Ideas <- MCIdeas
    MaxOps = 3
    MaxFaults <- OneRestart
INVARIANT PublishedIsVouched
PROPERTY GenerationEnds
CHECK_DEADLOCK FALSE
