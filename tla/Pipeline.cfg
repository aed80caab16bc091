SPECIFICATION Spec
CONSTANTS
    a = a
    b = b
    w = w
    x = x
    y = y
    c1 = c1
    c2 = c2
    NoTool = NoTool
    Tools <- MCTools
    Tables <- MCTables
    Clauses <- MCClauses
    Configs <- Families
    Diagrams <- MCDiagrams
    RuleLists <- MCRuleLists
    MaxEdits = 1
    MaxFaults <- OneQueryFails
INVARIANT TypeOK
INVARIANT RoutedByBestRule
INVARIANT UnaskedAreCleared
INVARIANT RightTools
INVARIANT StepsRunInSequence
INVARIANT WorkflowTaskSettles
INVARIANT ListedTablesAreConfined
CHECK_DEADLOCK FALSE
