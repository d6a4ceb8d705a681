CONSTANTS
    p1 = p1
    p2 = p2
    Process <- MCProcess
    N = 4
    Needs <- MCNeeds
    Paired <- MCPaired
    MaxVersion = 2
    MaxChanges = 2

SPECIFICATION Spec

SYMMETRY MCSymmetry

INVARIANTS
    RecordIsSchema
    HistoryWhole

PROPERTIES
    ImplementsHistory
