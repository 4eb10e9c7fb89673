SPECIFICATION Spec
CONSTANTS
    Room = 8
    Operands <- SomeViews
INVARIANTS
    AssignedSoFar
    StopsBeforeWriting
    SwapExchanges
    EqualMatchesIndices
    TotalOrder
CHECK_DEADLOCK FALSE
