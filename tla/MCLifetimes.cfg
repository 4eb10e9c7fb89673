SPECIFICATION Spec
CONSTANTS
    Room = 6
    Totals <- SomeTotals
    RowLists <- EvenRows
    Unchecked <- Nothing
INVARIANTS
    ElementsLiveOnce
    OnlyWholeRowsStay
