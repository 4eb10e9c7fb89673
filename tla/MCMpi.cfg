SPECIFICATION Spec
CONSTANTS
    Processes = 3
    Extents <- Matrices
    Programs <- AllPrograms
    MaxCalls = 2
    Ragged = FALSE
INVARIANTS
    SharesOfWhole
    NoDeadlock
PROPERTY
    Finishes
CHECK_DEADLOCK FALSE
