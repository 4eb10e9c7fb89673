SPECIFICATION Spec
CONSTANTS
    Ranges <- Two
    Pads <- NoneOrOne
    Unchecked <- GemmAlone
INVARIANTS
    TransposedIntoTransposed
CHECK_DEADLOCK FALSE
