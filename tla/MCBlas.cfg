SPECIFICATION Spec
CONSTANTS
    Ranges <- OneToThree
    Pads <- NoneOrOne
    Unchecked <- Nothing
INVARIANTS
    Computes
    NeverRefused
    ServesRows
CHECK_DEADLOCK FALSE
