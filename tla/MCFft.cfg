SPECIFICATION Spec
CONSTANTS
    Period = 6
    Shapes <- Sizes123
    Kinds <- AllKinds
    Room = 24
    Beyond <- AnyByte
    Unchecked <- Nothing
INVARIANTS
    Computes
    ServesAlike
PROPERTY
    Terminates
CHECK_DEADLOCK FALSE
