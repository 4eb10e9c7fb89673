SPECIFICATION Spec
CONSTANTS
    Shapes <- SmallShapes
    Firsts <- FromOne
    Steps <- Halves
    Ratios <- Halves
    MaxRank = 3
    MaxRoom = 4
    MaxStride = 4
    Unchecked <- Nothing
VIEW WithoutCall
INVARIANTS
    Whole
    InBounds
    NoAlias
    TraversalMatchesIndices
    TraversalOfAnyDimension
PROPERTIES
    ImplementsGrid
CHECK_DEADLOCK FALSE
