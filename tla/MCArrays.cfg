SPECIFICATION Spec
CONSTANTS
    Arrays = {a1, a2}
    Temp = temp
    Standard = standard
    Pool = pool
    One = e1
    Programs <- BothPrograms
    Blocks = {p1, p2, p3}
    Null = null
    Default = e0
    Shapes <- Squares
    Firsts <- ZeroFirst
    MaxRows = 2
    Throwing <- Everything
    Unchecked <- RowsAlone
SYMMETRY Symmetry
VIEW WithoutDangling
INVARIANTS
    ArraysTypeOK
    Owned
    LostInConstructionOnly
PROPERTY
    ImplementsValues
CHECK_DEADLOCK FALSE
