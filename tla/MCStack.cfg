SPECIFICATION Spec
CONSTANTS
  Start = 3
  Size = 8
  Sizes = {1, 2, 3}
  Aligns = {1, 2, 4}
  Foreign <- MCForeign
  MaxRequested = 7
INVARIANTS TypeOK LiveApart PositionsMatch
PROPERTIES ViolationNeedsOlderBlock ImplementsResource
CHECK_DEADLOCK FALSE
