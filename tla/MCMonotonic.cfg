SPECIFICATION Spec
CONSTANTS
  Start = 3
  Size = 8
  Sizes = {1, 2, 3}
  Aligns = {1, 2, 4}
  Foreign <- MCForeign
INVARIANTS MonotonicTypeOK BehindPosition
PROPERTY ImplementsResource
