SPECIFICATION Spec
CONSTANTS
  Arrays <- MCArrays
  Length <- MCLength
  Kind <- MCKind
  Threads <- TwoThreads
  Programs <- Pairs
  ContextOf <- Own
  MayFail = TRUE
INVARIANTS ReadsCurrent InOrder
