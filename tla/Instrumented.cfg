SPECIFICATION Spec
CONSTANTS
  BackAddresses = {4, 5, 6, 7, 8, 9}
  Sizes = {1, 2, 3}
  Aligns = {1, 2, 4}
INVARIANTS LeakIsHeldBytes LostUnseen
