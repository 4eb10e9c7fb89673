SPECIFICATION FallbackSpec
CONSTANTS
  Start = 4
  Size = 6
  Sizes = {2, 4}
  Aligns = {1, 2}
  BackAddresses = {2, 3, 10, 11, 12, 13}
  Foreign <- MCForeign
  MaxRequested = 16
INVARIANTS RoutedByOwner NothingLost HighWater
PROPERTIES ImplementsWhole NeededSuffices
CHECK_DEADLOCK FALSE
