SPECIFICATION FairSpec
CONSTANTS
  Capacity = 4
  MaxBytes = 9
INVARIANTS ChunksMatchRing NoReadAfterFree
PROPERTIES ImplementsChannel AllConsumed
CHECK_DEADLOCK FALSE
