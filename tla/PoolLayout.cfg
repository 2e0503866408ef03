SPECIFICATION Spec
CONSTANTS
  capacity = 3
  MaxTag = 1
  MaxMerge = 2
INVARIANTS
  NeverRefused
  EveryIndexOnce
PROPERTIES
  ImplementsPool
CHECK_DEADLOCK FALSE
