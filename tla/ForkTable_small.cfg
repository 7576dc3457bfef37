SPECIFICATION Spec
CONSTANTS
  Tables <- SmallTables
  OriginalVersion = 1
  Horizon = 6
INVARIANTS Ordered QueriesAgree
CHECK_DEADLOCK FALSE
