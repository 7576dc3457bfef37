SPECIFICATION Spec
CONSTANTS
  Tables <- MainnetTables
  OriginalVersion = 1
  Horizon = 200
INVARIANT TableTakesEffect
CHECK_DEADLOCK FALSE
