CONSTANTS
  Starts = {20240229}
  LastDate = 20290101
SPECIFICATION DatesSpec
INVARIANT CycleContains
CHECK_DEADLOCK FALSE
