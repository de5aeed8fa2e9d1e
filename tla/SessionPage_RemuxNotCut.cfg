SPECIFICATION PageSpec
CONSTANTS
  PlanLength = 2
  MaxAttempts = 2
  MaxPresses = 2
  MaxLost = 1
PROPERTIES RemuxNotCut
CHECK_DEADLOCK FALSE
