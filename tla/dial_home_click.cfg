CONSTANTS
  a = a
  b = b
  Targets <- TwoTargets
  Threshold = 1
  MaxClicks = 1
  MaxPushes = 2
  Rejected = {1}
SPECIFICATION Spec
INVARIANTS
  SingleClick
CHECK_DEADLOCK FALSE
