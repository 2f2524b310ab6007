SPECIFICATION Spec
CONSTANTS
  Threshold = 2
  MaxStops = 2
INVARIANT StartedWithPid
CHECK_DEADLOCK FALSE
