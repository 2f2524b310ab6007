SPECIFICATION Spec
CONSTANTS
  Descendants = {}
  Detached = {}
  Partial = {2}
  Capacity = 2
  MaxMessages = 2
INVARIANT OutputIsTheLog
CHECK_DEADLOCK FALSE
