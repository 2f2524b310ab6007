SPECIFICATION ReverseSpec
CONSTANTS
  a = a
  b = b
  c = c
  Services <- MCThree
  StartAfter <- MCTriangle
  Notify = {}
  Critical = {}
  MayFail = {b, c}
  Adopted = {}
  ReportsDeath = TRUE
  MaxStarts = 1
  MaxStops = 1
INVARIANT RestartExclusive
PROPERTY StopsInReverse
CHECK_DEADLOCK FALSE
