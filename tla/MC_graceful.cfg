SPECIFICATION WellBehavedSpec
CONSTANTS
  a = a
  b = b
  c = c
  orphan = orphan
  Services <- MCTwo
  StartAfter <- MCTwoFree
  Notify = {b}
  Critical = {}
  MayFail = {}
  Adopted = {}
  ReportsDeath = FALSE
  MaxStarts = 1
  MaxStops = 1
PROPERTY GracefulTermination
CHECK_DEADLOCK FALSE
