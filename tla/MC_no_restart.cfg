SPECIFICATION FairSpec
CONSTANTS
  a = a
  b = b
  c = c
  orphan = orphan
  Services <- MCOne
  StartAfter <- MCOneFree
  Notify = {a}
  Critical = {}
  MayFail = {a}
  Adopted = {}
  ReportsDeath = FALSE
  MaxStarts = 1
  MaxStops = 0
PROPERTY DeathIsAnswered
CHECK_DEADLOCK FALSE
