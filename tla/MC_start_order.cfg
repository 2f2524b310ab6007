SPECIFICATION FairSpec
CONSTANTS
  a = a
  b = b
  c = c
  orphan = orphan
  Services <- MCThree
  StartAfter <- MCFanIn
  Notify = {c}
  Critical = {a}
  MayFail = {a, c}
  Adopted = {orphan}
  ReportsDeath = TRUE
  MaxStarts = 1
  MaxStops = 0
INVARIANTS
  TypeOK
  StartOrder
  StartupNotLost
  NoZombieForgotten
  AbortOnlyAfterClear
  NoServiceForgotten
PROPERTIES
  ReadyMeansAllRunning
  StartupCompletes
  DeathIsAnswered
  CriticalDeathIsFinal
  RestartHappens
  TerminationIsReported
CHECK_DEADLOCK FALSE
