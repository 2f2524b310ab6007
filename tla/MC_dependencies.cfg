SPECIFICATION FairSpec
CONSTANTS
  a = a
  b = b
  c = c
  unknown = unknown
  Services <- MCServices
  Names <- MCNames
  Lists <- MCLists
INVARIANTS
  TypeOK
  AcceptedIsWellFormed
  NoServiceTwiceOnTrace
  VerdictIsOfTheGraph
PROPERTY ReachesVerdict
CHECK_DEADLOCK FALSE
