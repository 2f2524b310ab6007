SPECIFICATION Spec
CONSTANTS
  a = a
  b = b
  c = c
  unknown = unknown
  Services <- MCServices
  Names <- MCNames
  Lists <- MCLists
INVARIANT DagIsAccepted
CHECK_DEADLOCK FALSE
