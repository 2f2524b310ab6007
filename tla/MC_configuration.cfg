SPECIFICATION Spec
CONSTANTS
  a = a
  b = b
  unknown = unknown
  LongMax = 1023
  UnitNs <- MCUnitNs
  Names <- MCNames
  DurationTexts <- MCDurationTexts
  IntValue <- MCIntValue
  Directories <- MCDirectories
INVARIANTS TypeOK ManagerGetsTheConfiguration ManagerCanRelyOnIt
CHECK_DEADLOCK FALSE
