SPECIFICATION FairSpec
CONSTANTS
  Threshold = 2
  MaxStops = 2
INVARIANTS TypeOK PidIsHeld NoProcessLeftBehind SupervisionNeverLapses
PROPERTIES TerminationEscalates ImplementsLifecycle
CHECK_DEADLOCK FALSE
