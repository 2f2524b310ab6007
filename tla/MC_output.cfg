SPECIFICATION FairSpec
CONSTANTS
  Descendants = {"worker", "daemon"}
  Detached = {"daemon"}
  Partial = {2}
  Capacity = 3
  MaxMessages = 6
INVARIANTS TypeOK LastWordsAreRead ListensWhileOpen
PROPERTIES ReadingEnds ImplementsIntake
CHECK_DEADLOCK FALSE
