SPECIFICATION FairSpec
CONSTANT MaxFd = 14
INVARIANTS TypeOK ServiceHasItsStreams NoServiceOutlivesInit
PROPERTY OthersAreReported
CHECK_DEADLOCK FALSE
