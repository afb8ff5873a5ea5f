SPECIFICATION FairSpec
INVARIANT StopQuiescent
PROPERTY StopReturns
CHECK_DEADLOCK FALSE
