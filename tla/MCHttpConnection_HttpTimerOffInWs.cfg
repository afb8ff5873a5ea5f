\* Expected violation: HttpTimerOffInWs.
CONSTANTS
    TimeoutSet = TRUE
    MaxRequests = 2
    MaxReplies = 2
SPECIFICATION Spec
INVARIANT HttpTimerOffInWs
CHECK_DEADLOCK FALSE
