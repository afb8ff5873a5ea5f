\* Expected violation: NoDuplicateReply.
CONSTANTS
    TimeoutSet = TRUE
    MaxRequests = 2
    MaxReplies = 2
SPECIFICATION Spec
INVARIANT NoDuplicateReply
CHECK_DEADLOCK FALSE
