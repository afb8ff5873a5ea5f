CONSTANTS
    q1 = q1
    q2 = q2
    q3 = q3
    q4 = q4
    Reqs <- MCReqs
    Urls <- MCUrlsValid
    Threads = 2
    Timeout = 5
    SyncInHandler = TRUE
SPECIFICATION FairSpec
INVARIANT OneReplyPerRequest
PROPERTY AnsweredUnlessThreadsHeld
CHECK_DEADLOCK FALSE
