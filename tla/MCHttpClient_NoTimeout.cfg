CONSTANTS
    q1 = q1
    q2 = q2
    q3 = q3
    q4 = q4
    Reqs <- MCReqs
    Urls <- MCUrls
    Threads = 1
    Timeout = 0
    SyncInHandler = FALSE
SPECIFICATION FairSpec
PROPERTY AllAnswered
CHECK_DEADLOCK FALSE
