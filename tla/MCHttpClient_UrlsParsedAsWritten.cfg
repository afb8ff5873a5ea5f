CONSTANTS
    q1 = q1
    q2 = q2
    q3 = q3
    q4 = q4
    Reqs <- MCReqs
    Urls <- MCUrlsParse
    Threads = 1
    Timeout = 5
    SyncInHandler = FALSE
SPECIFICATION Spec
INVARIANT UrlsParsedAsWritten
CHECK_DEADLOCK FALSE
