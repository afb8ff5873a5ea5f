CONSTANTS
    k1 = k1
    k2 = k2
    Conns <- MCConns
    Threads = 1
    MaxAcceptErrors = 1
SPECIFICATION FairSpec
PROPERTY ListenReturnsAfterStop
CHECK_DEADLOCK FALSE
