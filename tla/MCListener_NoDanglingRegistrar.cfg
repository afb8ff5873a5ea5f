CONSTANTS
    k1 = k1
    k2 = k2
    Conns <- MCConns
    Threads = 2
    MaxAcceptErrors = 0
SPECIFICATION Spec
INVARIANT NoDanglingRegistrar
CHECK_DEADLOCK FALSE
