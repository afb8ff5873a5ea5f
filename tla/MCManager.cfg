CONSTANTS
    a1 = a1
    a2 = a2
    b = b
    t1 = t1
    Objs <- MCObjs
    Id <- MCId
    Code <- MCCode
    HasId = TRUE
    HasCode = TRUE
    Threads = {t1}
    MaxNodes = 4
    Debug = TRUE
SPECIFICATION Spec
INVARIANT IndexOnlyListed
CHECK_DEADLOCK FALSE
