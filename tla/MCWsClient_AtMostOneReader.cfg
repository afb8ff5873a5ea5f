CONSTANTS
    r1 = r1
    r2 = r2
    o1 = o1
    o2 = o2
    Readers <- MCReaders
    Ops <- MCOps
    Handlers = {TRUE, FALSE}
    Urls <- MCUrls
SPECIFICATION Spec
INVARIANT AtMostOneReader
CHECK_DEADLOCK FALSE
