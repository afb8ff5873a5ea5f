CONSTANTS
    r1 = r1
    r2 = r2
    o1 = o1
    o2 = o2
    Readers <- MCReaders
    Ops <- MCOps
    Handlers = {TRUE}
    Urls <- MCUrlsAll
SPECIFICATION Spec
INVARIANT OpenRejectsOnlyMalformed
CHECK_DEADLOCK FALSE
