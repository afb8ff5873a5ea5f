\* The receive loop, with handlers set and reset, under the strand's fairness.
CONSTANTS
    r1 = r1
    r2 = r2
    o1 = o1
    o2 = o2
    Readers <- MCReaders
    Ops <- MCOps
    Handlers = {TRUE, FALSE}
    Urls <- MCUrls
SPECIFICATION FairSpec
PROPERTY ReceiverEndsAfterClose
\* ~Client stops the io_context: every coroutine halts and the system stops.
CHECK_DEADLOCK FALSE
