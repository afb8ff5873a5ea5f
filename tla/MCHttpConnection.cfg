\* Dispatch and the keep-alive loop of one connection, timeout configured.
CONSTANTS
    TimeoutSet = TRUE
    MaxRequests = 2
    MaxReplies = 2
SPECIFICATION FairSpec
INVARIANT OneResponsePerRequest
PROPERTY KeepAliveHonoured
PROPERTY ConnectionEnds
PROPERTY ImplementsExchange
\* A connection whose loop has ended, or whose client has sent all it will,
\* really stops.
CHECK_DEADLOCK FALSE
