\* The hub's membership and its coroutines' termination, under the
\* io_context's fairness, for two connections and two groups.
CONSTANTS
    c1 = c1
    c2 = c2
    c3 = c3
    g1 = g1
    g2 = g2
    Conns <- MCConns2
    Groups <- MCGroups
    MaxFrames = 1
SPECIFICATION FairSpec
INVARIANT LiveMembersJoined
PROPERTY ClosedConnectionFinishes ImplementsMembership
\* After Server::stop every coroutine is halted: the system really stops.
CHECK_DEADLOCK FALSE
