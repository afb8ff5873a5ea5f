\* Expected violation: AtMostOneWriter.
CONSTANTS
    c1 = c1
    c2 = c2
    c3 = c3
    g1 = g1
    g2 = g2
    Conns <- MCConns
    Groups <- MCGroups1
    MaxFrames = 1
SPECIFICATION Spec
INVARIANT AtMostOneWriter
CHECK_DEADLOCK FALSE
