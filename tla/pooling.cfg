\* Four callers on two connections lock two rows.
SPECIFICATION PoolFairSpec
CONSTANTS
    c1 = c1
    c2 = c2
    c3 = c3
    c4 = c4
    w1 = w1
    w2 = w2
    Callers = {c1, c2, c3, c4}
    Rows = {w1, w2}
    MaxOpenConns = 2
    None = None
INVARIANTS
    ConnectionsAreOwned
    WaitersHoldNothing
PROPERTIES
    CallsReturn
