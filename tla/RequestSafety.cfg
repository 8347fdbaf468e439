SPECIFICATION FairSpec
CONSTANTS
    w1 = w1  k1 = k1  k2 = k2  f1 = f1
    Workers = {w1}
    Conns = {k1, k2}
    Fds = {f1}
    NoConn = NoConn
    NoFd = NoFd
    Script <- Scripts
    ChunkMax = 4
    LineMax = 3
    PartMax = 2
    KeepAliveMax = 2
INVARIANTS TypeOK Framing ReadAheadOwned
PROPERTIES ConnectionEnds
CHECK_DEADLOCK FALSE
