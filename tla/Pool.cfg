SPECIFICATION FairSpec
CONSTANTS
    w1 = w1  w2 = w2  k1 = k1  k2 = k2  k3 = k3
    Workers = {w1, w2}
    Conns = {k1, k2}
    Main = Main
    Stopper = Stopper
    NoThread = NoThread
    NoConn = NoConn
    SslEnabled = TRUE
    Events = {"hostRefused", "handshakeFail", "upgrade", "upgradeRefused", "stopInInit", "earlyStop"}
INVARIANTS TypeOK OneOwner  CtxLiveInHandshake
PROPERTIES QueueServed 
CHECK_DEADLOCK FALSE
