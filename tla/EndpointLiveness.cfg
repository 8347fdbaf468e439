SPECIFICATION FairSpec
CONSTANTS
    c1 = c1  c2 = c2  u1 = u1  u2 = u2  m1 = m1  m2 = m2
    Clients = {c1}
    Users = {u1, u2}
    Broadcasts = {m1}
    NoThread = NoThread
    NoClient = NoClient
    NoMsg = NoMsg
    Pong = Pong
    Close = Close
    RecvTimeout = FALSE
    UseTLS = FALSE
    Events = {"refuse", "closeFrame", "reset", "sendFail", "remove"}
    QueueBound = 0
PROPERTIES ListLockReleased TeardownCompletes
CHECK_DEADLOCK FALSE
