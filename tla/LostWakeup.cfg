SPECIFICATION FairSpec
CONSTANTS
    c1 = c1  c2 = c2  u1 = u1  u2 = u2  m1 = m1  m2 = m2
    Clients = {c1}
    Users = {u1}
    Broadcasts = {}
    NoThread = NoThread
    NoClient = NoClient
    NoMsg = NoMsg
    Pong = Pong
    Close = Close
    RecvTimeout = TRUE
    UseTLS = FALSE
    Events = {"badFrame"}
    QueueBound = 0
PROPERTY RecvCloseCompletes
CHECK_DEADLOCK FALSE
