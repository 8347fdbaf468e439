SPECIFICATION Spec
CONSTANTS
    c1 = c1  c2 = c2  u1 = u1  u2 = u2  m1 = m1  m2 = m2
    Clients = {c1}
    Users = {u1}
    Broadcasts = {m1}
    NoThread = NoThread
    NoClient = NoClient
    NoMsg = NoMsg
    Pong = Pong
    Close = Close
    RecvTimeout = TRUE
    UseTLS = FALSE
    Events = {"sendFail", "remove"}
    QueueBound = 0
INVARIANT CloseOnExistingClient
CHECK_DEADLOCK FALSE
