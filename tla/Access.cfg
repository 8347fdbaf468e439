SPECIFICATION Spec
CONSTANTS
    w1 = w1  w2 = w2  a = a  good = good  bad = bad  k1 = k1  k2 = k2  k3 = k3
    Workers = {w1, w2}
    Urls = {a}
    Logins = {good, bad}
    Listed = {good}
    Tokens = {k1, k2, k3}
    BearerEnabled = TRUE
    Signed = {k1, k2}
    Expiration <- Expirations
    InScope <- Scopes
    Addresses <- Peers
    HostsAllowed <- Networks
    ByteBits = 2
    Width <- Widths
    HistDelay = 1
    MaxTime = 2
    NoPeer = NoPeer
    NoUrl = NoUrl
    NoToken = NoToken
    Never = Never
SYMMETRY Symmetry
INVARIANTS PeersOfNetworks 
