CONSTANTS
    n1 = n1
    w1 = w1
    k1 = k1
    k2 = k2
    h1 = h1
    h2 = h2
    t1 = t1
    t2 = t2
    Conns = {c1, c2}
    Instances = {n1}
    ClientIDs = {w1}
    APIKeys = {k1, k2}
    Hosts = {h1, h2}
    TokenIDs = {t1, t2}
    Requests <- OneWorld
    NoConn = NoConn
    NoToken = NoToken
SPECIFICATION Spec
PROPERTY CleanupRemovesOnlyInactive
CHECK_DEADLOCK FALSE
