CONSTANTS
    n1 = n1
    n2 = n2
    w1 = w1
    k1 = k1
    h1 = h1
    t1 = t1
    t2 = t2
    Conns = {c1, c2}
    Instances = {n1}
    ClientIDs = {w1}
    APIKeys = {k1}
    Hosts = {h1}
    TokenIDs = {t1, t2}
    Requests <- TwoTokens
    NoConn = NoConn
    NoToken = NoToken
    MaxRevocations = 1
SPECIFICATION RFairSpec
PROPERTY RevokedIsClosed
CHECK_DEADLOCK FALSE
