CONSTANTS
    k1 = k1
    Launches = {l1, l2}
    Direct = {}
    Worlds = {w1}
    Keys = {k1}
    KeyOf <- OneAccount
    MaxSessions = 1
    None = None
SPECIFICATION FairSpec
PROPERTY SlotIsResolved
CHECK_DEADLOCK FALSE
