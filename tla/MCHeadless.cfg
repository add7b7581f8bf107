CONSTANTS
    k1 = k1
    Launches = {l1, l2, l3}
    Direct = {l3}
    Worlds = {w1}
    Keys = {k1}
    KeyOf <- OneAccount
    MaxSessions = 1
    None = None
SPECIFICATION FairSpec
INVARIANTS
    TabsAreAccountedFor
    OneLaunchPerWorld
    OverLimitOnlyByOverlap
PROPERTY SlotIsResolvedUnlessCrossed
CHECK_DEADLOCK FALSE
